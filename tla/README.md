# SyscallMind in TLA+

SyscallMind intercepts the syscalls of programs on a blockchain runtime, traces
them, and tries to serve some of them faster: from a cache, from a table of the
calls a transaction has already made, in batches, reordered or prefetched. These
modules model its Rust crates. TLC checks them on small instances, TLAPS proves
the main results for every value of the constants that the named assumptions
allow (section 4 says which).

`PROJECT.json` lists the components, the runs, the mutants, which lines of the
source each definition stands for, the hazards and the theorems.

## 1. Inventory

| Part | State it keeps | Operations | What makes it correct |
|---|---|---|---|
| `pipeline/ring_buffer.rs` | slots, atomic `head` and `tail` | `push`, `pop`, `len` | one producer and one consumer never race on a slot; bounded FIFO |
| `runtime/syscall_handler.rs`, `trace_emitter.rs` | slot, `total_calls`, `call_counts`, `dropped`, bounded channel | `handle`, `emit`, `advance_slot` | never blocks; every event is sent, counted as dropped, or found the receiver gone |
| `src/bin/syscallmind_runtime.rs` | loop counter, drain thread | main loop, drain, shutdown | ends; every event is processed or counted as dropped |
| `common`, `runtime/syscall_registry.rs`, `safety/classifier.rs` | two constant tables | `get_class`, `get_safety`, `classify` | the tables agree |
| `optimizer/cache.rs` | LRU list of stamped results | `get`, `insert`, `invalidate_*` | no hit is staler than its policy allows; bounded; LRU |
| `safety/dependency_checker.rs`, `validator.rs` | none | `check_sequence`, `validate_*` | what is approved does not change results or state |
| `optimizer/batcher.rs` | none | `batch_sysvar_reads` | every pending read is answered once, in a fixed order |
| `optimizer/dedup.rs` | table keyed by transaction, syscall, arguments | `check_and_count`, `record`, `clear_transaction` | cannot be observed by the transaction |
| `pipeline/window_builder.rs` | open windows per transaction | `ingest`, `finalize`, `drain_all` | windows split the trace without reordering, repeating or mixing |
| `src/bin/replay_harness.rs` | a window builder, counters | replay of a snapshot | one window per recorded transaction |
| `optimizer/prefetcher.rs` | shared buffer behind a lock | `trigger`, `consume` | a result is served once, to one transaction; a wrong one is discarded |
| `ml/inference/predictor.rs` | transition table, reload time | `predict_next`, `reorder_safe`, `maybe_reload` | advises nothing unsafe |
| `anomaly/*` | moving averages per program, event log | `ingest_window`, `check_anomaly` | what is new is flagged, what is routine is not |
| `pipeline/arrow_serializer.rs` | a file | `write_batch`, `read_windows` | what was written is read back; a fault damages no more than it must |
| `src/bin/workload_generator.rs` | time and slot of the next transaction | a line per transaction | transactions do not overlap in time |
| `ml/inference/anomaly_inference.rs`, `ml/training`, `benches`, `config` | none at run time | | |

How they meet. `handle` runs on the callers' threads; it puts an event into the
bounded channel of `TraceEmitter`, whose receiver is drained by another thread.
Pipeline parts consume events and give out windows. The README of the
repository describes the synchronous path as validator, then cache, dedup table
and prefetch buffer, then the real syscall; no code in the repository puts these
together, so their callers are modelled from the README and marked external.

Where it is hard: two threads on plain memory with acquire and release
accesses; counters read and written in separate steps; a channel that is full
or closed; an epoch or slot that advances between a miss, an execution and an
insert; transactions interleaved in one table; a check under one lock and an
insert under another; events that arrive late; an append that fails or is
interrupted half way, and is tried again; averages that blend only a part of
what they keep; ids that are in one table and not in another. `hazards` in `PROJECT.json` lists
each at its line.

## 2. Modules

| Module | Models | State and actions |
|---|---|---|
| `TraceQueue` | what a trace buffer promises | `accepted`, `delivered`; `Enqueue`, `Dequeue` |
| `RingBuffer` | `ring_buffer.rs` | one action per atomic access of `push` and `pop`; `len` by either thread |
| `SyscallTable` | ids, registry, classifier | operators only |
| `SyscallHandler` | `syscall_handler.rs`, `trace_emitter.rs` | one action per atomic step of `handle` and `emit`, any number of callers |
| `SyscallRuntime` | the runtime binary | extends `SyscallHandler` with main and the drain thread |
| `SysvarCache` | `cache.rs` | one action per `&mut self` operation; clients, epoch and slot around it |
| `SyscallSemantics` | what the syscalls do (external) | operators only |
| `SafetyLayer` | `dependency_checker.rs`, `validator.rs`, `reorder_safe` | operators over a traced sequence |
| `Batcher` | `batcher.rs` | extends `SafetyLayer`: the pending calls are its sequence |
| `DedupTable` | `dedup.rs` | one action per table operation, transactions interleaved |
| `Predictor` | table, fallback and `predict_next` of `predictor.rs` | operators only |
| `Prefetcher` | `prefetcher.rs` | check-and-fetch, insert and consume of any number of threads |
| `OptimizedPath` | the synchronous path of the repository's README | extends `DedupTable` and `Prefetcher`: table, buffer, execution |
| `WindowBuilder` | `window_builder.rs` | `Ingest`, `Finalize`, `DrainAll` |
| `WindowLog` | `arrow_serializer.rs` | extends `WindowBuilder`: begin, write, spill, flush or fail, crash; `read_windows` as a fold over the lines, as its loop is |
| `WorkloadGenerator` | `workload_generator.rs`, `generate_mock_snapshot` | a line of the trace per step |
| `ReplayHarness` | `replay_harness.rs` | extends `WindowBuilder` and `WorkloadGenerator`: a snapshot is written, then replayed line by line |
| `Anomaly` | `baseline.rs`, `detector.rs`, `policy.rs` | `ingest_window`, `check_anomaly` |

`MC...` modules give the constants model values and the symmetry. `...Proofs`
modules hold the theorems: `SyscallRuntimeProofs` those of the handler and of the
runtime, `OptimizedPathProofs` those of the table, the buffer and the path,
`WindowLogProofs` those of the builder, of the serializer and of the replay with its
generators, `SafetyLayerProofs` those of the safety layer and of the batcher.
`FiniteFacts` has the lemmas they share. A definition `X_Mut` (or `X_...Mut`) is the
definition `X` after it with one plausible mistake. Nothing uses it, except a
mutation check: `X` is given the body of its mutant, and the property named in
`PROJECT.json` must then fail.

Choices worth knowing:

* **Memory model.** In `RingBuffer` an atomic is the sequence of all values ever
  stored, and a thread may load any of them from the last one it saw on. An
  Acquire load synchronises with the Release store it sees; a slot access is a
  race unless it is ordered after the other thread's last access in this way.
  A racy read returns anything. Relaxed loads of the slot counter
  (`SyscallHandler`) and of epoch and slot (`SysvarCache`) are stale in the same
  sense. In `AdvanceSlot` of the handler the increment is a read-modify-write,
  so it adds to the last value.
* **Data.** An event keeps what properties tell apart: its caller, id and slot in
  the handler, its transaction, slot and arrival in the window builder.
  Arguments stand for their hashes, which are taken not to collide. A cached
  result is the epoch and slot it was produced in.
* **Callers of the cache and of the dedup table.** After a miss a client notes
  the epoch and slot, executes, and inserts with those stamps. The other order
  (noting after executing) would label an old result as new, and freshness
  would not hold: this is an obligation on the caller that `cache.rs` leaves
  open. A transaction clears its entries when it completes.
* **Optimized path.** A call that `validate_dedup` approves asks the table, then
  the buffer, then is executed; a result from the buffer is recorded in the
  table like an executed one. `simulate_fetch` gives what it gives in the code:
  zeros, a single one or nothing, from the syscall id alone; a sysvar or hash is taken
  to be something else. A transaction makes no call after an abort. The cache is not part of this
  composition: `SysvarCache` already has callers, epochs and slots around it.
  `maybe_reload` builds its table from the same constants, so it has no action.
* **Generators.** Times are in units of 50 microseconds. Random draws come from
  small sets (`CryptoCounts`, `ReadCounts`, `MockPool`...), and 432 transactions per
  slot become `PerSlot`. A field that a line of JSON may lack is a sequence of
  at most one value (`Optional`); the casts of id and depth to 32 and 8 bits
  (`replay_harness.rs:60` and `:68`) are the identity on the values used. The binary builds windows of 128 events, more than
  the 13 that the longest generated transaction has: `ReplayAssumption` asks for 13.
* **File.** A line is two pieces of JSON and a newline, the buffered writer hands
  pieces to the file one by one, and a line parses if it is the two pieces of one
  window. A crash is one of the process: what was handed to the file stays.
  Nothing calls `fsync`, so a power failure could take more. The thread that
  owns the builder writes its batches.
* **Averages.** `Anomaly` counts in 1/20000 and rounds down after each blend, where
  the code has floating point. The divergence is summed over the events of a window
  in thousandths, from a table of natural logarithms (`ln`), of which the proofs
  use only what `LnAssumption` states; a syscall the baseline lacks has ln 10^-10.
  `isolation > 0.7` is a comparison of squares with 2.1^2, in hundredths. The code
  has no `min_observations`: the constant is the one of the documents, and two of
  the properties are asked of programs past it only (`Mature`).
* **Semantics.** `SyscallSemantics` follows the classification comments and
  `docs/safety_proofs.md`: sysvars are fixed within a slot, crypto is a function
  of its arguments, logging appends, return data is shared by the programs of
  a transaction, memory belongs to a program, an abort ends everything.

## 3. Runs

Passing runs:

| Run | Instance | Shows |
|---|---|---|
| `ring_buffer` | 3 slots, 6 pushes | types, `NoDataRace`, `LenIsReliable`, the refinement `ImplementsQueue` of `TraceQueue`, and `Delivered`: what is accepted is popped. Six pushes wrap both indices twice, with the buffer full and empty on the way |
| `handler` | 2 callers, channel of 1, 2 calls each, 3 slot changes | `EventsAccounted`, `StatsFollowTotal`, `SlotsInCallOrder`, with a receiver that may leave at any moment; `HandleReturns` without any fairness for the receiver |
| `runtime` | 5 events, channel of 2, a slot every 2 | `ReportComplete`, `RuntimeEnds`. Of the counts in `ReportComplete` main prints the processed events only |
| `cache_safety` | 3 ids, one `Slot`, one `Permanent` and one without an entry; capacity 2; 4 gets | `HitFresh`, `WithinCapacity`, `PermanentKept`, `HotKept`. Three ids in two places force evictions |
| `safety_layer` | 11 ids, 2 programs, sequences of 3 | `ReorderSound`, `RawDependenciesFound`, `EligibilityAgrees`; `PredictorSoundButForLogs` of `reorder_safe`; `FetchedOnce`, `BatchesDeterministic` of the batcher |
| `optimized_path` | 2 transactions, 2 executions of 3 calls (clock, log, memory write and comparison, abort), 2 prefetch threads, 2 triggers of 2 predictions | `DeviationsConfined`: a result is that of execution, or what `simulate_fetch` makes up and the buffer served to this very execution, or a comparison of memory after a call on memory was skipped; `RepeatableReads`; `TableHoldsOwnCalls`; `FetchesAccounted` and `ReplacedOnlyByOverlap` of the prefetcher. Two executions overlap or are of the same transaction; three calls are enough for compare, write, compare. The exception for return data needs two more ids: `dedup_return_data` reaches it, the proof covers it |
| `window_log` | 2 transactions, 4 events, windows of 2, one fault | `OrderKept`, `LossExplained` of the builder; `ReadsBack`, `DamageContained` of the file. One fault suffices for a torn line, an append to it and a batch written twice |
| `replay` | 4 lines, generated or foreign, windows of 13 | `LineByLine`: no two lines flow into one window, whatever ids they carry or lack; `GeneratedComesThrough`. 13 events are the longest transaction a generator makes; one foreign line has 14 |
| `anomaly` | 1 program, 3 windows of 1 or 2 events, histories of up to 10 | `RoutineNotDivergent` for every window after every history, `OneLessonSuffices` for every step; `NovelFlagged`, `OutlierStaysFlagged` past the documented cold start of 10 windows |

The bounds (`MaxPushes`, `MaxCalls`, `MaxSlot`, `MaxGets`, `MaxRuns`,
`MaxEvents`, `MaxLines`, `MaxLen`...) are constants in the guards. Each is large
enough for a queue, channel, window or cache to fill, empty and fill again, and
for two actors to be inside an operation at once. `CHECK_DEADLOCK FALSE` stands
where the system may stop: the callers have made their calls, the program has
ended, the sequence has its full length, the bounds are used up. The ring buffer
and the window log never stop and are checked for deadlock.

Runs that end in a violation, each a disagreement between the code and what the
repository says of it:

| Run | The code | The repository says |
|---|---|---|
| `cache_clock` | the clock is `EpochBound` | `docs/architecture.md:61`: stale every slot |
| `dedup_return_data` | a read of return data is deduplicated across a write | `docs/safety_proofs.md:57`: fixed within a transaction |
| `anomaly_cold_start` | windows are checked as soon as there is a baseline | `docs/anomaly_detection.md:57`: not for the first 10 windows |

Three more disagreements are findings about properties that pass, since these
state what the code does instead:

| Property | The code | The repository says |
|---|---|---|
| `DeviationsConfined` | the bytes `simulate_fetch` makes up are served as results | `docs/safety_proofs.md:8`, `design/DESIGN.md:246`: identical return values |
| `FetchesAccounted` | a prediction that did not come true stays in the buffer | `design/DESIGN.md:227`: if wrong, the buffer is discarded |
| `PredictorSoundButForLogs` | ids up to 29, logs included, are safe to reorder | `docs/safety_proofs.md:10`: read-only only |

`DeviationsConfined` is what remains true of the path in spite of the first and of
`dedup_return_data`: it names every way in which results stray. `simulate_fetch` is
a stand-in by its own comment (`prefetcher.rs:12`), so the finding is about the code
as it is, not about what it stands in for.

Smaller disagreements met while modelling have no run:

* A repeated log or write of memory is answered from the dedup table and not
  executed, although `docs/safety_proofs.md:53` says that deduplication does not alter
  observable semantics for such calls. `DeviationsConfined` promises nothing of the
  log, and of the memory only until a call on it is skipped.
* The frequencies of a baseline are not "normalized to sum to 1"
  (`docs/anomaly_detection.md:38`): they add up to a tenth after the first window and
  may pass one later, since only the syscalls of a window are blended.
* `check_sequence` compares a mutating call only with later calls, so it finds
  reads after writes and no writes after reads, although
  `dependency_checker.rs:14` names both; `validate_reorder` does not depend on it
  (section 4). A dependency between two programs, one that sets the return data
  and one that reads it, is not looked for, as the comment of `check_sequence`
  says; `RawDependenciesFound` is about one program.
* `can_batch` accepts the ids 7 to 9, which the registry does not know, although
  `batcher.rs:19` calls them sysvar reads; the validator refuses a batch of them,
  and the runs use ids of the table.
* `invalidate_epoch` skips ids without an entry in `invalidation_map` (the stake
  history), which `get` treats as `EpochBound`: their stale results take room until
  they are asked for or evicted, and are never served (`HitFresh`).
* `score_program` is documented as a score in [0, 1] (`detector.rs:31`) and is capped
  from above only; a divergence from frequencies that add up to more than one can
  be negative.
* `write_batch` "returns the number of windows written" (`arrow_serializer.rs:26`),
  but the first of them is lost if the file ended in a torn line, and
  `read_windows` then refuses the whole file. `DamageContained` and `ReadsBack` say
  exactly how far this goes.
* `consume` counts no miss for a key that is not there: the counter of misses stays
  zero. The predictor's best probability is 0.40, below the threshold of 0.80 and
  more that tests and configuration give the prefetcher; the run uses 0.30, at
  which something is fetched.

### Fairness

* `RingBuffer`: each thread finishes an operation it has begun, and the consumer
  keeps popping and eventually sees the last store of `tail` (atomics become
  visible in finite time). The producer need not push.
* `SyscallHandler`: a caller inside `handle` takes its next step, since no step
  waits for anyone. Nothing is assumed of the receiver.
* `SyscallRuntime`: the operating system stops neither of the two threads for
  ever: weak fairness of main and of the drain thread.

## 4. Proofs

TLAPS checks every proof; there is no unproved statement. `PROJECT.json` lists
the theorems. For each component the main question was what to add to its
properties to make them inductive.

* `RingBufferProofs`, for every `Size >= 1`, event set and number of pushes.
  `TypeCorrectness`, `RaceFreedom`, `LenReliability` and `QueueRefinement` rest
  on one inductive invariant `IndInv`. Race freedom is not inductive by itself:
  one must know what a slot holds and who touched it last. `IndInv` ties the
  modification orders to the histories (`tails` has one entry more than
  `pushed`), says where in its lap each index is, and gives for every slot
  the store that published its last write and the one that released its last
  read. A lemma per action shows it preserved; modular arithmetic is replaced by
  `Wrap` and `Ahead`, defined by cases, in `IndexArithmetic`.
* `SyscallRuntimeProofs`, for any number of callers, syscalls, calls and slots and
  every channel capacity. `EventsAccounted` and `StatsFollowTotal` are counted over
  the callers between two steps; a call that moves on changes exactly one count
  (`CountMoves`) and one term of a sum (`SumChanges`). `SlotsInCallOrder` needs that
  the slot in an unsent event is the one its caller saw last and that the caller
  sent none later. `ReportComplete` of the binary adds where main is, what it has
  counted there and who still holds an end of the channel (`RuntimeInd`), and
  reuses the handler's invariant: every step of the binary is a step of the
  handler or touches the ends of the channel only.
* `SysvarCacheProofs`, for any number of clients, ids, epochs and slots and any
  capacity. `Freshness` needs the strengthening that a stamp noted by a client,
  and the stamp of every entry, is no later than the moment of its data, and
  that stamps noted are no later than what has been seen; only then does an
  insert delayed across an epoch change preserve it. `WithinCapacityHolds` and
  `HotKeptHolds` rest on a second invariant, `CacheInd`: the recency list has each
  key held exactly once, and whatever stands before a key was used since the
  key was. `PermanentStays` and `HotKeptHolds` are about steps.
* `SafetyLayerProofs`, for sequences of any length. `VerdictAgreement` follows
  from `ReorderMeansReadOnly`: `validate_reorder` approves exactly the sequences
  of read-only calls, so the dependency check never changes its verdict.
  `ReorderSoundness` compares two folds, over the sequence and over a permutation
  of it: a fold over read-only calls never leaves the state it began in, so a
  call observes the same wherever it stands. `PredictorSoundness` is the same for
  the calls up to id 29 that are not logs. `DependenciesFound` compares the
  fold over a sequence of one program with the one over its calls that are not
  mutating: as long as `check_sequence` reports nothing, both agree on all that
  these calls can see. `FetchingOnce` and `BatchOrder` are about the batcher's
  table, a fold over the pending calls: after each of them the group of an id has
  every hash asked for so far once, the one asked for first in front; `Ascending`
  is shown to put the ids in order.
* `OptimizedPathProofs`, for any number of transactions, programs, syscalls,
  executions, prefetch threads and triggers. `PrefetchInd` says that a thread whose
  key has appeared since its check was overtaken; `DedupInd` that a call being
  executed is not in the table and that the table holds what its transaction was
  given. `DeviationsConfinedHolds` adds that the buffer holds what `simulate_fetch`
  makes up for its keys (`FetchInd`) and that each transaction is beside plain
  execution (`PathInd`): its return data, abort and slot are right, its memory too
  until a call on memory is skipped, and a recorded read of return data is right
  until they are set. Nothing is assumed of the ids: logs, memory calls, return
  data and aborts are included. A call gets its result from the table, from the
  buffer or by execution (`Got`), and each of these keeps the transaction beside.
* `WindowLogProofs`, for any number of transactions, events and late events, any
  order of finalizing and draining and any faults of the serializer.
  `finalize` and `drain_all` are both a closing of some open windows in some order,
  and `BuilderInd`, which puts all windows of a transaction, given out or open, in
  the order of arrival, is preserved by any closing. `LossExplainedHolds` assumes
  a positive window size: with size zero no event is ever kept, and no window
  explains why.

  *The replay*, for snapshots of any length, with any fields missing.
  `LineByLine` speaks of the windows written so far; it is inductive together with
  the fact that no window is open between two lines (`ReplayInd`), from which
  the fold of `ingest` over a line's events leaves one open window with just
  those, the first `max_window_size` of them, and `finalize` gives out that one.
  `GeneratedTraceWhole` adds, in `GenInd`, what a generated snapshot is: lines of 1
  to 13 events, slots that follow from the number of lines, times before the
  generator's next one, and that the events counted are the ones in the
  windows. It uses `max_window_size >= 13`.

  *The log*, for any number of windows, batches and faults. A file is its whole
  lines and a tip that no newline has ended yet; each piece either extends the tip or
  turns it into a line. A fault leaves a prefix of `All`, what the file holds
  and the BufWriter would still add, so `LogInd` must speak of every such prefix
  (`Contained`), and neither `ReadsBack` nor `DamageContained` is inductive
  alone. It further counts a torn tip against the faults before it
  becomes a bad line (`TornCounted`), reserves an attempt for each window that is
  still to be written (`Owed`), says that only the first window of a batch can meet
  a torn tip (`BatchLanded`) and that acknowledged windows are on whole lines, or
  exposed in a file with a bad line (`AckedLanded`), and fixes the content of the
  file as long as nothing has failed (`InOrder`). TLC checked `LogInd` with one and
  with two faults before it was proved.
* `AnomalyProofs`, for any programs, windows of any length up to `MaxLen` and
  histories of any length. The properties compare a baseline with the history it
  was taught, of which it keeps averages only. `AnomalyInd` says what these keep: the
  syscalls ever seen; of each, a frequency of at least a tenth of its share in some
  window that called it; the greatest depth; a tenth of the only delay. With that,
  each property is a comparison with a threshold. The divergence is a sum over the
  events of a window, so a bound of each summand bounds it (`SumBounds`): a syscall
  with a tenth of its share contributes at most 2.5 (`TenthSuffices`, used for both
  `RoutineNotDivergent` and `OneLessonSuffices`), an unknown one at least 14, a known
  one at least -9, so half a window of unknown ones is enough. One feature of 2.2
  alone is a norm above 2.1. `min_observations` may be any number, zero included:
  `NovelFlagged` and `OutlierStaysFlagged` then hold from the first window on.

`FiniteFacts` holds what the library lacks or states with an operator parameter
that the provers cannot instantiate. Induction over a finite set is stated for
sets of subsets instead (`SetInduction`); a fold of the community modules is
unfolded to the recursive function it is defined by, whose equation is then
proved by that induction (`PartialEquation`, `KeptEquation`, and in
`WindowLogProofs` once for all its folds, `FoldSolved`). What a fold returns for a
sequence of any length then follows by induction on the length, over a set of
numbers.

Assumptions are the named `ASSUME`s of the component modules: sizes are
positive, bounds are naturals, a garbage value is not an event, the ids, callers
and prefetch threads that are counted are finitely many, a replayed window has room
for 13 events. `Anomaly` bounds the length of a window by a tenth of its unit, so
that no share is rounded to zero, and `LnAssumption` asks of the table of logarithms
that it grows, that it is at most 9 up to `MaxLen`, and that a tenth of a share,
rounded down, is at most 2.5 below the share. TLC evaluates it for `MaxLen` = 128, the
size of the windows the replay builds.

Every invariant, every action property and the refinement that the passing runs
check is stated by a theorem, with one exception: of `PredictorSoundButForLogs`,
`PredictorSoundness` proves that an approved sequence without logs commutes; that one
with logs does exactly if they write the same line is model-checked. Also only
model-checked is liveness (`Delivered`, `HandleReturns`, `RuntimeEnds`), which needs
fairness and `ENABLED`. The three runs that end in a violation refute what they check
on their instances; nothing is proved about those.
The other way round, `VerdictPairwise` is close to the definitions and is only proved.

## 5. Not modelled, and the plan

Not modelled:

* Python training and ONNX export: offline numerics over libraries that are not
  in the repository.
* `fnv_hash`: arguments stand for their hashes. With a collision the dedup table,
  the cache and the prefetch buffer would mix two calls up.
* The numbers that are only reported: `score_program`, `risk_score`, `hit_rate`.
* `OnnxAnomalyScorer` of `anomaly_inference.rs`: a stateless comparison of the norm
  with a limit, which only its own tests call.
* Benchmarks, configuration files (no code reads them), printing, clocks.

What is left to do: the sysvar cache as a third stage of `OptimizedPath`, and with it
`Freshness` carried over to the results the path gives.
