-------------------------------- MODULE Anomaly -------------------------------
(***************************************************************************)
(* The anomaly detector (baseline.rs, detector.rs, policy.rs): per program *)
(* a baseline of moving averages, taught by ingest_window, and             *)
(* check_anomaly, which compares a window with it and logs an event if one *)
(* of two scores is too high.                                              *)
(*                                                                         *)
(* Averages are whole numbers of 1/Unit, rounded down by each blend.       *)
(* Delays are in milliseconds.  The divergence is computed in thousandths  *)
(* from a table of logarithms, and multiplied by the length of the window. *)
(* Of the norm only the comparison with its threshold is computed: the     *)
(* square root is moved to the other side of it, and the features are      *)
(* rounded down to hundredths before they are squared.  The thresholds are *)
(* those of default_policy.                                                *)
(***************************************************************************)
EXTENDS SyscallTable, Integers, Sequences, FiniteSets, FiniteSetsExt, Functions, TLC

CONSTANTS Programs,
          Windows,           \* windows: sequences of events [id, depth, ts]
          ln,                \* natural logarithms of 1 .. Unit, in thousandths
          min_observations,  \* windows of the cold start, of the documents only
          MaxLen,            \* bound: events in a window
          MaxWindows,        \* bound: windows ingested
          MaxLog             \* bound: events logged

Unit == 20000

ASSUME AnomalyAssumption ==
  /\ min_observations \in Nat /\ MaxWindows \in Nat /\ MaxLog \in Nat
  /\ MaxLen \in Nat /\ 10 * MaxLen <= Unit
  /\ Windows \subseteq Seq([id : Nat, depth : 0 .. 255, ts : Nat])
  /\ \A w \in Windows : Len(w) <= MaxLen

\* What is needed of the table: it grows, it is below 9 up to MaxLen, and a tenth
\* of a share, rounded down twice, is not further than 2.5 from the share.
ASSUME LnAssumption ==
  /\ ln \in [1 .. Unit -> Nat]
  /\ \A x \in 1 .. Unit - 1 : ln[x] <= ln[x + 1]
  /\ \A n \in 1 .. MaxLen : ln[n] <= 9000
  /\ \A n \in 1 .. MaxLen : \A c \in 1 .. n :
       ln[c] + ln[Unit] <= ln[n] + ln[((c * Unit) \div n) \div 10] + 2500

VARIABLES baselines,   \* a function from some programs to their baselines
          events_log,
          ingested     \* history: the windows each program's baseline was taught

vars == <<baselines, events_log, ingested>>

-------------------------------------------------------------------------------
(* ProgramBaseline *)

NewBaseline ==
  [syscall_frequencies |-> <<>>, mean_delay |-> 0, max_cpi_depth |-> 0, crypto_ratio |-> 0,
   total_observations |-> 0]

IdsOf(w) == {w[i].id : i \in 1 .. Len(w)}

\* How many of the window's events are calls of ids, and their share.
CallsOf(w, ids) == Cardinality({i \in 1 .. Len(w) : w[i].id \in ids})
Share(w, ids) == (CallsOf(w, ids) * Unit) \div Len(w)

\* The moving average with alpha = 0.1.  The mutants add without a weight, and
\* learn at half the rate.
Blend_Mut(old, new) == old + new
Blend_Slow(old, new) == (19 * old + new) \div 20
Blend(old, new) == (9 * old + new) \div 10

FrequencyOf(b, id) ==
  IF id \in DOMAIN b.syscall_frequencies THEN b.syscall_frequencies[id] ELSE 0

\* The syscalls whose frequency is blended: those in the window.  The mutant also
\* lets the others decay.
BlendedIds_Mut(b, w) == IdsOf(w) \cup DOMAIN b.syscall_frequencies
BlendedIds(b, w) == IdsOf(w)

NewFrequencies(b, w) ==
  [id \in IdsOf(w) \cup DOMAIN b.syscall_frequencies |->
     IF id \in BlendedIds(b, w) THEN Blend(FrequencyOf(b, id), Share(w, {id}))
     ELSE FrequencyOf(b, id)]

\* The mean distance between neighbours, whichever is later.
MeanDelay(w) ==
  LET apart(i) == IF w[i].ts < w[i + 1].ts THEN w[i + 1].ts - w[i].ts ELSE w[i].ts - w[i + 1].ts
  IN  (SumFunction([i \in 1 .. Len(w) - 1 |-> apart(i)]) * Unit) \div (Len(w) - 1)

\* A window of one event has no delay and leaves the mean alone.  The mutant
\* takes it for a delay of zero.
NewDelay_Mut(b, w) == Blend(b.mean_delay, IF Len(w) > 1 THEN MeanDelay(w) ELSE 0)
NewDelay(b, w) == IF Len(w) > 1 THEN Blend(b.mean_delay, MeanDelay(w)) ELSE b.mean_delay

\* The greatest depth ever seen.
NewDepth(b, w) == Max({b.max_cpi_depth} \cup {w[i].depth : i \in 1 .. Len(w)})

update(b, w) ==
  IF w = <<>> THEN b
  ELSE [syscall_frequencies |-> NewFrequencies(b, w),
        mean_delay |-> NewDelay(b, w),
        max_cpi_depth |-> NewDepth(b, w),
        crypto_ratio |-> Blend(b.crypto_ratio, Share(w, CryptoIds)),
        total_observations |-> b.total_observations + Len(w)]

-------------------------------------------------------------------------------
(* The two scores against their thresholds *)

\* The logarithm of the baseline frequency.  A syscall it lacks has 10^-10.  The
\* mutant gives it frequency one.
LnExpected_Mut(b, id) ==
  IF id \in DOMAIN b.syscall_frequencies THEN ln[FrequencyOf(b, id)] - ln[Unit] ELSE 0
LnExpected(b, id) ==
  IF id \in DOMAIN b.syscall_frequencies THEN ln[FrequencyOf(b, id)] - ln[Unit] ELSE -23026

\* The logarithm of the share of a syscall in the window over its frequency.
Surprise(b, w, id) == (ln[CallsOf(w, {id})] - ln[Len(w)]) - LnExpected(b, id)

\* kl_divergence > 2.5.  The divergence is the mean of the surprise over the
\* events of the window.
kl_triggered(b, w) ==
  SumFunction([i \in 1 .. Len(w) |-> Surprise(b, w, w[i].id)]) > 2500 * Len(w)

Hundredths(x) == x \div (Unit \div 100)

\* The four syscalls with the greatest frequencies, or all if there are not four.
\* Which of two equal ones comes first makes no difference.
Outranks(b, x, y) ==
  \/ FrequencyOf(b, x) > FrequencyOf(b, y)
  \/ FrequencyOf(b, x) = FrequencyOf(b, y) /\ x < y

TopIds(b) ==
  LET ids == DOMAIN b.syscall_frequencies
  IN  {id \in ids : Cardinality({x \in ids : Outranks(b, x, id)}) < 4}

\* feature_vector, in hundredths.
feature_vector(b) ==
  [crypto |-> Hundredths(b.crypto_ratio), depth |-> 10 * b.max_cpi_depth,
   delay |-> Hundredths(Min({b.mean_delay, 100 * Unit})),
   diversity |-> (100 * Cardinality(DOMAIN b.syscall_frequencies)) \div 30,
   top |-> [id \in TopIds(b) |-> Hundredths(FrequencyOf(b, id))]]

\* The square of its norm.
SquaredNorm(b) ==
  LET v == feature_vector(b)
  IN  v.crypto * v.crypto + v.depth * v.depth + v.delay * v.delay + v.diversity * v.diversity
        + SumFunction([id \in TopIds(b) |-> v.top[id] * v.top[id]])

\* isolation_score > 0.7, that is, norm > 2.1.
iso_triggered(b) == SquaredNorm(b) > 210 * 210

-------------------------------------------------------------------------------
(* AnomalyDetector *)

\* The verdict of check_anomaly: none without a baseline or events, otherwise that
\* of the policy's evaluate.
Flagged(p, w) ==
  /\ p \in DOMAIN baselines /\ w # <<>>
  /\ kl_triggered(baselines[p], w) \/ iso_triggered(baselines[p])

Init == baselines = <<>> /\ events_log = <<>> /\ ingested = [p \in Programs |-> <<>>]

BaselineOf(p) == IF p \in DOMAIN baselines THEN baselines[p] ELSE NewBaseline

\* A program's first window makes its baseline, also if it is empty.
ingest_window(p, w) ==
  /\ FoldFunction(LAMBDA seen, n : Len(seen) + n, 0, ingested) < MaxWindows
  /\ baselines' = [q \in DOMAIN baselines \cup {p} |->
                     IF q = p THEN update(BaselineOf(p), w) ELSE baselines[q]]
  /\ ingested' = [ingested EXCEPT ![p] = Append(@, w)]
  /\ UNCHANGED events_log

check_anomaly(p, w) ==
  /\ Len(events_log) < MaxLog
  /\ events_log' = IF Flagged(p, w)
                   THEN Append(events_log, [program |-> p, kl |-> kl_triggered(baselines[p], w),
                                            iso |-> iso_triggered(baselines[p])])
                   ELSE events_log
  /\ UNCHANGED <<baselines, ingested>>

Next == \E p \in Programs, w \in Windows : ingest_window(p, w) \/ check_anomaly(p, w)

Spec == Init /\ [][Next]_vars

-------------------------------------------------------------------------------
(* Properties *)

\* The averages of shares stay shares, none of them zero, and a program has a
\* baseline exactly if a window of it was ingested.
TypeOK ==
  /\ DOMAIN baselines = {p \in Programs : ingested[p] # <<>>}
  /\ \A p \in DOMAIN baselines :
       /\ \A id \in DOMAIN baselines[p].syscall_frequencies :
            FrequencyOf(baselines[p], id) \in 1 .. Unit
       /\ baselines[p].crypto_ratio \in 0 .. Unit

\* The windows that teach a delay.
Several(seen) == {k \in 1 .. Len(seen) : Len(seen[k]) > 1}

Taught(p) == {ingested[p][i] : i \in 1 .. Len(ingested[p])}

\* A program past its cold start.
Mature(p) == p \in DOMAIN baselines /\ Len(ingested[p]) >= min_observations

\* A window of which at least half is syscalls the program never made before is
\* flagged, whatever else the baseline holds.
NovelFlagged ==
  \A p \in Programs, w \in Windows :
    LET known == UNION {IdsOf(v) : v \in Taught(p)}
        novel == Cardinality({i \in 1 .. Len(w) : w[i].id \notin known})
    IN  Mature(p) /\ w # <<>> /\ 2 * novel >= Len(w) => Flagged(p, w)

\* What a program has always done in one way is never too divergent, after one
\* window and after many, and however much other behaviour came since: the
\* averages start at zero and grow slowly, but ln 10 < 2.5, and a frequency does not
\* fall while its syscall is not called.
RoutineNotDivergent ==
  \A p \in DOMAIN baselines, w \in Windows \ {<<>>} :
    /\ w \in Taught(p)
    /\ \A v \in Taught(p) : IdsOf(v) \cap IdsOf(w) # {} =>
         \A id \in IdsOf(v) \cup IdsOf(w) : Share(v, {id}) = Share(w, {id})
    => ~kl_triggered(baselines[p], w)

\* One lesson is enough: a window that was just ingested is not divergent,
\* whatever the baseline held before and however rare its syscalls were.
OneLessonSuffices ==
  [][\A p \in Programs, w \in Windows \ {<<>>} :
       ingest_window(p, w) => ~kl_triggered(baselines'[p], w)]_vars

\* One window nested 22 deep, or a delay of 22 milliseconds that only windows of
\* one event followed, marks a program for good: the depth never falls and the
\* mean delay does not move, so every later window is flagged.
OutlierStaysFlagged ==
  \A p \in Programs, w \in Windows \ {<<>>} :
    /\ Mature(p)
    /\ \/ \E v \in Taught(p) : \E i \in 1 .. Len(v) : v[i].depth >= 22
       \/ \E k \in DOMAIN ingested[p] :
            /\ Several(ingested[p]) = {k}
            /\ MeanDelay(ingested[p][k]) >= 22 * Unit
    => Flagged(p, w)

\* No window is flagged before min_observations windows of its program were
\* ingested.
ColdStartQuiet ==
  \A p \in Programs, w \in Windows : ~Mature(p) => ~Flagged(p, w)
===============================================================================
