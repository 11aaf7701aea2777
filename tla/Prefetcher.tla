------------------------------ MODULE Prefetcher ------------------------------
(***************************************************************************)
(* The speculative prefetcher (prefetcher.rs): a buffer behind a           *)
(* read-write lock, filled by threads that call trigger with a list of     *)
(* predictions and emptied by threads that call consume.                   *)
(*                                                                         *)
(* trigger looks for the key under the read lock, lets go of it, fetches,  *)
(* and inserts under the write lock: two steps per prediction, between     *)
(* which other threads insert and consume.  simulate_fetch reads nothing   *)
(* shared and is part of the first step.  consume removes the entry and    *)
(* decides under one write lock: one step.                                 *)
(*                                                                         *)
(* simulate_fetch executes nothing: its bytes depend on the syscall only,  *)
(* neither on the arguments nor on the slot, and a syscall without a case  *)
(* gets empty bytes.  They are served as they are.  Every entry is ready   *)
(* when it is inserted, so is_ready is left out, and the misses that       *)
(* consume would count for one that is not ready are always zero: a key    *)
(* that is not in the buffer counts as nothing.                            *)
(***************************************************************************)
EXTENDS Predictor, SyscallSemantics, FiniteSets

CONSTANTS Prefetchers,           \* threads that call trigger
          confidence_threshold,  \* as given to new, in the unit of the predictor
          MaxTriggers            \* bound: calls of trigger

ASSUME PrefetchAssumption == /\ confidence_threshold \in Nat /\ MaxTriggers \in Nat
                             /\ IsFiniteSet(Prefetchers)

VARIABLES buffer,      \* (syscall, args_hash) -> result fetched
          hits,
          tpc,         \* of each prefetch thread: idle, check, insert
          todo,        \* the predictions it still has to look at
          fetched,     \* the result it is about to insert
          triggers,    \* calls of trigger made
          fetches,     \* history: fetches made
          replaced,    \* history: entries replaced by an insert
          overtaken    \* history: threads whose key was inserted since they looked

prefetchVars == <<buffer, hits, tpc, todo, fetched, triggers, fetches, replaced, overtaken>>

\* So many bytes that are all zero, and the single byte 1.
Zeros(n) == <<"zeros", n>>
One == <<"one">>

simulate_fetch(id) ==
  CASE id \in {CLOCK, RENT, EPOCH_SCHEDULE} -> Zeros(64)
    [] id \in {SHA256, KECCAK256}           -> Zeros(32)
    [] id = SECP256K1_RECOVER               -> Zeros(64)
    [] id = ED25519_VERIFY                  -> One
    [] OTHER                                -> NoResult

PrefetchInit ==
  /\ buffer = <<>> /\ hits = 0
  /\ tpc = [t \in Prefetchers |-> "idle"]
  /\ todo = [t \in Prefetchers |-> <<>>]
  /\ fetched = [t \in Prefetchers |-> NoResult]
  /\ triggers = 0 /\ fetches = 0 /\ replaced = 0 /\ overtaken = {}

\* trigger is called with predictions <<syscall, args_hash, confidence>>.
TriggerBegin(t, predictions) ==
  /\ tpc[t] = "idle" /\ triggers < MaxTriggers
  /\ triggers' = triggers + 1
  /\ tpc' = [tpc EXCEPT ![t] = "check"]
  /\ todo' = [todo EXCEPT ![t] = predictions]
  /\ UNCHANGED <<buffer, hits, fetched, fetches, replaced, overtaken>>

KeyOf(t) == <<Head(todo[t])[1], Head(todo[t])[2]>>

Confident(t) == Head(todo[t])[3] >= confidence_threshold

\* contains_key, under the read lock.
InBuffer_Mut(key) == FALSE
InBuffer(key) == key \in DOMAIN buffer

AfterHead(t) ==
  /\ todo' = [todo EXCEPT ![t] = Tail(@)]
  /\ tpc' = [tpc EXCEPT ![t] = IF Len(todo[t]) = 1 THEN "idle" ELSE "check"]

\* The prediction is too weak, or its key is there already.
TriggerSkip(t) ==
  /\ tpc[t] = "check" /\ (~Confident(t) \/ InBuffer(KeyOf(t)))
  /\ AfterHead(t)
  /\ UNCHANGED <<buffer, hits, fetched, triggers, fetches, replaced, overtaken>>

TriggerFetch(t) ==
  /\ tpc[t] = "check" /\ Confident(t) /\ ~InBuffer(KeyOf(t))
  /\ fetched' = [fetched EXCEPT ![t] = simulate_fetch(KeyOf(t)[1])]
  /\ fetches' = fetches + 1
  /\ tpc' = [tpc EXCEPT ![t] = "insert"]
  /\ UNCHANGED <<buffer, hits, todo, triggers, replaced, overtaken>>

\* The write lock: HashMap::insert, whatever others have inserted meanwhile.
TriggerInsert(t) ==
  /\ tpc[t] = "insert"
  /\ buffer' = [k \in DOMAIN buffer \cup {KeyOf(t)} |->
                  IF k = KeyOf(t) THEN fetched[t] ELSE buffer[k]]
  /\ replaced' = IF KeyOf(t) \in DOMAIN buffer THEN replaced + 1 ELSE replaced
  /\ overtaken' = (overtaken \ {t}) \cup {u \in Prefetchers \ {t} :
                                            tpc[u] = "insert" /\ KeyOf(u) = KeyOf(t)}
  /\ fetched' = [fetched EXCEPT ![t] = NoResult]
  /\ AfterHead(t)
  /\ UNCHANGED <<hits, triggers, fetches>>

\* consume finds the key: the entry leaves the buffer.  The mutant leaves it in.
AfterConsume_Mut(key) == buffer
AfterConsume(key) == [k \in DOMAIN buffer \ {key} |-> buffer[k]]

ConsumeHit(key) ==
  /\ key \in DOMAIN buffer
  /\ buffer' = AfterConsume(key)
  /\ hits' = hits + 1
  /\ UNCHANGED <<tpc, todo, fetched, triggers, fetches, replaced, overtaken>>

\* consume does not find it: nothing changes, nothing is counted.
ConsumeMiss(key) == key \notin DOMAIN buffer /\ UNCHANGED prefetchVars

-------------------------------------------------------------------------------
(* Properties *)

\* Every fetch has one fate: it was served to exactly one call, waits in the
\* buffer, was replaced there, or is about to be inserted.  None is served twice
\* and none is lost, however triggers and consumers interleave.
FetchesAccounted ==
  fetches = hits + Cardinality(DOMAIN buffer) + replaced
              + Cardinality({t \in Prefetchers : tpc[t] = "insert"})

\* The check under the read lock is as good as one lock around both steps,
\* except for triggers that overlap: an entry is replaced only by a thread that
\* was already fetching the key when the entry was inserted.
ReplacedOnlyByOverlap ==
  [][\A t \in Prefetchers :
       TriggerInsert(t) /\ KeyOf(t) \in DOMAIN buffer => t \in overtaken]_prefetchVars
===============================================================================
