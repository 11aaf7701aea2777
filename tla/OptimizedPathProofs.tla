-------------------------- MODULE OptimizedPathProofs -------------------------
(***************************************************************************)
(* The deduplication table and the prefetch buffer on the synchronous      *)
(* path, for any number of transactions, programs, syscalls, arguments,    *)
(* executions and prefetch threads, and any predictions.                   *)
(*                                                                         *)
(* The prefetcher's accounts need only that a thread about to insert a     *)
(* key that is there by now was overtaken.  The table's properties need    *)
(* that a call being executed is one the table does not have, and that     *)
(* the table has what its transaction was given.                           *)
(*                                                                         *)
(* The last theorem compares the path with plain execution, which is a     *)
(* fold over the calls made.  One more call of the transaction moves that  *)
(* fold on by one step (PlainAppend), which is all that is needed of it.   *)
(* FetchInd says that the buffer, and a thread about to insert, hold what  *)
(* simulate_fetch makes up; PathInd says that each transaction is beside   *)
(* plain execution: its state is right but for the log, and for memory     *)
(* once a call on it was skipped, and so are its results but for the       *)
(* deviations that DeviationsConfined names.  A call gets its result in    *)
(* one of three ways (Got), and each of them keeps that (BesideOneMore).   *)
(***************************************************************************)
EXTENDS OptimizedPath, FiniteFacts

-------------------------------------------------------------------------------
(* The prefetcher *)

PrefetchPlaces == {"idle", "check", "insert"}

Inserting == Count(tpc, Prefetchers, "insert")

PrefetchTypes ==
  /\ hits \in Nat /\ replaced \in Nat /\ fetches \in Nat
  /\ IsFiniteSet(DOMAIN buffer)
  /\ tpc \in [Prefetchers -> PrefetchPlaces]
  /\ todo = [t \in Prefetchers |-> todo[t]]

\* Whoever is about to insert a key that is in the buffer was overtaken.
OvertakenKnown ==
  \A t \in Prefetchers : tpc[t] = "insert" /\ KeyOf(t) \in DOMAIN buffer => t \in overtaken

\* The inductive invariant of the prefetcher.
PrefetchInd == PrefetchTypes /\ FetchesAccounted /\ OvertakenKnown

\* What the prefetch threads and the consumers do to the prefetcher.
PrefetchAction ==
  \/ \E t \in Prefetchers :
       \/ \E predictions : TriggerBegin(t, predictions)
       \/ TriggerSkip(t) \/ TriggerInsert(t)
       \/ TriggerFetch(t)
  \/ \E key : ConsumeHit(key)
  \/ UNCHANGED prefetchVars

\* FetchesAccounted, in terms of Count.
LEMMA AccountsRestated ==
  FetchesAccounted <=> fetches = hits + Cardinality(DOMAIN buffer) + replaced + Inserting
  BY DEF FetchesAccounted, Inserting, Count, Where

\* At first nothing is fetched.
LEMMA PrefetchInitInd == PrefetchInit => PrefetchInd
<1> SUFFICES ASSUME PrefetchInit PROVE PrefetchInd
  OBVIOUS
<1>1. DOMAIN buffer = {}
  BY DEF PrefetchInit
<1>2. Inserting = 0
  BY CountNone DEF PrefetchInit, Inserting
<1>3. FetchesAccounted
  BY <1>1, <1>2, AccountsRestated, FS_EmptySet DEF PrefetchInit
<1>4. PrefetchTypes /\ OvertakenKnown
  BY <1>1, FS_EmptySet DEF PrefetchInit, PrefetchTypes, OvertakenKnown, PrefetchPlaces
<1> QED
  BY <1>3, <1>4 DEF PrefetchInd

Moves(t, l) == tpc' = [tpc EXCEPT ![t] = l]

\* A thread that moves from one place to another enters or leaves the inserting.
LEMMA InsertingMoves ==
  ASSUME PrefetchTypes, NEW t \in Prefetchers, NEW l, Moves(t, l)
  PROVE  /\ Inserting \in Nat /\ Inserting' \in Nat
         /\ tpc[t] = "insert" /\ l # "insert" => Inserting' = Inserting - 1
         /\ tpc[t] # "insert" /\ l = "insert" => Inserting' = Inserting + 1
         /\ tpc[t] # "insert" /\ l # "insert" => Inserting' = Inserting
<1>1. tpc'[t] = l /\ SameBut(tpc, tpc', Prefetchers, t)
  BY DEF PrefetchTypes, SameBut, Moves
<1> DEFINE A == Count(tpc, Prefetchers, "insert")
           B == Count(tpc', Prefetchers, "insert")
<1>2. /\ tpc[t] = "insert" /\ tpc'[t] # "insert" => B = A - 1
      /\ tpc[t] # "insert" /\ tpc'[t] = "insert" => B = A + 1
      /\ (tpc[t] = "insert" <=> tpc'[t] = "insert") => B = A
  BY <1>1, PrefetchAssumption, CountMoves
<1>4. A \in Nat /\ B \in Nat
  BY <1>1, PrefetchAssumption, CountMoves
<1>3. Inserting = A /\ Inserting' = B
  BY DEF Inserting
<1> HIDE DEF A, B
<1> QED
  BY <1>1, <1>2, <1>3, <1>4

\* A place that another thread takes, and a key that another thread has.
LEMMA OtherThreads ==
  ASSUME PrefetchTypes, NEW t \in Prefetchers, NEW l, tpc' = [tpc EXCEPT ![t] = l],
         \/ todo' = todo
         \/ \E x : todo' = [todo EXCEPT ![t] = x]
  PROVE  /\ tpc'[t] = l
         /\ \A u \in Prefetchers \ {t} : tpc'[u] = tpc[u] /\ todo'[u] = todo[u]
         /\ todo' = [u \in Prefetchers |-> todo'[u]]
         /\ l \in PrefetchPlaces => tpc' \in [Prefetchers -> PrefetchPlaces]
  BY DEF PrefetchTypes

\* trigger is called, skips a prediction, or fetches for one: the buffer stays.
LEMMA TriggerLooksInd ==
  ASSUME PrefetchInd, NEW t \in Prefetchers,
         \/ \E predictions : TriggerBegin(t, predictions)
         \/ TriggerSkip(t)
         \/ TriggerFetch(t)
  PROVE  PrefetchInd'
<1>0. PrefetchTypes /\ FetchesAccounted /\ OvertakenKnown
  BY DEF PrefetchInd
<1>1. PICK l \in PrefetchPlaces :
        /\ tpc[t] # "insert" /\ tpc' = [tpc EXCEPT ![t] = l]
        /\ todo' = todo \/ \E x : todo' = [todo EXCEPT ![t] = x]
        /\ UNCHANGED <<buffer, hits, replaced, overtaken>>
        /\ IF l = "insert" THEN /\ fetches' = fetches + 1 /\ todo' = todo
                                /\ KeyOf(t) \notin DOMAIN buffer
           ELSE fetches' = fetches
  <2>1. CASE \E predictions : TriggerBegin(t, predictions)
    BY <2>1 DEF TriggerBegin, PrefetchPlaces
  <2>2. CASE TriggerSkip(t)
    <3>1. \E l \in {"idle", "check"} : tpc' = [tpc EXCEPT ![t] = l]
      BY <2>2 DEF TriggerSkip, AfterHead
    <3> QED
      BY <2>2, <3>1 DEF TriggerSkip, AfterHead, PrefetchPlaces
  <2>3. CASE TriggerFetch(t)
    BY <2>3 DEF TriggerFetch, InBuffer, PrefetchPlaces
  <2> QED
    BY <2>1, <2>2, <2>3
<1>2. /\ tpc'[t] = l
      /\ \A u \in Prefetchers \ {t} : tpc'[u] = tpc[u] /\ todo'[u] = todo[u]
      /\ todo' = [u \in Prefetchers |-> todo'[u]]
      /\ tpc' \in [Prefetchers -> PrefetchPlaces]
  BY <1>0, <1>1, OtherThreads
<1>3. PrefetchTypes'
  BY <1>0, <1>1, <1>2 DEF PrefetchTypes
<1>4. FetchesAccounted'
  <2>1. /\ Inserting \in Nat
        /\ Inserting' = IF l = "insert" THEN Inserting + 1 ELSE Inserting
    <3>1. Moves(t, l)
      BY <1>1 DEF Moves
    <3> QED
      BY <1>0, <1>1, <3>1, InsertingMoves
  <2>2. Cardinality(DOMAIN buffer) \in Nat
    BY <1>0, FS_CardinalityType DEF PrefetchTypes
  <2>3. fetches = hits + Cardinality(DOMAIN buffer) + replaced + Inserting
    BY <1>0, AccountsRestated
  <2>4. fetches' = hits + Cardinality(DOMAIN buffer) + replaced + Inserting'
    BY <1>0, <1>1, <2>1, <2>2, <2>3 DEF PrefetchTypes
  <2> QED
    BY <1>1, <2>4 DEF FetchesAccounted, Inserting, Count, Where
<1>5. OvertakenKnown'
  <2>1. ASSUME NEW u \in Prefetchers, tpc'[u] = "insert", KeyOf(u)' \in DOMAIN buffer'
        PROVE  u \in overtaken'
    <3>1. CASE u = t
      BY <1>1, <1>2, <2>1, <3>1 DEF KeyOf
    <3>2. CASE u # t
      BY <1>0, <1>1, <1>2, <2>1, <3>2 DEF KeyOf, OvertakenKnown
    <3> QED
      BY <3>1, <3>2
  <2> QED
    BY <2>1 DEF OvertakenKnown
<1> QED
  BY <1>3, <1>4, <1>5 DEF PrefetchInd

\* An insert moves its fetch into the buffer, or replaces one that is there.
LEMMA TriggerInsertInd ==
  ASSUME PrefetchInd, NEW t \in Prefetchers, TriggerInsert(t)
  PROVE  PrefetchInd'
<1> DEFINE key == KeyOf(t)
           D == DOMAIN buffer
<1>0. PrefetchTypes /\ FetchesAccounted /\ OvertakenKnown
  BY DEF PrefetchInd
<1>1. PICK l \in {"idle", "check"} :
        /\ tpc[t] = "insert" /\ tpc' = [tpc EXCEPT ![t] = l]
        /\ \E x : todo' = [todo EXCEPT ![t] = x]
  BY DEF TriggerInsert, AfterHead
<1>2. /\ DOMAIN buffer' = D \cup {key}
      /\ replaced' = IF key \in D THEN replaced + 1 ELSE replaced
      /\ overtaken' = (overtaken \ {t}) \cup {u \in Prefetchers \ {t} :
                                                tpc[u] = "insert" /\ KeyOf(u) = key}
      /\ UNCHANGED <<hits, fetches>>
  BY DEF TriggerInsert
<1> HIDE DEF key, D
<1>3. /\ tpc'[t] = l
      /\ \A u \in Prefetchers \ {t} : tpc'[u] = tpc[u] /\ todo'[u] = todo[u]
      /\ todo' = [u \in Prefetchers |-> todo'[u]]
      /\ tpc' \in [Prefetchers -> PrefetchPlaces]
  BY <1>0, <1>1, OtherThreads DEF PrefetchPlaces
<1>4. IsFiniteSet(D) /\ Cardinality(D) \in Nat
  BY <1>0, FS_CardinalityType DEF PrefetchTypes, D
<1>5. /\ IsFiniteSet(D \cup {key})
      /\ Cardinality(D \cup {key}) = IF key \in D THEN Cardinality(D) ELSE Cardinality(D) + 1
  BY <1>4, FS_AddElement
<1>6. PrefetchTypes'
  BY <1>0, <1>2, <1>3, <1>5 DEF PrefetchTypes
<1>7. FetchesAccounted'
  <2>1. Inserting \in Nat /\ Inserting' = Inserting - 1
    <3>1. Moves(t, l)
      BY <1>1 DEF Moves
    <3> QED
      BY <1>0, <1>1, <3>1, InsertingMoves
  <2>2. fetches = hits + Cardinality(D) + replaced + Inserting
    BY <1>0, AccountsRestated DEF D
  <2>3. hits \in Nat /\ replaced \in Nat /\ fetches \in Nat
    BY <1>0 DEF PrefetchTypes
  <2>4. fetches = hits + Cardinality(D \cup {key}) + replaced' + Inserting'
    BY <1>2, <1>4, <1>5, <2>1, <2>2, <2>3
  <2> QED
    BY <1>2, <2>4 DEF FetchesAccounted, Inserting, Count, Where
<1>8. OvertakenKnown'
  <2>1. ASSUME NEW u \in Prefetchers, tpc'[u] = "insert", KeyOf(u)' \in DOMAIN buffer'
        PROVE  u \in overtaken'
    <3>1. u # t /\ tpc[u] = "insert"
      BY <1>1, <1>3, <2>1
    <3>2. KeyOf(u)' = KeyOf(u)
      BY <1>3, <3>1 DEF KeyOf
    <3>3. CASE KeyOf(u) = key
      BY <1>2, <3>1, <3>3
    <3>4. CASE KeyOf(u) # key
      BY <1>0, <1>2, <2>1, <3>1, <3>2, <3>4 DEF OvertakenKnown, D
    <3> QED
      BY <3>3, <3>4
  <2> QED
    BY <2>1 DEF OvertakenKnown
<1> QED
  BY <1>6, <1>7, <1>8 DEF PrefetchInd

\* consume takes an entry out and counts it.
LEMMA ConsumeInd ==
  ASSUME PrefetchInd, NEW key, ConsumeHit(key)
  PROVE  PrefetchInd'
<1> DEFINE D == DOMAIN buffer
<1>0. PrefetchTypes /\ FetchesAccounted /\ OvertakenKnown
  BY DEF PrefetchInd
<1>1. /\ key \in D /\ DOMAIN buffer' = D \ {key} /\ hits' = hits + 1
      /\ UNCHANGED <<tpc, todo, fetches, replaced, overtaken>>
  BY DEF ConsumeHit, AfterConsume
<1> HIDE DEF D
<1>2. /\ IsFiniteSet(D) /\ Cardinality(D) \in Nat /\ IsFiniteSet(D \ {key})
      /\ Cardinality(D \ {key}) = Cardinality(D) - 1
  <2>1. IsFiniteSet(D)
    BY <1>0 DEF PrefetchTypes, D
  <2>2. Cardinality(D \ {key}) = IF key \in D THEN Cardinality(D) - 1 ELSE Cardinality(D)
    BY <2>1, FS_RemoveElement
  <2> QED
    BY <1>1, <2>1, <2>2, FS_CardinalityType, FS_RemoveElement
<1>3. PrefetchTypes'
  BY <1>0, <1>1, <1>2 DEF PrefetchTypes
<1>4. FetchesAccounted'
  <2>1. Inserting \in Nat
    <3>1. IsFiniteSet(Where(tpc, Prefetchers, "insert"))
      BY PrefetchAssumption, FS_Subset DEF Where
    <3> QED
      BY <3>1, FS_CardinalityType DEF Inserting, Count
  <2>2. fetches = hits + Cardinality(D) + replaced + Inserting
    BY <1>0, AccountsRestated DEF D
  <2>3. fetches = (hits + 1) + Cardinality(D \ {key}) + replaced + Inserting
    BY <1>0, <1>2, <2>1, <2>2 DEF PrefetchTypes
  <2> QED
    BY <1>1, <2>3 DEF FetchesAccounted, Inserting, Count, Where
<1>5. OvertakenKnown'
  BY <1>0, <1>1 DEF OvertakenKnown, KeyOf, D
<1> QED
  BY <1>3, <1>4, <1>5 DEF PrefetchInd

\* Nothing that happens to the prefetcher breaks its invariant.
LEMMA PrefetchStepInd == PrefetchInd /\ PrefetchAction => PrefetchInd'
<1> SUFFICES ASSUME PrefetchInd, PrefetchAction PROVE PrefetchInd'
  OBVIOUS
<1>1. CASE UNCHANGED prefetchVars
  BY <1>1 DEF PrefetchInd, PrefetchTypes, FetchesAccounted, OvertakenKnown, KeyOf, prefetchVars
<1> QED
  BY <1>1, TriggerLooksInd, TriggerInsertInd, ConsumeInd DEF PrefetchAction

\* Every step of the path is one of these for the prefetcher.
LEMMA PathPrefetch == [PathNext]_pathVars => PrefetchAction
<1> SUFFICES ASSUME [PathNext]_pathVars PROVE PrefetchAction
  OBVIOUS
<1>1. CASE UNCHANGED pathVars
  BY <1>1 DEF pathVars, PrefetchAction
<1>2. ASSUME NEW tx \in Txs, PathComplete(tx) \/ ServePrefetched(tx) \/ Fallthrough(tx)
      PROVE  PrefetchAction
  BY <1>2 DEF PathComplete, ServePrefetched, Fallthrough, ConsumeMiss, PrefetchAction
<1>3. ASSUME NEW t \in Prefetchers, PrefetchStep(t) PROVE PrefetchAction
  BY <1>3 DEF PrefetchStep, PrefetchAction
<1> QED
  BY <1>1, <1>2, <1>3 DEF PathNext, PrefetchAction

\* The prefetcher's invariant holds on the path.
THEOREM PrefetchIndHolds == PathSpec => []PrefetchInd
<1>1. PathInit => PrefetchInd
  BY PrefetchInitInd DEF PathInit
<1>2. PrefetchInd /\ [PathNext]_pathVars => PrefetchInd'
  BY PathPrefetch, PrefetchStepInd
<1> QED
  BY <1>1, <1>2, PTL DEF PathSpec

\* Every fetch of the prefetcher has exactly one fate, however triggers and
\* consumers interleave.
THEOREM FetchesAccountedHolds == PathSpec => []FetchesAccounted
<1>1. PrefetchInd => FetchesAccounted
  BY DEF PrefetchInd
<1> QED
  BY <1>1, PrefetchIndHolds, PTL

\* An entry of the buffer is replaced only by a thread that was fetching its key
\* already when the entry was inserted.
THEOREM ReplacedOnlyByOverlapHolds == PathSpec => ReplacedOnlyByOverlap
<1> DEFINE Overlap == \A t \in Prefetchers :
                        TriggerInsert(t) /\ KeyOf(t) \in DOMAIN buffer => t \in overtaken
<1>1. PrefetchInd => Overlap
  BY DEF PrefetchInd, OvertakenKnown, TriggerInsert
<1>2. PrefetchInd => [Overlap]_prefetchVars
  BY <1>1
<1> QED
  BY <1>2, PrefetchIndHolds, PTL DEF ReplacedOnlyByOverlap

-------------------------------------------------------------------------------
(* The deduplication table *)

Listlike(s) == s \in Seq({s[i] : i \in 1 .. Len(s)})

DedupTypes ==
  /\ phase \in [Txs -> {"idle", "running", "executing"}]
  /\ made \in [Txs -> Seq(Calls)]
  /\ pending = [tx \in Txs |-> pending[tx]]
  /\ given = [tx \in Txs |-> given[tx]]
  /\ \A tx \in Txs : Listlike(given[tx]) /\ Len(given[tx]) = Len(made[tx])

IdleMadeNone == \A tx \in Txs : phase[tx] = "idle" => made[tx] = <<>>

\* A call that is being executed is eligible, and the table does not have it: no
\* step of another transaction records under its key.
MissedCall(tx, call) ==
  pending[tx] = <<call>> /\ validate_dedup(call.id) /\ Key(tx, call) \notin DOMAIN table

PendingMissed ==
  \A tx \in Txs : phase[tx] = "executing" => \E call \in Calls : MissedCall(tx, call)

Eligible(tx) == {i \in 1 .. Len(made[tx]) : validate_dedup(made[tx][i].id)}

\* The table has every eligible call, with the result that was given for it, and
\* nothing else.
TableGives ==
  \A tx \in Txs : \A i \in Eligible(tx) :
    Key(tx, made[tx][i]) \in DOMAIN table /\ table[Key(tx, made[tx][i])] = given[tx][i]

TableOwn ==
  \A k \in DOMAIN table : \E tx \in Txs : \E i \in Eligible(tx) : k = Key(tx, made[tx][i])

\* The inductive invariant of the deduplication table.
DedupInd == DedupTypes /\ IdleMadeNone /\ PendingMissed /\ TableGives /\ TableOwn

\* A result that is appended to a list.
LEMMA ListAppend ==
  ASSUME NEW s, Listlike(s), NEW x
  PROVE  /\ Listlike(Append(s, x)) /\ Len(Append(s, x)) = Len(s) + 1 /\ Len(s) \in Nat
         /\ \A i \in 1 .. Len(s) : Append(s, x)[i] = s[i]
         /\ Append(s, x)[Len(s) + 1] = x
<1> DEFINE V == {s[i] : i \in 1 .. Len(s)} \cup {x}
           t == Append(s, x)
<1>1. s \in Seq(V) /\ x \in V
  BY DEF Listlike
<1> HIDE DEF V
<1>2. /\ t \in Seq(V) /\ Len(t) = Len(s) + 1 /\ Len(s) \in Nat
      /\ \A i \in 1 .. Len(s) : t[i] = s[i]
      /\ t[Len(s) + 1] = x
  BY <1>1
<1> HIDE DEF t
<1>3. t \in Seq({t[i] : i \in 1 .. Len(t)})
  BY <1>2
<1> QED
  BY <1>2, <1>3 DEF Listlike, t

\* The empty list.
LEMMA ListEmpty == Listlike(<<>>) /\ Len(<<>>) = 0
  BY DEF Listlike

\* At first the table is empty and no transaction executes.
LEMMA DedupInitInd == Init => DedupInd
<1> SUFFICES ASSUME Init PROVE DedupInd
  OBVIOUS
<1>1. \A tx \in Txs : made[tx] = <<>> /\ given[tx] = <<>> /\ phase[tx] = "idle"
  BY DEF Init
<1>2. \A tx \in Txs : Eligible(tx) = {}
  BY <1>1 DEF Eligible
<1>3. DOMAIN table = {}
  BY DEF Init
<1>4. DedupTypes
  <2>1. \A tx \in Txs : Listlike(given[tx]) /\ Len(given[tx]) = Len(made[tx])
    BY <1>1, ListEmpty
  <2> QED
    BY <2>1 DEF Init, DedupTypes
<1> QED
  BY <1>1, <1>2, <1>3, <1>4 DEF DedupInd, IdleMadeNone, PendingMissed, TableGives, TableOwn

\* Where the result of a call comes from: the table is bypassed, has the call,
\* or gets it.
Resolved(tx, call, result) ==
  \/ ~validate_dedup(call.id) /\ table' = table
  \/ /\ validate_dedup(call.id) /\ Key(tx, call) \in DOMAIN table
     /\ result = table[Key(tx, call)] /\ table' = table
  \/ /\ validate_dedup(call.id) /\ Key(tx, call) \notin DOMAIN table
     /\ record(Key(tx, call), result)

\* A call that a transaction is given a result for, however it came about.
CallGiven(tx, call, result) ==
  /\ call \in Calls /\ phase[tx] # "idle"
  /\ Give(tx, call, result)
  /\ Resolved(tx, call, result)
  /\ phase' = [phase EXCEPT ![tx] = "running"]
  /\ pending' = pending \/ pending' = [pending EXCEPT ![tx] = <<>>]

\* What a given call does to the history.
LEMMA GivenHistory ==
  ASSUME DedupInd, NEW tx \in Txs, NEW call, NEW result, CallGiven(tx, call, result)
  PROVE  /\ DedupTypes'
         /\ Len(made[tx]) \in Nat /\ Len(made'[tx]) = Len(made[tx]) + 1
         /\ made'[tx][Len(made[tx]) + 1] = call
         /\ given'[tx][Len(made[tx]) + 1] = result
         /\ \A i \in 1 .. Len(made[tx]) : made'[tx][i] = made[tx][i] /\ given'[tx][i] = given[tx][i]
         /\ \A u \in Txs \ {tx} : /\ made'[u] = made[u] /\ given'[u] = given[u]
                                  /\ phase'[u] = phase[u] /\ pending'[u] = pending[u]
<1>0. DedupTypes
  BY DEF DedupInd
<1>1. /\ made'[tx] = Append(made[tx], call) /\ given'[tx] = Append(given[tx], result)
      /\ \A u \in Txs \ {tx} : /\ made'[u] = made[u] /\ given'[u] = given[u]
                               /\ phase'[u] = phase[u] /\ pending'[u] = pending[u]
      /\ given' = [u \in Txs |-> given'[u]] /\ pending' = [u \in Txs |-> pending'[u]]
      /\ DOMAIN made' = Txs /\ made' = [made EXCEPT ![tx] = Append(made[tx], call)]
  BY <1>0 DEF DedupTypes, CallGiven, Give
<1>2. call \in Calls /\ made[tx] \in Seq(Calls)
  BY <1>0 DEF DedupTypes, CallGiven
<1>3. /\ Len(made[tx]) \in Nat /\ Len(made'[tx]) = Len(made[tx]) + 1
      /\ made'[tx] \in Seq(Calls)
      /\ made'[tx][Len(made[tx]) + 1] = call
      /\ \A i \in 1 .. Len(made[tx]) : made'[tx][i] = made[tx][i]
  BY <1>1, <1>2
<1>4. Listlike(given[tx]) /\ Len(given[tx]) = Len(made[tx])
  BY <1>0 DEF DedupTypes
<1>5. /\ Listlike(given'[tx]) /\ Len(given'[tx]) = Len(made'[tx])
      /\ given'[tx][Len(made[tx]) + 1] = result
      /\ \A i \in 1 .. Len(made[tx]) : given'[tx][i] = given[tx][i]
  BY <1>1, <1>3, <1>4, ListAppend
<1>6. \A u \in Txs : Listlike(given'[u]) /\ Len(given'[u]) = Len(made'[u])
  <2>1. ASSUME NEW u \in Txs \ {tx} PROVE Listlike(given'[u]) /\ Len(given'[u]) = Len(made'[u])
    <3>1. Listlike(given[u]) /\ Len(given[u]) = Len(made[u])
      BY <1>0 DEF DedupTypes
    <3>2. given'[u] = given[u] /\ made'[u] = made[u]
      BY <1>1
    <3> QED
      BY <3>1, <3>2
  <2> QED
    BY <1>5, <2>1
<1>7. phase' \in [Txs -> {"idle", "running", "executing"}]
  BY <1>0 DEF DedupTypes, CallGiven
<1>8. made' \in [Txs -> Seq(Calls)]
  BY <1>0, <1>1, <1>3 DEF DedupTypes
<1>9. DedupTypes'
  BY <1>1, <1>6, <1>7, <1>8 DEF DedupTypes, Listlike
<1> QED
  BY <1>1, <1>3, <1>5, <1>9

\* A call that is given keeps the table in step with the history.
LEMMA GivenInd ==
  ASSUME DedupInd, NEW tx \in Txs, NEW call, NEW result, CallGiven(tx, call, result)
  PROVE  DedupInd'
<1> DEFINE n == Len(made[tx])
           K == Key(tx, call)
<1>0. DedupTypes /\ IdleMadeNone /\ PendingMissed /\ TableGives /\ TableOwn
  BY DEF DedupInd
<1>1. /\ n \in Nat /\ Len(made'[tx]) = n + 1
      /\ made'[tx][n + 1] = call /\ given'[tx][n + 1] = result
      /\ \A i \in 1 .. n : made'[tx][i] = made[tx][i] /\ given'[tx][i] = given[tx][i]
      /\ \A u \in Txs \ {tx} : /\ made'[u] = made[u] /\ given'[u] = given[u]
                               /\ phase'[u] = phase[u] /\ pending'[u] = pending[u]
  BY GivenHistory
<1>2. DedupTypes'
  BY GivenHistory
<1>3. phase'[tx] = "running"
  BY <1>0 DEF DedupTypes, CallGiven
<1>4. IdleMadeNone'
  BY <1>0, <1>1, <1>3 DEF IdleMadeNone
<1>5. /\ \A k \in DOMAIN table : k \in DOMAIN table' /\ table'[k] = table[k]
      /\ \A k \in DOMAIN table' \ DOMAIN table : k = K /\ validate_dedup(call.id)
      /\ validate_dedup(call.id) => K \in DOMAIN table' /\ table'[K] = result
  BY DEF CallGiven, Resolved, record
<1>6. \A u \in Txs \ {tx} : Eligible(u)' = Eligible(u)
  BY <1>1 DEF Eligible
<1>7. Eligible(tx)' = Eligible(tx) \cup (IF validate_dedup(call.id) THEN {n + 1} ELSE {})
  <2>1. 1 .. n + 1 = (1 .. n) \cup {n + 1} /\ n + 1 \notin 1 .. n
    BY <1>1
  <2>2. \A i \in 1 .. n : i \in Eligible(tx)' <=> i \in Eligible(tx)
    BY <1>1, <2>1 DEF Eligible
  <2>3. n + 1 \in Eligible(tx)' <=> validate_dedup(call.id)
    BY <1>1, <2>1 DEF Eligible
  <2>4. Eligible(tx)' \subseteq 1 .. n + 1 /\ Eligible(tx) \subseteq 1 .. n
    BY <1>1 DEF Eligible
  <2> QED
    BY <2>1, <2>2, <2>3, <2>4
<1>8. \A i \in Eligible(tx) : i \in 1 .. n
  BY DEF Eligible
<1>9. PendingMissed'
  <2>1. ASSUME NEW u \in Txs, phase'[u] = "executing" PROVE \E c \in Calls : MissedCall(u, c)'
    <3>1. u # tx /\ phase[u] = "executing" /\ pending'[u] = pending[u]
      BY <1>1, <1>3, <2>1
    <3>2. PICK c \in Calls : MissedCall(u, c)
      BY <1>0, <3>1 DEF PendingMissed
    <3>3. Key(u, c) # K
      BY <3>1 DEF Key
    <3> QED
      BY <1>5, <3>1, <3>2, <3>3 DEF MissedCall, Key
  <2> QED
    BY <2>1 DEF PendingMissed
<1>10. TableGives'
  <2>1. ASSUME NEW u \in Txs, NEW i \in Eligible(u)'
        PROVE  /\ Key(u, made'[u][i]) \in DOMAIN table'
               /\ table'[Key(u, made'[u][i])] = given'[u][i]
    <3>1. CASE u # tx
      BY <1>0, <1>1, <1>5, <1>6, <3>1 DEF TableGives
    <3>2. CASE u = tx /\ i \in Eligible(tx)
      BY <1>0, <1>1, <1>5, <1>8, <3>2 DEF TableGives
    <3>3. CASE u = tx /\ i = n + 1 /\ validate_dedup(call.id)
      BY <1>1, <1>5, <3>3
    <3> QED
      BY <1>7, <3>1, <3>2, <3>3
  <2> QED
    BY <2>1 DEF TableGives, Key
<1>11. TableOwn'
  <2>1. ASSUME NEW k \in DOMAIN table'
        PROVE  \E u \in Txs : \E i \in Eligible(u)' : k = Key(u, made'[u][i])
    <3>1. CASE k \in DOMAIN table
      <4>1. PICK u \in Txs : \E i \in Eligible(u) : k = Key(u, made[u][i])
        BY <1>0, <3>1 DEF TableOwn
      <4>2. CASE u = tx
        BY <1>1, <1>7, <1>8, <4>1, <4>2
      <4>3. CASE u # tx
        BY <1>1, <1>6, <4>1, <4>3
      <4> QED
        BY <4>2, <4>3
    <3>2. CASE k \notin DOMAIN table
      BY <1>1, <1>5, <1>7, <3>2
    <3> QED
      BY <3>1, <3>2
  <2> QED
    BY <2>1 DEF TableOwn, Key
<1> QED
  BY <1>2, <1>4, <1>9, <1>10, <1>11 DEF DedupInd

\* With the history and the table, what the table has and gives stays.
LEMMA TableKept ==
  ASSUME TableGives, TableOwn, UNCHANGED <<table, made, given>>
  PROVE  TableGives' /\ TableOwn'
<1>1. \A tx : Eligible(tx)' = Eligible(tx)
  BY DEF Eligible
<1>2. TableGives'
  BY <1>1 DEF TableGives, Key
<1>3. TableOwn'
  BY <1>1 DEF TableOwn, Key
<1> QED
  BY <1>2, <1>3

\* A step that leaves the history and the table: a transaction begins, or misses.
LEMMA NoCallInd ==
  ASSUME DedupInd, NEW tx \in Txs, Begin(tx) \/ \E call \in Calls : CheckMiss(tx, call)
  PROVE  DedupInd'
<1>0. DedupTypes /\ IdleMadeNone /\ PendingMissed /\ TableGives /\ TableOwn
  BY DEF DedupInd
<1>1. /\ UNCHANGED <<table, made, given>>
      /\ \A u \in Txs \ {tx} : phase'[u] = phase[u] /\ pending'[u] = pending[u]
      /\ phase' \in [Txs -> {"idle", "running", "executing"}] /\ phase'[tx] # "idle"
      /\ pending' = [u \in Txs |-> pending'[u]]
  BY <1>0 DEF Begin, CheckMiss, DedupTypes
<1>2. phase'[tx] = "executing" => \E call \in Calls : MissedCall(tx, call)'
  BY <1>0 DEF Begin, CheckMiss, MissedCall, Key, DedupTypes
<1>3. DedupTypes' /\ IdleMadeNone' /\ TableGives' /\ TableOwn'
  <2>1. DedupTypes'
    <3>1. /\ made' \in [Txs -> Seq(Calls)] /\ given' = [u \in Txs |-> given'[u]]
          /\ \A u \in Txs : Listlike(given'[u]) /\ Len(given'[u]) = Len(made'[u])
      BY <1>0, <1>1 DEF DedupTypes
    <3> QED
      BY <1>1, <3>1 DEF DedupTypes, Listlike
  <2>2. IdleMadeNone'
    BY <1>0, <1>1 DEF IdleMadeNone
  <2>3. TableGives' /\ TableOwn'
    BY <1>0, <1>1, TableKept
  <2> QED
    BY <2>1, <2>2, <2>3
<1>4. PendingMissed'
  BY <1>0, <1>1, <1>2 DEF PendingMissed, MissedCall, Key
<1> QED
  BY <1>3, <1>4 DEF DedupInd

\* clear_transaction takes out exactly the keys of the transaction that completes.
LEMMA CompleteInd ==
  ASSUME DedupInd, NEW tx \in Txs, Complete(tx)
  PROVE  DedupInd'
<1>0. DedupTypes /\ IdleMadeNone /\ PendingMissed /\ TableGives /\ TableOwn
  BY DEF DedupInd
<1>1. /\ made'[tx] = <<>> /\ given'[tx] = <<>> /\ phase'[tx] = "idle" /\ pending' = pending
      /\ \A u \in Txs \ {tx} : /\ made'[u] = made[u] /\ given'[u] = given[u]
                               /\ phase'[u] = phase[u]
      /\ given' = [u \in Txs |-> given'[u]]
  BY <1>0 DEF Complete, DedupTypes
<1>2. /\ phase' \in [Txs -> {"idle", "running", "executing"}]
      /\ made' \in [Txs -> Seq(Calls)]
  BY <1>0 DEF Complete, DedupTypes
<1>3. DedupTypes'
  <2>1. \A u \in Txs : Listlike(given'[u]) /\ Len(given'[u]) = Len(made'[u])
    BY <1>0, <1>1, ListEmpty DEF DedupTypes
  <2> QED
    BY <1>0, <1>1, <1>2, <2>1 DEF DedupTypes, Listlike
<1>4. IdleMadeNone'
  BY <1>0, <1>1 DEF IdleMadeNone
<1>5. /\ DOMAIN table' = {k \in DOMAIN table : k[1] # tx}
      /\ \A k \in DOMAIN table' : table'[k] = table[k]
  BY DEF Complete, Retained
<1>6. \A u, call : Key(u, call)[1] = u
  BY DEF Key
<1>7. Eligible(tx)' = {} /\ \A u \in Txs \ {tx} : Eligible(u)' = Eligible(u)
  BY <1>1 DEF Eligible
<1>8. PendingMissed'
  <2>1. ASSUME NEW u \in Txs, phase'[u] = "executing" PROVE \E c \in Calls : MissedCall(u, c)'
    <3>1. PICK c \in Calls : MissedCall(u, c)
      BY <1>0, <1>1, <2>1 DEF PendingMissed
    <3> QED
      BY <1>1, <1>5, <3>1 DEF MissedCall, Key
  <2> QED
    BY <2>1 DEF PendingMissed
<1>9. TableGives'
  <2>1. ASSUME NEW u \in Txs, NEW i \in Eligible(u)'
        PROVE  /\ Key(u, made'[u][i]) \in DOMAIN table'
               /\ table'[Key(u, made'[u][i])] = given'[u][i]
    <3>1. u # tx /\ i \in Eligible(u)
      BY <1>7
    <3> QED
      BY <1>0, <1>1, <1>5, <1>6, <3>1 DEF TableGives
  <2> QED
    BY <2>1 DEF TableGives, Key
<1>10. TableOwn'
  <2>1. ASSUME NEW k \in DOMAIN table'
        PROVE  \E u \in Txs : \E i \in Eligible(u)' : k = Key(u, made'[u][i])
    <3>1. PICK u \in Txs : \E i \in Eligible(u) : k = Key(u, made[u][i])
      BY <1>0, <1>5 DEF TableOwn
    <3>2. u # tx
      BY <1>5, <1>6, <3>1
    <3> QED
      BY <1>1, <1>7, <3>1, <3>2
  <2> QED
    BY <2>1 DEF TableOwn, Key
<1> QED
  BY <1>3, <1>4, <1>8, <1>9, <1>10 DEF DedupInd

\* Every call that gets a result gets it as CallGiven says.
LEMMA CallsAreGiven ==
  ASSUME DedupInd, NEW tx \in Txs
  PROVE  /\ \A call \in Calls : Bypass(tx, call)
                                  => CallGiven(tx, call, ResultOf(actual[tx], call))
         /\ \A call \in Calls : CheckHit(tx, call)
                                  => CallGiven(tx, call, table[Key(tx, call)])
         /\ ServePrefetched(tx) \/ Fallthrough(tx)
              => \E call \in Calls :
                   /\ MissedCall(tx, call)
                   /\ ServePrefetched(tx) => CallGiven(tx, call, buffer[CallKey(call)])
                   /\ Fallthrough(tx) => CallGiven(tx, call, ResultOf(actual[tx], call))
<1>0. DedupTypes /\ PendingMissed
  BY DEF DedupInd
<1>1. phase[tx] = "running" => phase = [phase EXCEPT ![tx] = "running"]
  BY <1>0 DEF DedupTypes
<1>2. ASSUME NEW call \in Calls, Bypass(tx, call)
      PROVE  CallGiven(tx, call, ResultOf(actual[tx], call))
  BY <1>1, <1>2 DEF Bypass, MayCall, Perform, CallGiven, Resolved
<1>3. ASSUME NEW call \in Calls, CheckHit(tx, call)
      PROVE  CallGiven(tx, call, table[Key(tx, call)])
  BY <1>1, <1>3 DEF CheckHit, MayCall, CallGiven, Resolved
<1>4. ASSUME ServePrefetched(tx) \/ Fallthrough(tx)
      PROVE  \E call \in Calls :
               /\ MissedCall(tx, call)
               /\ ServePrefetched(tx) => CallGiven(tx, call, buffer[CallKey(call)])
               /\ Fallthrough(tx) => CallGiven(tx, call, ResultOf(actual[tx], call))
  <2>1. phase[tx] = "executing"
    BY <1>4 DEF ServePrefetched, Fallthrough
  <2>2. PICK call \in Calls : MissedCall(tx, call)
    BY <1>0, <2>1 DEF PendingMissed
  <2>3. Head(pending[tx]) = call
    BY <2>2 DEF MissedCall
  <2>4. ASSUME ServePrefetched(tx) PROVE CallGiven(tx, call, buffer[CallKey(call)])
    BY <2>1, <2>2, <2>3, <2>4 DEF ServePrefetched, CallGiven, Resolved, MissedCall
  <2>5. ASSUME Fallthrough(tx) PROVE CallGiven(tx, call, ResultOf(actual[tx], call))
    BY <2>1, <2>2, <2>3, <2>5 DEF Fallthrough, Record, Perform, CallGiven, Resolved, MissedCall
  <2> QED
    BY <2>2, <2>4, <2>5
<1> QED
  BY <1>2, <1>3, <1>4

\* Nothing that happens on the path breaks the invariant of the table.
LEMMA DedupStepInd == DedupInd /\ [PathNext]_pathVars => DedupInd'
<1> SUFFICES ASSUME DedupInd, [PathNext]_pathVars PROVE DedupInd'
  OBVIOUS
<1>1. CASE UNCHANGED vars
  <2>1. TableGives' /\ TableOwn'
    BY <1>1, TableKept DEF vars, DedupInd
  <2>2. DedupTypes' /\ IdleMadeNone'
    BY <1>1 DEF vars, DedupInd, DedupTypes, IdleMadeNone, Listlike
  <2>3. PendingMissed'
    BY <1>1 DEF vars, DedupInd, PendingMissed, MissedCall, Key
  <2> QED
    BY <2>1, <2>2, <2>3 DEF DedupInd
<1>2. ASSUME NEW tx \in Txs,
             \/ ServePrefetched(tx) \/ Fallthrough(tx)
             \/ \E call \in Calls : Bypass(tx, call) \/ CheckHit(tx, call)
      PROVE  DedupInd'
  BY <1>2, CallsAreGiven, GivenInd
<1>3. ASSUME NEW tx \in Txs, Begin(tx) \/ \E call \in Calls : CheckMiss(tx, call)
      PROVE  DedupInd'
  BY <1>3, NoCallInd
<1>4. ASSUME NEW tx \in Txs, PathComplete(tx) PROVE DedupInd'
  BY <1>4, CompleteInd DEF PathComplete
<1>5. CASE UNCHANGED pathVars
  BY <1>1, <1>5 DEF pathVars
<1>6. ASSUME NEW t \in Prefetchers, PrefetchStep(t) PROVE DedupInd'
  BY <1>1, <1>6 DEF PrefetchStep
<1> QED
  BY <1>2, <1>3, <1>4, <1>5, <1>6 DEF PathNext

\* The table's invariant holds on the path.
THEOREM DedupIndHolds == PathSpec => []DedupInd
<1>1. PathInit => DedupInd
  BY DedupInitInd DEF PathInit
<1> QED
  BY <1>1, DedupStepInd, PTL DEF PathSpec

\* The table holds exactly the eligible calls of the executions under way, also
\* with a prefetch buffer behind it.
THEOREM TableHoldsOwnCallsHolds == PathSpec => []TableHoldsOwnCalls
<1>1. ASSUME DedupInd PROVE TableHoldsOwnCalls
  <2> DEFINE Busy == {t \in Txs : phase[t] # "idle"}
             Own(tx) == {Key(tx, made[tx][i]) : i \in Eligible(tx)}
  <2>0. IdleMadeNone /\ TableGives /\ TableOwn
    BY <1>1 DEF DedupInd
  <2>1. \A tx \in Txs \ Busy : Eligible(tx) = {}
    BY <2>0 DEF IdleMadeNone, Eligible
  <2>2. DOMAIN table \subseteq UNION {Own(tx) : tx \in Busy}
    BY <2>0, <2>1 DEF TableOwn
  <2>3. UNION {Own(tx) : tx \in Busy} \subseteq DOMAIN table
    BY <2>0 DEF TableGives
  <2>4. DOMAIN table = UNION {Own(tx) : tx \in Busy}
    BY <2>2, <2>3
  <2> QED
    BY <2>4, Zenon DEF TableHoldsOwnCalls, Eligible, Key
<1> QED
  BY <1>1, DedupIndHolds, PTL

\* A transaction that reads something twice gets the same answer twice, however
\* often the buffer is filled and emptied in between.
THEOREM RepeatableReadsHolds == PathSpec => []RepeatableReads
<1>1. ASSUME DedupInd PROVE RepeatableReads
  <2> SUFFICES ASSUME NEW tx \in Txs, NEW i \in 1 .. Len(made[tx]), NEW j \in 1 .. Len(made[tx]),
                      validate_dedup(made[tx][i].id),
                      CallKey(made[tx][i]) = CallKey(made[tx][j])
               PROVE  given[tx][i] = given[tx][j]
    BY DEF RepeatableReads
  <2>1. made[tx][i].id = made[tx][j].id /\ Key(tx, made[tx][i]) = Key(tx, made[tx][j])
    BY DEF CallKey, Key
  <2>2. i \in Eligible(tx) /\ j \in Eligible(tx)
    BY <2>1 DEF Eligible
  <2> QED
    BY <1>1, <2>1, <2>2 DEF DedupInd, TableGives
<1> QED
  BY <1>1, DedupIndHolds, PTL

-------------------------------------------------------------------------------
(* Plain execution, the fold of Reference, call by call *)

Plain(slot, s) ==
  FoldLeft(LAMBDA acc, call : [state |-> StateAfter(acc.state, call),
                               results |-> Append(acc.results, ResultOf(acc.state, call))],
           [state |-> StartState(Programs, slot), results |-> <<>>],
           s)

\* FoldLeft takes the positions of a set from the largest one down; g has the
\* folds over smaller sets.
PlainStep(slot, s, g, u) ==
  IF u = {} THEN [state |-> StartState(Programs, slot), results |-> <<>>]
  ELSE [state |-> StateAfter(g[u \ {Max(u)}].state, s[Max(u)]),
        results |-> Append(g[u \ {Max(u)}].results, ResultOf(g[u \ {Max(u)}].state, s[Max(u)]))]

PlainFold(slot, s) == CHOOSE g : g = [u \in SUBSET DOMAIN s |-> PlainStep(slot, s, g, u)]

\* Plain is this fold, at the set of all positions.
LEMMA PlainIsFold == \A slot, s : Plain(slot, s) = PlainFold(slot, s)[DOMAIN s]
  BY Zenon DEF Plain, FoldLeft, MapThenFoldSet, PlainFold, PlainStep

\* A fold over some positions is determined by the one over all but the largest.
LEMMA PlainStepSame ==
  ASSUME NEW slot, NEW s, NEW u, NEW g, NEW h,
         u # {} => g[u \ {Max(u)}] = h[u \ {Max(u)}]
  PROVE  PlainStep(slot, s, g, u) = PlainStep(slot, s, h, u)
<1>1. CASE u = {}
  BY <1>1 DEF PlainStep
<1>2. CASE u # {}
  <2> DEFINE m == Max(u)
  <2>1. g[u \ {m}] = h[u \ {m}]
    BY <1>2
  <2> HIDE DEF m
  <2> QED
    BY <1>2, <2>1 DEF PlainStep, m
<1> QED
  BY <1>1, <1>2

\* The recursion that PlainFold chooses a solution of has one, by induction on the
\* number of positions.
LEMMA PlainSolved ==
  ASSUME NEW slot, NEW s
  PROVE  \A n \in Nat : \E g : g = [u \in SUBSET (1 .. n) |-> PlainStep(slot, s, g, u)]
<1> DEFINE Solves(g, n) == g = [u \in SUBSET (1 .. n) |-> PlainStep(slot, s, g, u)]
           P == {n \in Nat : \E g : Solves(g, n)}
<1>1. 0 \in P
  <2> DEFINE g == [u \in SUBSET (1 .. 0) |-> PlainStep(slot, s, <<>>, u)]
  <2>1. \A u \in SUBSET (1 .. 0) : u = {}
    OBVIOUS
  <2>2. \A u \in SUBSET (1 .. 0) : PlainStep(slot, s, <<>>, u) = PlainStep(slot, s, g, u)
    BY <2>1 DEF PlainStep
  <2>3. Solves(g, 0)
    BY <2>2
  <2> QED
    BY <2>3
<1>2. ASSUME NEW n \in Nat, n \in P PROVE n + 1 \in P
  <2>1. PICK g : Solves(g, n)
    BY <1>2
  <2>2. \A u \in SUBSET (1 .. n) : g[u] = PlainStep(slot, s, g, u)
    BY <2>1
  <2> DEFINE h == [u \in SUBSET (1 .. n + 1) |->
                     IF u \subseteq 1 .. n THEN g[u] ELSE PlainStep(slot, s, g, u)]
  <2>3. ASSUME NEW u \in SUBSET (1 .. n + 1) PROVE h[u] = PlainStep(slot, s, h, u)
    <3>1. h[u] = PlainStep(slot, s, g, u)
      BY <2>2
    <3>2. u # {} => h[u \ {Max(u)}] = g[u \ {Max(u)}]
      <4> SUFFICES ASSUME u # {} PROVE h[u \ {Max(u)}] = g[u \ {Max(u)}]
        OBVIOUS
      <4>0. n + 1 \in Nat /\ u \subseteq 1 .. n + 1
        OBVIOUS
      <4>1. Max(u) \in u /\ \A y \in u : Max(u) >= y
        BY <4>0, MaxMember
      <4>2. ASSUME NEW y \in u \ {Max(u)} PROVE y \in 1 .. n
        <5>1. y \in 1 .. n + 1 /\ Max(u) \in 1 .. n + 1 /\ Max(u) >= y /\ y # Max(u)
          BY <4>0, <4>1
        <5> QED
          BY <5>1
      <4>3. u \ {Max(u)} \subseteq 1 .. n /\ u \ {Max(u)} \in SUBSET (1 .. n + 1)
        BY <4>0, <4>2
      <4> QED
        BY <4>3
    <3> HIDE DEF h
    <3> QED
      BY <3>1, <3>2, PlainStepSame
  <2>4. Solves(h, n + 1)
    BY <2>3
  <2> HIDE DEF Solves, h
  <2> QED
    BY <2>4
<1> HIDE DEF P
<1>3. \A n \in Nat : n \in P
  BY <1>1, <1>2, SetInduction
<1> QED
  BY <1>3 DEF P

\* So PlainFold satisfies its recursion.
LEMMA PlainEquation ==
  ASSUME NEW slot, NEW s, NEW n \in Nat, DOMAIN s = 1 .. n
  PROVE  \A u \in SUBSET (1 .. n) :
           PlainFold(slot, s)[u] = PlainStep(slot, s, PlainFold(slot, s), u)
<1> DEFINE f == PlainFold(slot, s)
<1>1. \E g : g = [u \in SUBSET DOMAIN s |-> PlainStep(slot, s, g, u)]
  <2>1. \E g : g = [u \in SUBSET (1 .. n) |-> PlainStep(slot, s, g, u)]
    BY PlainSolved
  <2> QED
    BY <2>1
<1>2. f = [u \in SUBSET DOMAIN s |-> PlainStep(slot, s, f, u)]
  BY <1>1 DEF PlainFold
<1> HIDE DEF f
<1>3. \A u \in SUBSET (1 .. n) : f[u] = PlainStep(slot, s, f, u)
  BY <1>2
<1> QED
  BY <1>3 DEF f

\* Executing nothing.
LEMMA PlainEmpty ==
  \A slot : Plain(slot, <<>>) = [state |-> StartState(Programs, slot), results |-> <<>>]
<1> SUFFICES ASSUME NEW slot
             PROVE  Plain(slot, <<>>) = [state |-> StartState(Programs, slot), results |-> <<>>]
  OBVIOUS
<1>1. DOMAIN <<>> = 1 .. 0 /\ 1 .. 0 = {} /\ {} \in SUBSET (1 .. 0)
  OBVIOUS
<1>2. PlainFold(slot, <<>>)[{}] = PlainStep(slot, <<>>, PlainFold(slot, <<>>), {})
  BY <1>1, PlainEquation
<1> QED
  BY <1>1, <1>2, PlainIsFold DEF PlainStep

\* Executing one call more.
LEMMA PlainAppend ==
  ASSUME NEW slot, NEW s \in Seq(Calls), NEW call \in Calls
  PROVE  Plain(slot, Append(s, call)) =
           [state |-> StateAfter(Plain(slot, s).state, call),
            results |-> Append(Plain(slot, s).results, ResultOf(Plain(slot, s).state, call))]
<1> DEFINE n == Len(s)
           t == Append(s, call)
           f == PlainFold(slot, s)
           g == PlainFold(slot, t)
           P == {m \in Nat : m <= n => f[1 .. m] = g[1 .. m]}
<1>1. /\ n \in Nat /\ DOMAIN s = 1 .. n /\ DOMAIN t = 1 .. n + 1
      /\ t[n + 1] = call /\ \A i \in 1 .. n : t[i] = s[i]
  OBVIOUS
<1> HIDE DEF n, t
<1>2. /\ \A u \in SUBSET (1 .. n) : f[u] = PlainStep(slot, s, f, u)
      /\ \A u \in SUBSET (1 .. n + 1) : g[u] = PlainStep(slot, t, g, u)
  BY <1>1, PlainEquation
<1> HIDE DEF f, g
<1>3. 0 \in P
  <2>1. 1 .. 0 = {} /\ {} \in SUBSET (1 .. n) /\ {} \in SUBSET (1 .. n + 1)
    OBVIOUS
  <2> QED
    BY <1>2, <2>1 DEF PlainStep
<1>4. ASSUME NEW m \in Nat, m \in P PROVE m + 1 \in P
  <2> SUFFICES ASSUME m + 1 <= n PROVE f[1 .. m + 1] = g[1 .. m + 1]
    OBVIOUS
  <2>1. f[1 .. m] = g[1 .. m] /\ s[m + 1] = t[m + 1]
    BY <1>1, <1>4
  <2>0. m + 1 \in 1 .. m + 1
    OBVIOUS
  <2>2. 1 .. m + 1 \in SUBSET (1 .. n) /\ 1 .. m + 1 \in SUBSET (1 .. n + 1) /\ 1 .. m + 1 # {}
    <3>1. \A i \in 1 .. m + 1 : i \in 1 .. n /\ i \in 1 .. n + 1
      BY <1>1
    <3> QED
      BY <2>0, <3>1
  <2>3. f[1 .. m + 1] = [state |-> StateAfter(f[1 .. m].state, s[m + 1]),
                         results |-> Append(f[1 .. m].results, ResultOf(f[1 .. m].state, s[m + 1]))]
    BY <1>2, <2>2, MaxSegment DEF PlainStep
  <2>4. g[1 .. m + 1] = [state |-> StateAfter(g[1 .. m].state, t[m + 1]),
                         results |-> Append(g[1 .. m].results, ResultOf(g[1 .. m].state, t[m + 1]))]
    BY <1>2, <2>2, MaxSegment DEF PlainStep
  <2> QED
    BY <2>1, <2>3, <2>4
<1>5. f[1 .. n] = g[1 .. n]
  <2> HIDE DEF P
  <2>1. n \in P
    BY <1>1, <1>3, <1>4, SetInduction
  <2> QED
    BY <1>1, <2>1 DEF P
<1>6. g[1 .. n + 1] = [state |-> StateAfter(g[1 .. n].state, call),
                       results |-> Append(g[1 .. n].results, ResultOf(g[1 .. n].state, call))]
  <2>0. n + 1 \in 1 .. n + 1
    BY <1>1
  <2>1. 1 .. n + 1 \in SUBSET (1 .. n + 1) /\ 1 .. n + 1 # {}
    BY <2>0
  <2> QED
    BY <1>1, <1>2, <2>1, MaxSegment DEF PlainStep
<1>7. Plain(slot, s) = f[1 .. n] /\ Plain(slot, t) = g[1 .. n + 1]
  BY <1>1, PlainIsFold DEF f, g
<1> QED
  BY <1>5, <1>6, <1>7 DEF t

-------------------------------------------------------------------------------
(* What the syscalls do to a transaction that has not aborted *)

Setters == {SET_RETURN_DATA, INVOKE_SIGNED}

\* A transaction that has not aborted.
Alive(st) == st.dead = FALSE

Whole(st) ==
  st = [slot |-> st.slot, ret |-> st.ret, log |-> st.log, mem |-> st.mem, dead |-> st.dead]

\* What a call leaves of the fields that the path could disturb.
LEMMA Effects ==
  ASSUME NEW st, Whole(st), Alive(st), NEW call
  PROVE  /\ Whole(StateAfter(st, call))
         /\ StateAfter(st, call).slot = st.slot
         /\ call.id \in {PANIC, ABORT} => StateAfter(st, call).dead = TRUE
         /\ call.id \notin {PANIC, ABORT} => StateAfter(st, call).dead = FALSE
         /\ call.id \notin Setters => StateAfter(st, call).ret = st.ret
         /\ call.id = SET_RETURN_DATA => StateAfter(st, call).ret = <<"data", call.arg>>
         /\ call.id = INVOKE_SIGNED => StateAfter(st, call).ret = <<"cpi", call.arg>>
         /\ call.id # MEMSET => StateAfter(st, call).mem = st.mem
         /\ call.id = MEMSET => StateAfter(st, call).mem = [st.mem EXCEPT ![call.program] = call.arg]
<1> DEFINE Rec(r, l, m, d) == [slot |-> st.slot, ret |-> r, log |-> l, mem |-> m, dead |-> d]
<1>1. st = Rec(st.ret, st.log, st.mem, FALSE) /\ st.dead = FALSE
  BY DEF Whole, Alive
<1>2. ASSUME NEW r, NEW l, NEW m, NEW d, StateAfter(st, call) = Rec(r, l, m, d)
      PROVE  /\ Whole(StateAfter(st, call)) /\ StateAfter(st, call).slot = st.slot
             /\ StateAfter(st, call).dead = d /\ StateAfter(st, call).ret = r
             /\ StateAfter(st, call).mem = m
  BY <1>2 DEF Whole
<1>3. CASE call.id \in LogIds
  <2>0. /\ call.id # MEMSET /\ call.id \notin Setters /\ call.id \notin {PANIC, ABORT}
        /\ call.id # SET_RETURN_DATA /\ call.id # INVOKE_SIGNED
    BY <1>3 DEF LogIds, Setters, SET_RETURN_DATA, MEMSET, INVOKE_SIGNED, PANIC, ABORT
  <2>1. StateAfter(st, call) = [st EXCEPT !.log = Append(@, <<"line", call.arg>>)]
    BY <1>3, <1>1, <2>0 DEF StateAfter
  <2>2. StateAfter(st, call) = Rec(st.ret, Append(st.log, <<"line", call.arg>>), st.mem, FALSE)
    BY <1>1, <2>1
  <2>3. /\ Whole(StateAfter(st, call)) /\ StateAfter(st, call).slot = st.slot
        /\ StateAfter(st, call).dead = FALSE /\ StateAfter(st, call).ret = st.ret
        /\ StateAfter(st, call).mem = st.mem
    <3> HIDE DEF Rec
    <3> QED
      BY <1>2, <2>2
  <2> QED
    BY <1>3, <2>0, <2>3
<1>4. CASE call.id = SET_RETURN_DATA
  <2>0. /\ call.id # MEMSET /\ call.id \in Setters /\ call.id \notin {PANIC, ABORT}
        /\ call.id # INVOKE_SIGNED /\ call.id \notin LogIds
    BY <1>4 DEF LogIds, Setters, SET_RETURN_DATA, MEMSET, INVOKE_SIGNED, PANIC, ABORT
  <2>1. StateAfter(st, call) = [st EXCEPT !.ret = <<"data", call.arg>>]
    BY <1>4, <1>1, <2>0 DEF StateAfter
  <2>2. StateAfter(st, call) = Rec(<<"data", call.arg>>, st.log, st.mem, FALSE)
    BY <1>1, <2>1
  <2>3. /\ Whole(StateAfter(st, call)) /\ StateAfter(st, call).slot = st.slot
        /\ StateAfter(st, call).dead = FALSE /\ StateAfter(st, call).ret = <<"data", call.arg>>
        /\ StateAfter(st, call).mem = st.mem
    <3> HIDE DEF Rec
    <3> QED
      BY <1>2, <2>2
  <2> QED
    BY <1>4, <2>0, <2>3
<1>5. CASE call.id = MEMSET
  <2>0. /\ call.id \notin Setters /\ call.id \notin {PANIC, ABORT} /\ call.id # SET_RETURN_DATA
        /\ call.id # INVOKE_SIGNED /\ call.id \notin LogIds
    BY <1>5 DEF LogIds, Setters, SET_RETURN_DATA, MEMSET, INVOKE_SIGNED, PANIC, ABORT
  <2>1. StateAfter(st, call) = [st EXCEPT !.mem[call.program] = call.arg]
    BY <1>5, <1>1, <2>0 DEF StateAfter
  <2>2. StateAfter(st, call) = Rec(st.ret, st.log, [st.mem EXCEPT ![call.program] = call.arg], FALSE)
    BY <1>1, <2>1
  <2>3. /\ Whole(StateAfter(st, call)) /\ StateAfter(st, call).slot = st.slot
        /\ StateAfter(st, call).dead = FALSE /\ StateAfter(st, call).ret = st.ret
        /\ StateAfter(st, call).mem = [st.mem EXCEPT ![call.program] = call.arg]
    <3> HIDE DEF Rec
    <3> QED
      BY <1>2, <2>2
  <2> QED
    BY <1>5, <2>0, <2>3
<1>6. CASE call.id = INVOKE_SIGNED
  <2>0. /\ call.id # MEMSET /\ call.id \in Setters /\ call.id \notin {PANIC, ABORT}
        /\ call.id # SET_RETURN_DATA /\ call.id \notin LogIds
    BY <1>6 DEF LogIds, Setters, SET_RETURN_DATA, MEMSET, INVOKE_SIGNED, PANIC, ABORT
  <2>1. StateAfter(st, call) = [st EXCEPT !.log = Append(@, <<"cpi", call.arg>>),
                                          !.ret = <<"cpi", call.arg>>]
    BY <1>6, <1>1, <2>0 DEF StateAfter
  <2>2. StateAfter(st, call) =
          Rec(<<"cpi", call.arg>>, Append(st.log, <<"cpi", call.arg>>), st.mem, FALSE)
    BY <1>1, <2>1
  <2>3. /\ Whole(StateAfter(st, call)) /\ StateAfter(st, call).slot = st.slot
        /\ StateAfter(st, call).dead = FALSE /\ StateAfter(st, call).ret = <<"cpi", call.arg>>
        /\ StateAfter(st, call).mem = st.mem
    <3> HIDE DEF Rec
    <3> QED
      BY <1>2, <2>2
  <2> QED
    BY <1>6, <2>0, <2>3
<1>7. CASE call.id \in {PANIC, ABORT}
  <2>0. /\ call.id # MEMSET /\ call.id \notin Setters /\ call.id # INVOKE_SIGNED
        /\ call.id # SET_RETURN_DATA /\ call.id \notin LogIds
    BY <1>7 DEF LogIds, Setters, SET_RETURN_DATA, MEMSET, INVOKE_SIGNED, PANIC, ABORT
  <2>1. StateAfter(st, call) = [st EXCEPT !.dead = TRUE]
    BY <1>7, <1>1, <2>0 DEF StateAfter
  <2>2. StateAfter(st, call) = Rec(st.ret, st.log, st.mem, TRUE)
    BY <1>1, <2>1
  <2>3. /\ Whole(StateAfter(st, call)) /\ StateAfter(st, call).slot = st.slot
        /\ StateAfter(st, call).dead = TRUE /\ StateAfter(st, call).ret = st.ret
        /\ StateAfter(st, call).mem = st.mem
    <3> HIDE DEF Rec
    <3> QED
      BY <1>2, <2>2
  <2> QED
    BY <1>7, <2>0, <2>3
<1>8. CASE /\ call.id \notin LogIds /\ call.id # SET_RETURN_DATA /\ call.id # MEMSET
           /\ call.id # INVOKE_SIGNED /\ call.id \notin {PANIC, ABORT}
  <2>1. StateAfter(st, call) = st
    BY <1>1, <1>8 DEF StateAfter
  <2>2. StateAfter(st, call) = Rec(st.ret, st.log, st.mem, FALSE)
    BY <1>1, <2>1
  <2>3. /\ Whole(StateAfter(st, call)) /\ StateAfter(st, call).slot = st.slot
        /\ StateAfter(st, call).dead = FALSE /\ StateAfter(st, call).ret = st.ret
        /\ StateAfter(st, call).mem = st.mem
    <3> HIDE DEF Rec
    <3> QED
      BY <1>2, <2>2
  <2> QED
    BY <1>8, <2>3 DEF Setters
<1> QED
  BY <1>3, <1>4, <1>5, <1>6, <1>7, <1>8

\* The result of a call that reads neither return data nor memory.
FixedResult(slot, id, arg) ==
  CASE id \in SysvarIds -> <<"sysvar", id, slot>>
    [] id \in CryptoIds -> <<"digest", id, arg>>
    [] OTHER            -> NoResult

\* What the results of the calls depend on.
LEMMA Results ==
  ASSUME NEW st, Alive(st), NEW call
  PROVE  /\ call.id = GET_RETURN_DATA => ResultOf(st, call) = st.ret
         /\ call.id = MEMCMP => ResultOf(st, call) = <<"order", st.mem[call.program], call.arg>>
         /\ call.id \notin {GET_RETURN_DATA, MEMCMP}
              => ResultOf(st, call) = FixedResult(st.slot, call.id, call.arg)
<1>1. \A id : /\ id = GET_RETURN_DATA => id \notin SysvarIds /\ id \notin CryptoIds /\ id # MEMCMP
              /\ id = MEMCMP => id \notin SysvarIds /\ id \notin CryptoIds /\ id # GET_RETURN_DATA
              /\ id \in SysvarIds => id \notin CryptoIds
  BY DEF SysvarIds, CLOCK, RENT, EPOCH_SCHEDULE, FEES, SLOT_HASHES, STAKE_HISTORY, CryptoIds,
     GET_RETURN_DATA, MEMCMP
<1>2. call.id = GET_RETURN_DATA => ResultOf(st, call) = st.ret
  BY <1>1 DEF ResultOf, Alive
<1>3. call.id = MEMCMP => ResultOf(st, call) = <<"order", st.mem[call.program], call.arg>>
  BY <1>1 DEF ResultOf, Alive
<1>4. ASSUME call.id \notin {GET_RETURN_DATA, MEMCMP}
      PROVE  ResultOf(st, call) = FixedResult(st.slot, call.id, call.arg)
  <2>1. CASE call.id \in SysvarIds
    BY <1>1, <2>1 DEF ResultOf, FixedResult, Alive
  <2>2. CASE call.id \in CryptoIds
    BY <1>1, <2>2 DEF ResultOf, FixedResult, Alive
  <2>3. CASE call.id \notin SysvarIds /\ call.id \notin CryptoIds
    BY <1>4, <2>3 DEF ResultOf, FixedResult, Alive
  <2> QED
    BY <2>1, <2>2, <2>3
<1> QED
  BY <1>2, <1>3, <1>4

\* No call that sets the return data or aborts is ever shared.
LEMMA SharedCalls ==
  ASSUME NEW id, validate_dedup(id)
  PROVE  id \notin Setters /\ id \notin {PANIC, ABORT}
<1>1. classify(SET_RETURN_DATA) = "StateChanging" /\ classify(PANIC) = "StateChanging"
      /\ classify(ABORT) = "StateChanging" /\ classify(INVOKE_SIGNED) = "OrderSensitive"
  BY DEF classify, SysvarIds, CLOCK, RENT, EPOCH_SCHEDULE, FEES, SLOT_HASHES, STAKE_HISTORY, CryptoIds,
     LogIds, MemoryIds, GET_RETURN_DATA, SET_RETURN_DATA, INVOKE_SIGNED, PANIC, ABORT
<1> QED
  BY <1>1 DEF validate_dedup, Optimizable, Setters

-------------------------------------------------------------------------------
(* What the buffer holds *)

BufferKnown == \A k \in DOMAIN buffer : buffer[k] = simulate_fetch(k[1])

FetchedKnown ==
  /\ fetched = [t \in Prefetchers |-> fetched[t]]
  /\ \A t \in Prefetchers : tpc[t] = "insert" => fetched[t] = simulate_fetch(KeyOf(t)[1])

\* The invariant of what is fetched, beside the prefetcher's own.
FetchInd == PrefetchTypes /\ BufferKnown /\ FetchedKnown

\* Every fetch, in the hands of its thread or in the buffer, is what simulate_fetch
\* makes up for its key.
LEMMA FetchStepInd ==
  ASSUME FetchInd, PrefetchInd', [PathNext]_pathVars
  PROVE  FetchInd'
<1>0. PrefetchTypes /\ BufferKnown /\ FetchedKnown /\ PrefetchTypes'
  BY DEF FetchInd, PrefetchInd
<1>1. CASE UNCHANGED <<buffer, tpc, todo, fetched>>
  BY <1>0, <1>1 DEF FetchInd, BufferKnown, FetchedKnown, KeyOf
<1>2. ASSUME NEW tx \in Txs, ServePrefetched(tx) PROVE FetchInd'
  <2>1. /\ DOMAIN buffer' \subseteq DOMAIN buffer
        /\ \A k \in DOMAIN buffer' : buffer'[k] = buffer[k]
        /\ UNCHANGED <<tpc, todo, fetched>>
    BY <1>2 DEF ServePrefetched, ConsumeHit, AfterConsume
  <2> QED
    BY <1>0, <2>1 DEF FetchInd, BufferKnown, FetchedKnown, KeyOf
<1>3. ASSUME NEW t \in Prefetchers, NEW predictions, TriggerBegin(t, predictions) PROVE FetchInd'
  <2>1. /\ tpc'[t] = "check" /\ UNCHANGED <<buffer, fetched>>
        /\ \A u \in Prefetchers \ {t} : todo'[u] = todo[u] /\ tpc'[u] = tpc[u]
    BY <1>0, <1>3 DEF PrefetchTypes, TriggerBegin
  <2> QED
    BY <1>0, <2>1 DEF FetchInd, BufferKnown, FetchedKnown, KeyOf
<1>4. ASSUME NEW t \in Prefetchers, TriggerSkip(t) PROVE FetchInd'
  <2>1. /\ tpc'[t] # "insert" /\ UNCHANGED <<buffer, fetched>>
        /\ \A u \in Prefetchers \ {t} : todo'[u] = todo[u] /\ tpc'[u] = tpc[u]
    BY <1>0, <1>4 DEF TriggerSkip, AfterHead, PrefetchTypes
  <2> QED
    BY <1>0, <2>1 DEF FetchInd, BufferKnown, FetchedKnown, KeyOf
<1>5. ASSUME NEW t \in Prefetchers, TriggerFetch(t) PROVE FetchInd'
  <2>1. /\ fetched'[t] = simulate_fetch(KeyOf(t)[1]) /\ todo' = todo
        /\ \A u \in Prefetchers \ {t} : fetched'[u] = fetched[u] /\ tpc'[u] = tpc[u]
        /\ UNCHANGED buffer /\ fetched' = [u \in Prefetchers |-> fetched'[u]]
    BY <1>0, <1>5 DEF TriggerFetch, PrefetchTypes, FetchedKnown
  <2>2. \A u \in Prefetchers : KeyOf(u)' = KeyOf(u)
    BY <2>1 DEF KeyOf
  <2>3. FetchedKnown'
    BY <1>0, <2>1, <2>2 DEF FetchedKnown
  <2> QED
    BY <1>0, <2>1, <2>3 DEF FetchInd, BufferKnown
<1>6. ASSUME NEW t \in Prefetchers, TriggerInsert(t) PROVE FetchInd'
  <2>1. /\ tpc[t] = "insert" /\ tpc'[t] # "insert"
        /\ \A u \in Prefetchers \ {t} : todo'[u] = todo[u] /\ tpc'[u] = tpc[u]
        /\ \A u \in Prefetchers \ {t} : fetched'[u] = fetched[u]
        /\ fetched' = [u \in Prefetchers |-> fetched'[u]]
    BY <1>0, <1>6 DEF TriggerInsert, AfterHead, PrefetchTypes, FetchedKnown
  <2>2. FetchedKnown'
    BY <1>0, <2>1 DEF FetchedKnown, KeyOf
  <2>3. fetched[t] = simulate_fetch(KeyOf(t)[1])
    BY <1>0, <2>1 DEF FetchedKnown
  <2>4. /\ DOMAIN buffer' = DOMAIN buffer \cup {KeyOf(t)}
        /\ \A k \in DOMAIN buffer' : buffer'[k] = IF k = KeyOf(t) THEN fetched[t] ELSE buffer[k]
    BY <1>6 DEF TriggerInsert
  <2>5. BufferKnown'
    BY <1>0, <2>3, <2>4 DEF BufferKnown
  <2> QED
    BY <1>0, <2>2, <2>5 DEF FetchInd
<1>7. ASSUME NEW t \in Prefetchers, PrefetchStep(t) PROVE FetchInd'
  BY <1>3, <1>4, <1>5, <1>6, <1>7 DEF PrefetchStep
<1>8. ASSUME NEW tx \in Txs, PathComplete(tx) \/ Fallthrough(tx) PROVE FetchInd'
  BY <1>1, <1>8 DEF PathComplete, Fallthrough, ConsumeMiss, prefetchVars
<1>9. ASSUME UNCHANGED prefetchVars PROVE FetchInd'
  BY <1>1, <1>9 DEF prefetchVars
<1> QED
  BY <1>2, <1>7, <1>8, <1>9 DEF PathNext, pathVars

\* At first nothing is fetched.
LEMMA FetchInitInd == PathInit => FetchInd
<1> SUFFICES ASSUME PathInit PROVE FetchInd
  OBVIOUS
<1>1. PrefetchTypes
  BY PrefetchInitInd DEF PathInit, PrefetchInd
<1> QED
  BY <1>1 DEF PathInit, PrefetchInit, FetchInd, BufferKnown, FetchedKnown

-------------------------------------------------------------------------------
(* A transaction beside plain execution.  Of the transaction: the calls s it   *)
(* made, the results r it was given, the keys B that the buffer served and its *)
(* state A; of plain execution of s: the state P and the results R.            *)

SkippedIn(s, B, i) ==
  /\ validate_dedup(s[i].id)
  /\ CallKey(s[i]) \in B \/ \E j \in 1 .. i - 1 : CallKey(s[j]) = CallKey(s[i])

SetIn(s, key, n) ==
  \E j, k \in 1 .. n : j < k /\ CallKey(s[j]) = key /\ s[k].id \in Setters

MemoryIn(s, B, n) == \E k \in 1 .. n : SkippedIn(s, B, k) /\ s[k].id \in {MEMSET, MEMCMP}

\* The states agree but for the log, and for memory once a call on it was skipped.
StateRight(s, B, A, P) ==
  /\ Whole(A) /\ Whole(P)
  /\ A.slot = P.slot /\ A.ret = P.ret /\ A.dead = P.dead /\ (A.dead = TRUE \/ A.dead = FALSE)
  /\ A.mem = P.mem \/ MemoryIn(s, B, Len(s))

\* A result given, as DeviationsConfined has it.
RightAt(s, r, B, R, i) ==
  IF CallKey(s[i]) \in B THEN r[i] = simulate_fetch(s[i].id)
  ELSE \/ r[i] = R[i]
       \/ s[i].id = GET_RETURN_DATA /\ SetIn(s, CallKey(s[i]), i - 1)
       \/ s[i].id = MEMCMP /\ MemoryIn(s, B, i)

\* A result of plain execution that does not depend on what went before.
FixedAt(s, A, R, i) ==
  s[i].id \notin {GET_RETURN_DATA, MEMCMP} => R[i] = FixedResult(A.slot, s[i].id, s[i].arg)

\* A read of return data that were not set since it was made first.
StillAt(s, r, B, A, i) ==
  /\ s[i].id = GET_RETURN_DATA /\ CallKey(s[i]) \notin B /\ ~SetIn(s, CallKey(s[i]), Len(s))
  => r[i] = A.ret

\* What the buffer served are eligible calls that were made.
ServedMade(s, B) ==
  \A key \in B : \E i \in 1 .. Len(s) : CallKey(s[i]) = key /\ validate_dedup(s[i].id)

ResultsRight(s, r, B, A, R) ==
  \A i \in 1 .. Len(s) : RightAt(s, r, B, R, i) /\ FixedAt(s, A, R, i) /\ StillAt(s, r, B, A, i)

Beside(s, r, B, A, P, R) ==
  StateRight(s, B, A, P) /\ ResultsRight(s, r, B, A, R) /\ ServedMade(s, B)

\* t has one element more than s, x.
OneMore(s, t, x) ==
  /\ Len(s) \in Nat /\ Len(t) = Len(s) + 1 /\ t[Len(s) + 1] = x
  /\ \A i \in 1 .. Len(s) : t[i] = s[i]

\* The three ways in which a call gets its result.
Executed(s, B, A, call, result, B2, A2) ==
  /\ CallKey(call) \notin B /\ B2 = B
  /\ result = ResultOf(A, call) /\ A2 = StateAfter(A, call)

Repeated(s, r, B, A, call, result, B2, A2) ==
  /\ validate_dedup(call.id) /\ B2 = B /\ A2 = A
  /\ \E i \in 1 .. Len(s) : CallKey(s[i]) = CallKey(call) /\ result = r[i]

Served(s, B, A, call, result, B2, A2) ==
  /\ validate_dedup(call.id) /\ B2 = B \cup {CallKey(call)} /\ A2 = A
  /\ \A i \in 1 .. Len(s) : CallKey(s[i]) # CallKey(call)
  /\ result = simulate_fetch(call.id)

\* What was skipped or set stays so when a call is added.
LEMMA PastStays ==
  ASSUME NEW s, NEW t, NEW x, OneMore(s, t, x), NEW B, NEW B2, B \subseteq B2
  PROVE  /\ \A i \in 1 .. Len(s) : SkippedIn(s, B, i) => SkippedIn(t, B2, i)
         /\ \A i \in 1 .. Len(s) : MemoryIn(s, B, i) => MemoryIn(t, B2, i)
         /\ MemoryIn(s, B, Len(s)) => MemoryIn(t, B2, Len(t))
         /\ \A key : \A i \in 1 .. Len(s) : SetIn(s, key, i - 1) => SetIn(t, key, i - 1)
         /\ \A key : SetIn(s, key, Len(s)) <=> SetIn(t, key, Len(s))
         /\ \A key : SetIn(t, key, Len(s)) => SetIn(t, key, Len(t))
<1> DEFINE n == Len(s)
<1>0. /\ n \in Nat /\ Len(t) = n + 1 /\ \A i \in 1 .. n : t[i] = s[i]
  BY DEF OneMore
<1> HIDE DEF n
<1>1. ASSUME NEW i \in 1 .. n, SkippedIn(s, B, i) PROVE SkippedIn(t, B2, i)
  <2>1. \A j \in 1 .. i - 1 : j \in 1 .. n /\ t[j] = s[j]
    BY <1>0
  <2> QED
    BY <1>0, <1>1, <2>1 DEF SkippedIn
<1>2. ASSUME NEW i \in 1 .. n, MemoryIn(s, B, i) PROVE MemoryIn(t, B2, i)
  <2>1. PICK k \in 1 .. i : SkippedIn(s, B, k) /\ s[k].id \in {MEMSET, MEMCMP}
    BY <1>2 DEF MemoryIn
  <2>2. k \in 1 .. n /\ t[k] = s[k]
    BY <1>0
  <2> QED
    BY <1>1, <2>1, <2>2 DEF MemoryIn
<1>3. ASSUME MemoryIn(s, B, n) PROVE MemoryIn(t, B2, n + 1)
  <2>1. PICK k \in 1 .. n : SkippedIn(s, B, k) /\ s[k].id \in {MEMSET, MEMCMP}
    BY <1>3 DEF MemoryIn
  <2>2. k \in 1 .. n + 1 /\ t[k] = s[k]
    BY <1>0
  <2> QED
    BY <1>1, <2>1, <2>2 DEF MemoryIn
<1>4. ASSUME NEW key, NEW m \in Nat, m <= n PROVE SetIn(s, key, m) <=> SetIn(t, key, m)
  <2>1. \A j \in 1 .. m : t[j] = s[j]
    BY <1>0, <1>4
  <2> QED
    BY <2>1 DEF SetIn
<1>5. \A i \in 1 .. n : i - 1 \in Nat /\ i - 1 <= n
  BY <1>0
<1>6. ASSUME NEW key, SetIn(t, key, n) PROVE SetIn(t, key, n + 1)
  <2>1. PICK j \in 1 .. n, k \in 1 .. n : j < k /\ CallKey(t[j]) = key /\ t[k].id \in Setters
    BY <1>6 DEF SetIn
  <2>2. j \in 1 .. n + 1 /\ k \in 1 .. n + 1
    BY <1>0
  <2> QED
    BY <2>1, <2>2 DEF SetIn
<1>7. \A key : \A i \in 1 .. n : SetIn(s, key, i - 1) => SetIn(t, key, i - 1)
  BY <1>4, <1>5
<1>8. \A key : SetIn(s, key, n) <=> SetIn(t, key, n)
  BY <1>0, <1>4
<1> QED
  BY <1>0, <1>1, <1>2, <1>3, <1>6, <1>7, <1>8 DEF n

\* A call that was answered without being executed counts as skipped.
LEMMA NowSkipped ==
  ASSUME NEW s, NEW t, NEW r, NEW B, NEW A, NEW call, NEW result, NEW B2, NEW A2,
         OneMore(s, t, call),
         \/ Repeated(s, r, B, A, call, result, B2, A2)
         \/ Served(s, B, A, call, result, B2, A2)
  PROVE  SkippedIn(t, B2, Len(s) + 1)
<1>1. Len(s) \in Nat /\ t[Len(s) + 1] = call /\ \A i \in 1 .. Len(s) : t[i] = s[i]
  BY DEF OneMore
<1>2. validate_dedup(call.id)
  BY DEF Repeated, Served
<1>3. CallKey(call) \in B2 \/ \E j \in 1 .. Len(s) : CallKey(t[j]) = CallKey(call)
  BY <1>1 DEF Repeated, Served
<1>4. 1 .. (Len(s) + 1) - 1 = 1 .. Len(s)
  BY <1>1
<1> QED
  BY <1>1, <1>2, <1>3, <1>4 DEF SkippedIn

Got(s, r, B, A, call, result, B2, A2) ==
  \/ Executed(s, B, A, call, result, B2, A2)
  \/ Repeated(s, r, B, A, call, result, B2, A2)
  \/ Served(s, B, A, call, result, B2, A2)

\* The state after one more call.
LEMMA StateOneMore ==
  ASSUME NEW s, NEW t, NEW r, NEW B, NEW A, NEW P, NEW call, NEW result, NEW B2, NEW A2,
         OneMore(s, t, call), StateRight(s, B, A, P), Alive(A),
         Got(s, r, B, A, call, result, B2, A2)
  PROVE  /\ StateRight(t, B2, A2, StateAfter(P, call)) /\ A2.slot = A.slot
         /\ call.id \notin Setters => A2.ret = A.ret
<1> DEFINE P2 == StateAfter(P, call)
<1>0. /\ Whole(A) /\ Whole(P) /\ A.slot = P.slot /\ A.ret = P.ret /\ Alive(P)
      /\ A.mem = P.mem \/ MemoryIn(s, B, Len(s))
  BY DEF StateRight, Alive
<1>1. B \subseteq B2
  BY DEF Got, Executed, Repeated, Served
<1>2. MemoryIn(s, B, Len(s)) => MemoryIn(t, B2, Len(t))
  BY <1>1, PastStays
<1>3. /\ Whole(P2) /\ P2.slot = P.slot
      /\ (call.id \in {PANIC, ABORT} => P2.dead = TRUE)
      /\ (call.id \notin {PANIC, ABORT} => P2.dead = FALSE)
      /\ call.id \notin Setters => P2.ret = P.ret
      /\ call.id = SET_RETURN_DATA => P2.ret = <<"data", call.arg>>
      /\ call.id = INVOKE_SIGNED => P2.ret = <<"cpi", call.arg>>
      /\ call.id # MEMSET => P2.mem = P.mem
      /\ call.id = MEMSET => P2.mem = [P.mem EXCEPT ![call.program] = call.arg]
  BY <1>0, Effects
<1> HIDE DEF P2
<1>4. CASE Executed(s, B, A, call, result, B2, A2)
  <2>1. A2 = StateAfter(A, call)
    BY <1>4 DEF Executed
  <2>2. /\ Whole(A2) /\ A2.slot = A.slot
        /\ (call.id \in {PANIC, ABORT} => A2.dead = TRUE)
        /\ (call.id \notin {PANIC, ABORT} => A2.dead = FALSE)
        /\ call.id \notin Setters => A2.ret = A.ret
        /\ call.id = SET_RETURN_DATA => A2.ret = <<"data", call.arg>>
        /\ call.id = INVOKE_SIGNED => A2.ret = <<"cpi", call.arg>>
        /\ call.id # MEMSET => A2.mem = A.mem
        /\ call.id = MEMSET => A2.mem = [A.mem EXCEPT ![call.program] = call.arg]
    BY <1>0, <2>1, Effects
  <2>3. A2.ret = P2.ret
    BY <1>0, <1>3, <2>2 DEF Setters
  <2>4. A2.mem = P2.mem \/ MemoryIn(t, B2, Len(t))
    BY <1>0, <1>2, <1>3, <2>2
  <2>5. A2.dead = P2.dead /\ (A2.dead = TRUE \/ A2.dead = FALSE)
    BY <1>3, <2>2
  <2> QED
    BY <1>0, <1>3, <2>2, <2>3, <2>4, <2>5 DEF StateRight, P2
<1>5. CASE Repeated(s, r, B, A, call, result, B2, A2) \/ Served(s, B, A, call, result, B2, A2)
  <2>1. A2 = A /\ validate_dedup(call.id)
    BY <1>5 DEF Repeated, Served
  <2>2. call.id \notin Setters /\ call.id \notin {PANIC, ABORT}
    BY <2>1, SharedCalls
  <2>3. SkippedIn(t, B2, Len(s) + 1)
    BY <1>5, NowSkipped
  <2>4. call.id = MEMSET => MemoryIn(t, B2, Len(t))
    <3>1. Len(t) = Len(s) + 1 /\ Len(s) + 1 \in 1 .. Len(t) /\ t[Len(s) + 1] = call
      BY DEF OneMore
    <3> QED
      BY <2>3, <3>1 DEF MemoryIn
  <2>5. A2.mem = P2.mem \/ MemoryIn(t, B2, Len(t))
    BY <1>0, <1>2, <1>3, <2>1, <2>4
  <2>6. A2.dead = P2.dead /\ (A2.dead = TRUE \/ A2.dead = FALSE)
    BY <1>3, <2>1, <2>2 DEF Alive
  <2> QED
    BY <1>0, <1>3, <2>1, <2>2, <2>5, <2>6 DEF StateRight, P2
<1> QED
  BY <1>4, <1>5 DEF Got

\* What was right of the earlier calls stays right.
LEMMA EarlierOneMore ==
  ASSUME NEW s, NEW t, NEW r, NEW r2, NEW B, NEW A, NEW P, NEW R, NEW R2, NEW call, NEW result,
         NEW B2, NEW A2, NEW x,
         OneMore(s, t, call), OneMore(r, r2, result), OneMore(R, R2, x),
         Len(r) = Len(s), Len(R) = Len(s),
         ResultsRight(s, r, B, A, R), StateRight(s, B, A, P), Alive(A),
         Got(s, r, B, A, call, result, B2, A2),
         NEW i \in 1 .. Len(s)
  PROVE  RightAt(t, r2, B2, R2, i) /\ FixedAt(t, A2, R2, i) /\ StillAt(t, r2, B2, A2, i)
<1> DEFINE n == Len(s)
<1>0. RightAt(s, r, B, R, i) /\ FixedAt(s, A, R, i) /\ StillAt(s, r, B, A, i)
  BY DEF ResultsRight
<1>1. /\ n \in Nat /\ Len(t) = n + 1 /\ t[n + 1] = call /\ t[i] = s[i] /\ r2[i] = r[i] /\ R2[i] = R[i]
  BY DEF OneMore
<1>2. A2.slot = A.slot /\ (call.id \notin Setters => A2.ret = A.ret)
  <2>1. /\ StateRight(t, B2, A2, StateAfter(P, call)) /\ A2.slot = A.slot
        /\ call.id \notin Setters => A2.ret = A.ret
    BY StateOneMore
  <2> QED
    BY <2>1
<1>3. CallKey(s[i]) \in B2 <=> CallKey(s[i]) \in B
  BY DEF Got, Executed, Repeated, Served
<1>4. B \subseteq B2
  BY DEF Got, Executed, Repeated, Served
<1>5. MemoryIn(s, B, i) => MemoryIn(t, B2, i)
  BY <1>4, PastStays
<1>6. SetIn(s, CallKey(s[i]), i - 1) => SetIn(t, CallKey(s[i]), i - 1)
  BY <1>4, PastStays
<1>7. SetIn(s, CallKey(s[i]), n) => SetIn(t, CallKey(s[i]), n + 1)
  BY <1>1, <1>4, PastStays
<1>8. call.id \in Setters => SetIn(t, CallKey(s[i]), n + 1)
  <2>1. i \in 1 .. n + 1 /\ n + 1 \in 1 .. n + 1 /\ i < n + 1
    BY <1>1
  <2> QED
    BY <1>1, <2>1 DEF SetIn
<1> HIDE DEF n
<1>9. RightAt(t, r2, B2, R2, i)
  BY <1>0, <1>1, <1>3, <1>5, <1>6 DEF RightAt
<1>10. FixedAt(t, A2, R2, i)
  BY <1>0, <1>1, <1>2 DEF FixedAt
<1>11. StillAt(t, r2, B2, A2, i)
  <2> SUFFICES ASSUME t[i].id = GET_RETURN_DATA, CallKey(t[i]) \notin B2,
                      ~SetIn(t, CallKey(t[i]), n + 1)
               PROVE  r2[i] = A2.ret
    BY <1>1 DEF StillAt
  <2>1. s[i].id = GET_RETURN_DATA /\ CallKey(s[i]) \notin B /\ ~SetIn(s, CallKey(s[i]), n)
    BY <1>1, <1>3, <1>7
  <2>2. r[i] = A.ret
    BY <1>0, <2>1 DEF StillAt, n
  <2>3. A2.ret = A.ret
    BY <1>1, <1>2, <1>8
  <2> QED
    BY <1>1, <2>2, <2>3
<1> QED
  BY <1>9, <1>10, <1>11

\* The call that is added is right.
LEMMA LastOneMore ==
  ASSUME NEW s, NEW t, NEW r, NEW r2, NEW B, NEW A, NEW P, NEW R, NEW R2, NEW call, NEW result,
         NEW B2, NEW A2,
         OneMore(s, t, call), OneMore(r, r2, result), OneMore(R, R2, ResultOf(P, call)),
         Len(r) = Len(s), Len(R) = Len(s),
         ResultsRight(s, r, B, A, R), StateRight(s, B, A, P), Alive(A),
         Got(s, r, B, A, call, result, B2, A2)
  PROVE  LET i == Len(s) + 1
         IN  RightAt(t, r2, B2, R2, i) /\ FixedAt(t, A2, R2, i) /\ StillAt(t, r2, B2, A2, i)
<1> DEFINE n == Len(s)
           i == n + 1
           key == CallKey(call)
<1>1. /\ n \in Nat /\ Len(t) = i /\ t[i] = call /\ r2[i] = result /\ R2[i] = ResultOf(P, call)
      /\ i \in 1 .. i /\ i - 1 = n
  BY DEF OneMore
<1>2. A2.slot = A.slot /\ (call.id \notin Setters => A2.ret = A.ret)
  <2>1. /\ StateRight(t, B2, A2, StateAfter(P, call)) /\ A2.slot = A.slot
        /\ call.id \notin Setters => A2.ret = A.ret
    BY StateOneMore
  <2> QED
    BY <2>1
<1>3. Alive(P) /\ P.slot = A.slot /\ P.ret = A.ret /\ (A.mem = P.mem \/ MemoryIn(s, B, n))
  BY DEF StateRight, Alive
<1>4. /\ call.id = GET_RETURN_DATA => ResultOf(P, call) = P.ret
      /\ call.id = MEMCMP => ResultOf(P, call) = <<"order", P.mem[call.program], call.arg>>
      /\ call.id \notin {GET_RETURN_DATA, MEMCMP}
           => ResultOf(P, call) = FixedResult(A.slot, call.id, call.arg)
  BY <1>3, Results
<1>5. B \subseteq B2
  BY DEF Got, Executed, Repeated, Served
<1>6. MemoryIn(s, B, n) => MemoryIn(t, B2, i)
  BY <1>1, <1>5, PastStays
<1>7. (SetIn(s, key, n) <=> SetIn(t, key, n)) /\ (SetIn(t, key, n) => SetIn(t, key, i))
  <2>1. /\ \A k : SetIn(s, k, Len(s)) <=> SetIn(t, k, Len(s))
        /\ \A k : SetIn(t, k, Len(s)) => SetIn(t, k, Len(t))
    BY <1>5, PastStays
  <2>2. Len(t) = i
    BY <1>1
  <2> HIDE DEF i, key
  <2> QED
    BY <2>1, <2>2
<1>8. call.id = GET_RETURN_DATA => call.id \notin Setters /\ call.id # MEMCMP
  BY DEF Setters, GET_RETURN_DATA, SET_RETURN_DATA, INVOKE_SIGNED, MEMCMP
<1>9. FixedAt(t, A2, R2, i)
  BY <1>1, <1>2, <1>4 DEF FixedAt
<1> USE DEF RightAt, StillAt
<1>10. CASE Executed(s, B, A, call, result, B2, A2)
  <2>1. key \notin B2 /\ result = ResultOf(A, call)
    BY <1>10 DEF Executed
  <2>2. /\ call.id = GET_RETURN_DATA => result = A.ret
        /\ call.id = MEMCMP => result = <<"order", A.mem[call.program], call.arg>>
        /\ call.id \notin {GET_RETURN_DATA, MEMCMP}
             => result = FixedResult(A.slot, call.id, call.arg)
    BY <2>1, Results
  <2>3. result = ResultOf(P, call) \/ (call.id = MEMCMP /\ MemoryIn(t, B2, i))
    BY <1>3, <1>4, <1>6, <2>2
  <2> HIDE DEF n, i, key
  <2>4. RightAt(t, r2, B2, R2, i)
    BY <1>1, <2>1, <2>3 DEF key
  <2>5. StillAt(t, r2, B2, A2, i)
    BY <1>1, <1>2, <1>8, <2>2
  <2> QED
    BY <1>9, <2>4, <2>5 DEF i, n
<1>11. CASE Repeated(s, r, B, A, call, result, B2, A2)
  <2>1. PICK j \in 1 .. n : CallKey(s[j]) = key /\ result = r[j]
    BY <1>11 DEF Repeated
  <2>2. B2 = B /\ A2 = A
    BY <1>11 DEF Repeated
  <2>3. RightAt(s, r, B, R, j) /\ FixedAt(s, A, R, j) /\ StillAt(s, r, B, A, j)
    BY DEF ResultsRight
  <2>4. s[j].id = call.id /\ s[j].arg = call.arg
    BY <2>1 DEF CallKey
  <2>5. SkippedIn(t, B2, i)
    BY <1>11, NowSkipped
  <2>6. call.id = MEMCMP => MemoryIn(t, B2, i)
    BY <1>1, <2>5 DEF MemoryIn
  <2> HIDE DEF i, key
  <2>7. key \notin B /\ call.id = GET_RETURN_DATA /\ ~SetIn(s, key, n) => result = A.ret
    BY <2>1, <2>3, <2>4
  <2>8. key \notin B /\ call.id \notin {GET_RETURN_DATA, MEMCMP}
          => result = FixedResult(A.slot, call.id, call.arg)
    BY <2>1, <2>3, <2>4 DEF FixedAt
  <2>9. key \in B => result = simulate_fetch(call.id)
    BY <2>1, <2>3, <2>4
  <2> HIDE DEF n
  <2>10. RightAt(t, r2, B2, R2, i)
    <3>1. CASE key \in B
      BY <1>1, <2>2, <2>9, <3>1 DEF key
    <3>2. CASE key \notin B /\ call.id = MEMCMP
      BY <1>1, <2>2, <2>6, <3>2 DEF key
    <3>3. CASE key \notin B /\ call.id = GET_RETURN_DATA
      <4>1. result = ResultOf(P, call) \/ SetIn(t, key, n)
        BY <1>3, <1>4, <1>7, <2>7, <3>3
      <4> QED
        BY <1>1, <2>2, <3>3, <4>1 DEF key
    <3>4. CASE key \notin B /\ call.id \notin {GET_RETURN_DATA, MEMCMP}
      <4>1. result = ResultOf(P, call)
        BY <1>4, <2>8, <3>4
      <4> QED
        BY <1>1, <2>2, <3>4, <4>1 DEF key
    <3> QED
      BY <3>1, <3>2, <3>3, <3>4
  <2>11. StillAt(t, r2, B2, A2, i)
    <3> SUFFICES ASSUME call.id = GET_RETURN_DATA, key \notin B, ~SetIn(t, key, i)
                 PROVE  result = A.ret
      BY <1>1, <2>2 DEF key
    <3> QED
      BY <1>7, <2>7
  <2> QED
    BY <1>9, <2>10, <2>11 DEF i, n
<1>12. CASE Served(s, B, A, call, result, B2, A2)
  <2>1. key \in B2 /\ result = simulate_fetch(call.id)
    BY <1>12 DEF Served
  <2> HIDE DEF n, i, key
  <2>2. RightAt(t, r2, B2, R2, i) /\ StillAt(t, r2, B2, A2, i)
    BY <1>1, <2>1 DEF key
  <2> QED
    BY <1>9, <2>2 DEF i, n
<1> QED
  BY <1>10, <1>11, <1>12 DEF Got

\* A transaction that makes one call more stays beside plain execution.
LEMMA BesideOneMore ==
  ASSUME NEW s, NEW t, NEW r, NEW r2, NEW B, NEW A, NEW P, NEW R, NEW R2, NEW call, NEW result,
         NEW B2, NEW A2,
         OneMore(s, t, call), OneMore(r, r2, result), OneMore(R, R2, ResultOf(P, call)),
         Len(r) = Len(s), Len(R) = Len(s),
         Beside(s, r, B, A, P, R), Alive(A),
         Got(s, r, B, A, call, result, B2, A2)
  PROVE  Beside(t, r2, B2, A2, StateAfter(P, call), R2) /\ A2.slot = A.slot
<1>0. StateRight(s, B, A, P) /\ ResultsRight(s, r, B, A, R) /\ ServedMade(s, B)
  BY DEF Beside
<1>1. StateRight(t, B2, A2, StateAfter(P, call)) /\ A2.slot = A.slot
  BY <1>0, StateOneMore
<1>2. /\ Len(s) \in Nat /\ Len(t) = Len(s) + 1 /\ t[Len(s) + 1] = call
      /\ \A i \in 1 .. Len(s) : t[i] = s[i]
  BY DEF OneMore
<1>3. ResultsRight(t, r2, B2, A2, R2)
  <2>1. \A i \in 1 .. Len(s) :
          RightAt(t, r2, B2, R2, i) /\ FixedAt(t, A2, R2, i) /\ StillAt(t, r2, B2, A2, i)
    BY <1>0, EarlierOneMore
  <2>2. /\ RightAt(t, r2, B2, R2, Len(s) + 1) /\ FixedAt(t, A2, R2, Len(s) + 1)
        /\ StillAt(t, r2, B2, A2, Len(s) + 1)
    BY <1>0, LastOneMore
  <2>3. \A i \in 1 .. Len(t) : i \in 1 .. Len(s) \/ i = Len(s) + 1
    BY <1>2
  <2> QED
    BY <2>1, <2>2, <2>3 DEF ResultsRight
<1>4. ServedMade(t, B2)
  <2> SUFFICES ASSUME NEW key \in B2
               PROVE  \E i \in 1 .. Len(t) : CallKey(t[i]) = key /\ validate_dedup(t[i].id)
    BY DEF ServedMade
  <2>1. key \in B \/ (key = CallKey(call) /\ validate_dedup(call.id))
    BY DEF Got, Executed, Repeated, Served
  <2>2. Len(s) + 1 \in 1 .. Len(t) /\ \A i \in 1 .. Len(s) : i \in 1 .. Len(t)
    BY <1>2
  <2> QED
    BY <1>0, <1>2, <2>1, <2>2 DEF ServedMade
<1> QED
  BY <1>1, <1>3, <1>4 DEF Beside

\* A transaction that has made no call is beside plain execution.
LEMMA BesideStart ==
  ASSUME NEW A, Whole(A), Alive(A), NEW r, NEW R
  PROVE  Beside(<<>>, r, {}, A, A, R)
<1>1. StateRight(<<>>, {}, A, A)
  BY DEF StateRight, Alive
<1>2. Len(<<>>) = 0 /\ 1 .. 0 = {}
  OBVIOUS
<1> QED
  BY <1>1, <1>2 DEF Beside, ResultsRight, ServedMade

-------------------------------------------------------------------------------
(* The transactions on the path *)

TxTypes ==
  /\ actual = [tx \in Txs |-> actual[tx]]
  /\ fromBuffer = [tx \in Txs |-> fromBuffer[tx]]

PlainOf(tx) == Plain(actual[tx].slot, made[tx])

TxBeside(tx) ==
  /\ Beside(made[tx], given[tx], fromBuffer[tx], actual[tx], PlainOf(tx).state, PlainOf(tx).results)
  /\ Listlike(PlainOf(tx).results) /\ Len(PlainOf(tx).results) = Len(made[tx])

\* The buffer has served nothing to a transaction that is not running, and one
\* that waits for a result has not aborted.
TxAlive(tx) ==
  /\ phase[tx] = "idle" => fromBuffer[tx] = {}
  /\ phase[tx] = "executing" => Alive(actual[tx])

\* The inductive invariant of the path, together with DedupInd and FetchInd.
PathInd == TxTypes /\ \A tx \in Txs : TxBeside(tx) /\ TxAlive(tx)

\* What one call more adds to plain execution.
LEMMA PlainOneMore ==
  ASSUME NEW slot, NEW s \in Seq(Calls), NEW call \in Calls,
         Listlike(Plain(slot, s).results), Len(Plain(slot, s).results) = Len(s)
  PROVE  LET more == Plain(slot, Append(s, call))
         IN  /\ more.state = StateAfter(Plain(slot, s).state, call)
             /\ Listlike(more.results) /\ Len(more.results) = Len(s) + 1
             /\ \A i \in 1 .. Len(s) : more.results[i] = Plain(slot, s).results[i]
             /\ more.results[Len(s) + 1] = ResultOf(Plain(slot, s).state, call)
<1> DEFINE more == Plain(slot, Append(s, call))
           F == Plain(slot, s)
<1>1. more = [state |-> StateAfter(F.state, call),
              results |-> Append(F.results, ResultOf(F.state, call))]
  BY PlainAppend
<1> HIDE DEF more, F
<1>2. more.state = StateAfter(F.state, call) /\ more.results = Append(F.results, ResultOf(F.state, call))
  BY <1>1
<1>3. Listlike(F.results) /\ Len(F.results) = Len(s)
  BY DEF F
<1>4. /\ Listlike(more.results) /\ Len(more.results) = Len(s) + 1
      /\ \A i \in 1 .. Len(s) : more.results[i] = F.results[i]
      /\ more.results[Len(s) + 1] = ResultOf(F.state, call)
  BY <1>2, <1>3, ListAppend
<1> QED
  BY <1>2, <1>4 DEF more, F

\* A transaction that nothing happens to.
LEMMA OthersBeside ==
  ASSUME NEW u, TxBeside(u), made'[u] = made[u], given'[u] = given[u],
         actual'[u] = actual[u], fromBuffer'[u] = fromBuffer[u]
  PROVE  TxBeside(u)'
<1> DEFINE F == Plain(actual[u].slot, made[u])
<1>1. Plain(actual'[u].slot, made'[u]) = F
  OBVIOUS
<1>2. /\ Beside(made[u], given[u], fromBuffer[u], actual[u], F.state, F.results)
      /\ Listlike(F.results) /\ Len(F.results) = Len(made[u])
  BY DEF TxBeside, PlainOf
<1> HIDE DEF F
<1>3. /\ Beside(made'[u], given'[u], fromBuffer'[u], actual'[u], F.state, F.results)
      /\ Len(F.results) = Len(made'[u])
  BY <1>2
<1> QED
  BY <1>1, <1>2, <1>3 DEF TxBeside, PlainOf

\* A call of tx gets its result, and nothing happens to the other transactions.
TxGot(tx, call, result) ==
  /\ Got(made[tx], given[tx], fromBuffer[tx], actual[tx], call, result, fromBuffer'[tx], actual'[tx])
  /\ \A u \in Txs \ {tx} : actual'[u] = actual[u] /\ fromBuffer'[u] = fromBuffer[u]
  /\ TxTypes'

\* Such a call keeps its transaction beside plain execution.
LEMMA GivenBeside ==
  ASSUME DedupInd, PathInd, NEW tx \in Txs, NEW call, NEW result,
         CallGiven(tx, call, result), Alive(actual[tx]), TxGot(tx, call, result)
  PROVE  PathInd'
<1> DEFINE s == made[tx]
           t == made'[tx]
           A == actual[tx]
           A2 == actual'[tx]
           B == fromBuffer[tx]
           B2 == fromBuffer'[tx]
           P == PlainOf(tx).state
           R == PlainOf(tx).results
           Q == Plain(A.slot, t)
<1>0. TxTypes' /\ TxBeside(tx) /\ \A u \in Txs : TxBeside(u) /\ TxAlive(u)
  BY DEF PathInd, TxGot
<1>1. /\ Len(s) \in Nat /\ Len(t) = Len(s) + 1 /\ t[Len(s) + 1] = call
      /\ given'[tx][Len(s) + 1] = result
      /\ \A i \in 1 .. Len(s) : t[i] = s[i] /\ given'[tx][i] = given[tx][i]
      /\ \A u \in Txs \ {tx} : made'[u] = made[u] /\ given'[u] = given[u] /\ phase'[u] = phase[u]
  BY GivenHistory
<1>2. call \in Calls /\ s \in Seq(Calls) /\ t = Append(s, call) /\ Len(given[tx]) = Len(s)
  BY DEF DedupInd, DedupTypes, CallGiven, Give
<1>3. Len(given'[tx]) = Len(t)
  <2>1. DedupTypes'
    BY GivenHistory
  <2> QED
    BY <2>1 DEF DedupTypes
<1>4. Beside(s, given[tx], B, A, P, R) /\ Listlike(R) /\ Len(R) = Len(s)
  BY <1>0 DEF TxBeside
<1>5. /\ Q.state = StateAfter(P, call) /\ Listlike(Q.results) /\ Len(Q.results) = Len(s) + 1
      /\ \A i \in 1 .. Len(s) : Q.results[i] = R[i]
      /\ Q.results[Len(s) + 1] = ResultOf(P, call)
  BY <1>2, <1>4, PlainOneMore DEF PlainOf
<1>6. Got(s, given[tx], B, A, call, result, B2, A2)
  BY DEF TxGot
<1> HIDE DEF P, R, Q
<1>7. OneMore(s, t, call) /\ OneMore(given[tx], given'[tx], result) /\ OneMore(R, Q.results, ResultOf(P, call))
  BY <1>1, <1>2, <1>3, <1>4, <1>5 DEF OneMore
<1> HIDE DEF s, t, A, A2, B, B2
<1>8. Alive(A)
  BY DEF A
<1>9. Beside(t, given'[tx], B2, A2, StateAfter(P, call), Q.results) /\ A2.slot = A.slot
  BY <1>2, <1>4, <1>6, <1>7, <1>8, BesideOneMore
<1>10. TxBeside(tx)'
  <2>1. PlainOf(tx)' = Q
    BY <1>9 DEF PlainOf, Q, A, A2, t
  <2>2. /\ Beside(t, given'[tx], B2, A2, Q.state, Q.results)
        /\ Listlike(Q.results) /\ Len(Q.results) = Len(t)
    BY <1>1, <1>5, <1>9
  <2> HIDE DEF Q
  <2> QED
    BY <2>1, <2>2 DEF TxBeside, t, A2, B2
<1>11. phase'[tx] = "running"
  BY DEF CallGiven, DedupInd, DedupTypes
<1>12. TxAlive(tx)'
  BY <1>11 DEF TxAlive
<1>13. ASSUME NEW u \in Txs \ {tx} PROVE TxBeside(u)' /\ TxAlive(u)'
  <2>1. /\ made'[u] = made[u] /\ given'[u] = given[u] /\ phase'[u] = phase[u]
        /\ actual'[u] = actual[u] /\ fromBuffer'[u] = fromBuffer[u]
    BY <1>1 DEF TxGot
  <2>2. TxBeside(u)'
    BY <1>0, <2>1, OthersBeside
  <2>3. TxAlive(u)'
    BY <1>0, <2>1 DEF TxAlive, Alive
  <2> QED
    BY <2>2, <2>3
<1> QED
  BY <1>0, <1>10, <1>12, <1>13 DEF PathInd

\* A call that is executed, for which the buffer has served nothing.
LEMMA PerformedGot ==
  ASSUME PathInd, NEW tx \in Txs, NEW call, Perform(tx, call), fromBuffer' = fromBuffer,
         CallKey(call) \notin fromBuffer[tx]
  PROVE  TxGot(tx, call, ResultOf(actual[tx], call))
<1>1. /\ actual'[tx] = StateAfter(actual[tx], call) /\ TxTypes'
      /\ \A u \in Txs \ {tx} : actual'[u] = actual[u] /\ fromBuffer'[u] = fromBuffer[u]
  BY DEF PathInd, TxTypes, Perform
<1> QED
  BY <1>1 DEF TxGot, Got, Executed

\* What the buffer served to a transaction are eligible calls of it, which the
\* table has.
LEMMA ServedInTable ==
  ASSUME DedupInd, PathInd, NEW tx \in Txs, NEW call, CallKey(call) \in fromBuffer[tx]
  PROVE  validate_dedup(call.id) /\ Key(tx, call) \in DOMAIN table
<1>1. ServedMade(made[tx], fromBuffer[tx])
  BY DEF PathInd, TxBeside, Beside
<1>2. PICK i \in 1 .. Len(made[tx]) :
        CallKey(made[tx][i]) = CallKey(call) /\ validate_dedup(made[tx][i].id)
  BY <1>1 DEF ServedMade
<1>3. made[tx][i].id = call.id /\ Key(tx, made[tx][i]) = Key(tx, call)
  BY <1>2 DEF CallKey, Key
<1>4. i \in Eligible(tx)
  BY <1>2 DEF Eligible
<1> QED
  BY <1>2, <1>3, <1>4 DEF DedupInd, TableGives

\* A hit of the table repeats a result that the transaction was given before.
LEMMA HitGot ==
  ASSUME DedupInd, PathInd, NEW tx \in Txs, NEW call \in Calls, CheckHit(tx, call),
         fromBuffer' = fromBuffer
  PROVE  TxGot(tx, call, table[Key(tx, call)])
<1> DEFINE K == Key(tx, call)
<1>0. TxTypes /\ TableGives /\ TableOwn
  BY DEF PathInd, DedupInd
<1>1. validate_dedup(call.id) /\ K \in DOMAIN table /\ actual' = actual
  BY DEF CheckHit
<1>2. PICK u \in Txs : \E j \in Eligible(u) : K = Key(u, made[u][j])
  BY <1>0, <1>1 DEF TableOwn
<1>3. PICK i \in Eligible(tx) :
        made[tx][i].id = call.id /\ made[tx][i].arg = call.arg /\ K = Key(tx, made[tx][i])
  BY <1>2 DEF Key
<1>4. table[K] = given[tx][i]
  BY <1>0, <1>3 DEF TableGives
<1>5. i \in 1 .. Len(made[tx]) /\ CallKey(made[tx][i]) = CallKey(call)
  BY <1>3 DEF Eligible, CallKey
<1>6. TxTypes'
  BY <1>0, <1>1 DEF TxTypes
<1>7. fromBuffer'[tx] = fromBuffer[tx] /\ actual'[tx] = actual[tx]
  BY <1>1
<1> HIDE DEF K
<1>8. Repeated(made[tx], given[tx], fromBuffer[tx], actual[tx], call, table[K],
               fromBuffer'[tx], actual'[tx])
  BY <1>1, <1>4, <1>5, <1>7 DEF Repeated
<1> QED
  BY <1>1, <1>6, <1>8 DEF TxGot, Got, K

\* The buffer serves what simulate_fetch makes up, and only on a first call.
LEMMA ServedGot ==
  ASSUME DedupInd, FetchInd, PathInd, NEW tx \in Txs, NEW call \in Calls, MissedCall(tx, call),
         ServePrefetched(tx)
  PROVE  TxGot(tx, call, buffer[CallKey(call)])
<1> DEFINE k == CallKey(call)
<1>0. TxTypes /\ TableGives
  BY DEF PathInd, DedupInd
<1>1. Head(pending[tx]) = call /\ validate_dedup(call.id)
  BY DEF MissedCall
<1>2. /\ k \in DOMAIN buffer /\ actual' = actual
      /\ fromBuffer' = [fromBuffer EXCEPT ![tx] = fromBuffer[tx] \cup {k}]
  BY <1>1 DEF ServePrefetched, ConsumeHit
<1>3. k[1] = call.id
  BY DEF CallKey
<1>4. buffer[k] = simulate_fetch(call.id)
  BY <1>2, <1>3 DEF FetchInd, BufferKnown
<1>5. ASSUME NEW i \in 1 .. Len(made[tx]) PROVE CallKey(made[tx][i]) # k
  <2> SUFFICES ASSUME CallKey(made[tx][i]) = k PROVE FALSE
    OBVIOUS
  <2>1. made[tx][i].id = call.id /\ Key(tx, made[tx][i]) = Key(tx, call)
    BY DEF CallKey, Key
  <2>2. i \in Eligible(tx)
    BY <1>1, <2>1 DEF Eligible
  <2> QED
    BY <1>0, <2>1, <2>2 DEF TableGives, MissedCall
<1>6. /\ fromBuffer'[tx] = fromBuffer[tx] \cup {k} /\ actual'[tx] = actual[tx] /\ TxTypes'
      /\ \A u \in Txs \ {tx} : actual'[u] = actual[u] /\ fromBuffer'[u] = fromBuffer[u]
  BY <1>0, <1>2 DEF TxTypes
<1>7. Served(made[tx], fromBuffer[tx], actual[tx], call, buffer[k], fromBuffer'[tx], actual'[tx])
  BY <1>1, <1>4, <1>5, <1>6 DEF Served
<1> QED
  BY <1>6, <1>7 DEF TxGot, Got

\* A transaction begins anew, or is over: plain execution of nothing.
LEMMA RestartBeside ==
  ASSUME PathInd, NEW tx \in Txs, NEW slot, TxTypes',
         made'[tx] = <<>>, actual'[tx] = StartState(Programs, slot), fromBuffer'[tx] = {},
         phase'[tx] # "executing",
         \A u \in Txs \ {tx} : /\ made'[u] = made[u] /\ given'[u] = given[u] /\ phase'[u] = phase[u]
                               /\ actual'[u] = actual[u] /\ fromBuffer'[u] = fromBuffer[u]
  PROVE  PathInd'
<1> DEFINE S == StartState(Programs, slot)
<1>1. S.slot = slot /\ Whole(S) /\ Alive(S)
  BY DEF StartState, Whole, Alive
<1>2. Plain(slot, <<>>).state = S /\ Plain(slot, <<>>).results = <<>>
  BY PlainEmpty
<1> HIDE DEF S
<1>3. actual'[tx] = S
  BY DEF S
<1>4. PlainOf(tx)' = Plain(slot, <<>>)
  BY <1>1, <1>3 DEF PlainOf
<1>5. Beside(<<>>, given'[tx], {}, S, S, <<>>)
  BY <1>1, BesideStart
<1>6. TxBeside(tx)'
  BY <1>2, <1>3, <1>4, <1>5, ListEmpty DEF TxBeside
<1>7. TxAlive(tx)'
  BY DEF TxAlive
<1>8. ASSUME NEW u \in Txs \ {tx} PROVE TxBeside(u)' /\ TxAlive(u)'
  <2>1. TxBeside(u)'
    BY OthersBeside DEF PathInd
  <2>2. TxAlive(u)'
    BY DEF PathInd, TxAlive, Alive
  <2> QED
    BY <2>1, <2>2
<1> QED
  BY <1>6, <1>7, <1>8 DEF PathInd

\* A transaction that may call has not aborted.
LEMMA MayCallAlive ==
  ASSUME PathInd, NEW tx \in Txs, MayCall(tx)
  PROVE  Alive(actual[tx])
<1>1. actual[tx].dead = TRUE \/ actual[tx].dead = FALSE
  BY DEF PathInd, TxBeside, Beside, StateRight
<1> QED
  BY <1>1 DEF MayCall, Alive

\* Nothing that happens on the path takes a transaction further off plain execution.
LEMMA PathStepInd ==
  ASSUME DedupInd, FetchInd, PathInd, [PathNext]_pathVars
  PROVE  PathInd'
<1>0. TxTypes /\ \A tx \in Txs : TxAlive(tx)
  BY DEF PathInd
<1>1. CASE UNCHANGED <<made, given, phase, actual, fromBuffer>>
  <2>1. TxTypes'
    BY <1>0, <1>1 DEF TxTypes
  <2>2. ASSUME NEW u \in Txs PROVE TxBeside(u)' /\ TxAlive(u)'
    <3>1. TxBeside(u)'
      BY <1>1, OthersBeside DEF PathInd
    <3>2. TxAlive(u)'
      BY <1>0, <1>1 DEF TxAlive, Alive
    <3> QED
      BY <3>1, <3>2
  <2> QED
    BY <2>1, <2>2 DEF PathInd
<1>2. ASSUME NEW tx \in Txs, Begin(tx), fromBuffer' = fromBuffer PROVE PathInd'
  <2>1. /\ made'[tx] = <<>> /\ actual'[tx] = StartState(Programs, runs + 1) /\ TxTypes'
        /\ \A u \in Txs \ {tx} : actual'[u] = actual[u] /\ phase'[u] = phase[u]
        /\ UNCHANGED <<made, given>> /\ phase'[tx] = "running"
    BY <1>0, <1>2 DEF Begin, TxTypes, DedupInd, DedupTypes, IdleMadeNone
  <2>2. fromBuffer'[tx] = {}
    BY <1>0, <1>2 DEF Begin, TxAlive
  <2> QED
    BY <1>2, <2>1, <2>2, RestartBeside
<1>3. ASSUME NEW tx \in Txs, PathComplete(tx) PROVE PathInd'
  <2>1. /\ made'[tx] = <<>> /\ actual'[tx] = StartState(Programs, 0) /\ TxTypes'
        /\ phase'[tx] = "idle" /\ fromBuffer'[tx] = {}
        /\ \A u \in Txs \ {tx} : /\ made'[u] = made[u] /\ given'[u] = given[u] /\ phase'[u] = phase[u]
                                 /\ actual'[u] = actual[u] /\ fromBuffer'[u] = fromBuffer[u]
    BY <1>0, <1>3 DEF PathComplete, Complete, TxTypes, DedupInd, DedupTypes
  <2> QED
    BY <2>1, RestartBeside
<1>4. ASSUME NEW tx \in Txs, NEW call \in Calls, Bypass(tx, call), fromBuffer' = fromBuffer
      PROVE  PathInd'
  <2>1. CallKey(call) \notin fromBuffer[tx]
    BY <1>4, ServedInTable DEF Bypass
  <2>2. TxGot(tx, call, ResultOf(actual[tx], call))
    BY <1>4, <2>1, PerformedGot DEF Bypass
  <2>3. Alive(actual[tx])
    BY <1>4, MayCallAlive DEF Bypass
  <2> QED
    BY <1>4, <2>2, <2>3, CallsAreGiven, GivenBeside
<1>5. ASSUME NEW tx \in Txs, NEW call \in Calls, CheckHit(tx, call), fromBuffer' = fromBuffer
      PROVE  PathInd'
  <2>1. TxGot(tx, call, table[Key(tx, call)])
    BY <1>5, HitGot
  <2>2. Alive(actual[tx])
    BY <1>5, MayCallAlive DEF CheckHit
  <2> QED
    BY <1>5, <2>1, <2>2, CallsAreGiven, GivenBeside
<1>6. ASSUME NEW tx \in Txs, ServePrefetched(tx) PROVE PathInd'
  <2>1. PICK call \in Calls : MissedCall(tx, call) /\ CallGiven(tx, call, buffer[CallKey(call)])
    BY <1>6, CallsAreGiven
  <2>2. TxGot(tx, call, buffer[CallKey(call)])
    BY <1>6, <2>1, ServedGot
  <2>3. Alive(actual[tx])
    BY <1>0, <1>6 DEF ServePrefetched, TxAlive
  <2> QED
    BY <2>1, <2>2, <2>3, GivenBeside
<1>7. ASSUME NEW tx \in Txs, Fallthrough(tx) PROVE PathInd'
  <2>1. PICK call \in Calls : /\ MissedCall(tx, call)
                              /\ CallGiven(tx, call, ResultOf(actual[tx], call))
    BY <1>7, CallsAreGiven
  <2>2. Head(pending[tx]) = call
    BY <2>1 DEF MissedCall
  <2>3. CallKey(call) \notin fromBuffer[tx]
    BY <2>1, ServedInTable DEF MissedCall
  <2>4. TxGot(tx, call, ResultOf(actual[tx], call))
    BY <1>7, <2>2, <2>3, PerformedGot DEF Fallthrough, Record
  <2>5. Alive(actual[tx])
    BY <1>0, <1>7 DEF Fallthrough, TxAlive
  <2> QED
    BY <2>1, <2>4, <2>5, GivenBeside
<1>8. ASSUME NEW tx \in Txs, NEW call \in Calls, CheckMiss(tx, call), fromBuffer' = fromBuffer
      PROVE  PathInd'
  <2>1. /\ UNCHANGED <<made, given, actual>> /\ phase'[tx] = "executing" /\ MayCall(tx)
        /\ \A u \in Txs \ {tx} : phase'[u] = phase[u]
    BY <1>8 DEF CheckMiss, DedupInd, DedupTypes
  <2>2. Alive(actual[tx])
    BY <2>1, MayCallAlive
  <2>3. ASSUME NEW u \in Txs PROVE TxBeside(u)' /\ TxAlive(u)'
    <3>1. TxBeside(u)'
      BY <1>8, <2>1, OthersBeside DEF PathInd
    <3>2. TxAlive(u)'
      BY <1>0, <1>8, <2>1, <2>2 DEF TxAlive, Alive
    <3> QED
      BY <3>1, <3>2
  <2>4. TxTypes'
    BY <1>0, <1>8, <2>1 DEF TxTypes
  <2> QED
    BY <2>3, <2>4 DEF PathInd
<1>9. ASSUME NEW t \in Prefetchers, PrefetchStep(t) PROVE PathInd'
  BY <1>1, <1>9 DEF PrefetchStep, vars
<1>10. CASE UNCHANGED pathVars
  BY <1>1, <1>10 DEF pathVars, vars
<1> QED
  BY <1>2, <1>3, <1>4, <1>5, <1>6, <1>7, <1>8, <1>9, <1>10 DEF PathNext

\* At first no transaction has made a call.
LEMMA PathInitInd == PathInit => PathInd
<1> SUFFICES ASSUME PathInit, NEW tx \in Txs PROVE TxTypes /\ TxBeside(tx) /\ TxAlive(tx)
  BY DEF PathInit, Init, PathInd, TxTypes
<1> DEFINE S == StartState(Programs, 0)
<1>1. /\ TxTypes /\ made[tx] = <<>> /\ actual[tx] = S /\ fromBuffer[tx] = {}
      /\ phase[tx] = "idle"
  BY DEF PathInit, Init, TxTypes
<1>2. S.slot = 0 /\ Whole(S) /\ Alive(S)
  BY DEF StartState, Whole, Alive
<1>3. Plain(0, <<>>).state = S /\ Plain(0, <<>>).results = <<>>
  BY PlainEmpty
<1> HIDE DEF S
<1>4. PlainOf(tx) = Plain(0, <<>>)
  BY <1>1, <1>2 DEF PlainOf
<1>5. Beside(<<>>, given[tx], {}, S, S, <<>>)
  BY <1>2, BesideStart
<1>6. TxBeside(tx)
  BY <1>1, <1>3, <1>4, <1>5, ListEmpty DEF TxBeside
<1> QED
  BY <1>1, <1>6 DEF TxAlive

\* How far the path strays from plain execution, for any number of transactions,
\* prefetch threads, programs, syscalls and arguments, whatever is called and
\* predicted: return data, abort and slot are those of plain execution, and so is
\* every result but the made-up ones that the buffer served, repeated reads of
\* return data set in between and comparisons of memory after a skipped call on it.
THEOREM DeviationsConfinedHolds == PathSpec => []DeviationsConfined
<1> DEFINE Ind == PrefetchInd /\ DedupInd /\ FetchInd /\ PathInd
<1>1. PathInit => Ind
  BY PrefetchInitInd, DedupInitInd, FetchInitInd, PathInitInd DEF PathInit
<1>2. Ind /\ [PathNext]_pathVars => Ind'
  <2> SUFFICES ASSUME Ind, [PathNext]_pathVars PROVE Ind'
    OBVIOUS
  <2>1. PrefetchInd'
    BY PathPrefetch, PrefetchStepInd
  <2>2. DedupInd'
    BY DedupStepInd
  <2>3. FetchInd'
    BY <2>1, FetchStepInd
  <2>4. PathInd'
    BY PathStepInd
  <2> QED
    BY <2>1, <2>2, <2>3, <2>4
<1>3. ASSUME Ind PROVE DeviationsConfined
  <2>1. ASSUME NEW tx \in Txs
        PROVE  /\ actual[tx].slot = Reference(tx).state.slot
               /\ actual[tx].ret = Reference(tx).state.ret
               /\ actual[tx].dead = Reference(tx).state.dead
    <3>1. Reference(tx) = PlainOf(tx)
      BY DEF Reference, PlainOf, Plain
    <3>2. StateRight(made[tx], fromBuffer[tx], actual[tx], PlainOf(tx).state)
      BY <1>3 DEF PathInd, TxBeside, Beside
    <3> QED
      BY <3>1, <3>2 DEF StateRight
  <2>2. ASSUME NEW tx \in Txs, NEW i \in 1 .. Len(made[tx])
        PROVE  IF CallKey(made[tx][i]) \in fromBuffer[tx]
               THEN given[tx][i] = simulate_fetch(made[tx][i].id)
               ELSE \/ given[tx][i] = Reference(tx).results[i]
                    \/ made[tx][i].id = GET_RETURN_DATA /\ SetSince(tx, i)
                    \/ made[tx][i].id = MEMCMP /\ MemorySkipped(tx, i)
    <3>1. Reference(tx) = PlainOf(tx)
      BY DEF Reference, PlainOf, Plain
    <3>2. RightAt(made[tx], given[tx], fromBuffer[tx], PlainOf(tx).results, i)
      BY <1>3 DEF PathInd, TxBeside, Beside, ResultsRight
    <3>3. SetIn(made[tx], CallKey(made[tx][i]), i - 1) => SetSince(tx, i)
      BY DEF SetIn, SetSince, Setters
    <3>4. MemoryIn(made[tx], fromBuffer[tx], i) => MemorySkipped(tx, i)
      BY DEF MemoryIn, SkippedIn, MemorySkipped, Skipped
    <3> QED
      BY <3>1, <3>2, <3>3, <3>4 DEF RightAt
  <2> QED
    BY <2>1, <2>2 DEF DeviationsConfined
<1> QED
  BY <1>1, <1>2, <1>3, PTL DEF PathSpec
===============================================================================
