-------------------------- MODULE SafetyLayerProofs ---------------------------
(***************************************************************************)
(* Proofs about the verdicts of the safety layer and about the batcher,    *)
(* for sequences of any length and any set of syscall ids.                 *)
(*                                                                         *)
(* What an order of execution observes is a fold over the sequence. The    *)
(* fold over read-only calls never leaves the state it began in, so each   *)
(* call observes the same in every order (ReorderSoundness).  Where        *)
(* check_sequence reports nothing, the fold over all calls and the one     *)
(* without the mutating calls agree on what the others can see             *)
(* (DependenciesFound).  The groups of the batcher are a fold too: they    *)
(* hold each pair of id and hash once, first asked for first.              *)
(***************************************************************************)
EXTENDS Batcher, FiniteFacts

\* A read-only syscall is not a mutating one: the classes exclude each other.
LEMMA ReadOnlyIsNotMutating ==
  \A id : classify(id) = "ReadOnly" => ~Mutating(id)
BY DEF Mutating

\* Among read-only calls check_sequence finds no dependency, whatever programs
\* make them.
LEMMA NoDependencyAmongReads ==
  \A S : AllReadOnly(S) => ~has_dependencies(S)
<1> SUFFICES ASSUME NEW S, AllReadOnly(S) PROVE check_sequence(S) = {}
  BY DEF has_dependencies
<1> SUFFICES ASSUME NEW d \in check_sequence(S) PROVE FALSE
  OBVIOUS
<1>1. d[1] \in 1 .. Len(S) /\ Mutating(S[d[1]].id)
  BY DEF check_sequence
<1>2. classify(S[d[1]].id) = "ReadOnly"
  BY <1>1 DEF AllReadOnly
<1> QED
  BY <1>1, <1>2, ReadOnlyIsNotMutating

\* The dependency check never decides validate_reorder: it approves exactly the
\* sequences of read-only calls.
LEMMA ReorderMeansReadOnly ==
  \A S : validate_reorder(S) <=> AllReadOnly(S)
BY NoDependencyAmongReads DEF validate_reorder, is_safe_to_reorder

\* validate_reorder and can_reorder agree on every sequence that can be traced.
THEOREM VerdictAgreement == Spec => []VerdictPairwise
<1>1. VerdictPairwise
  <2>1. AllReadOnly(sequence) <=>
          \A i, j \in 1 .. Len(sequence) : can_reorder(sequence[i].id, sequence[j].id)
    BY DEF AllReadOnly, can_reorder
  <2> QED
    BY <2>1, ReorderMeansReadOnly DEF VerdictPairwise
<1> QED
  BY <1>1, PTL

-------------------------------------------------------------------------------
(* The two tables *)

\* The runtime's registry and the classifier give every id, known or not, the
\* same verdict.
LEMMA TablesAgree == \A id : registry_eligible(id) <=> validate_dedup(id)
<1> SUFFICES ASSUME NEW id PROVE registry_eligible(id) <=> validate_dedup(id)
  OBVIOUS
<1>1. registry_eligible(id) <=>
        id \in SysvarIds \cup {GET_RETURN_DATA, MEMCMP} \cup LogIds \cup CryptoIds
                 \cup (MemoryIds \ {MEMCMP})
  BY DEF registry_eligible, get_safety, Optimizable, SysvarIds, CLOCK, RENT, EPOCH_SCHEDULE,
     FEES, SLOT_HASHES, STAKE_HISTORY, LogIds, CryptoIds, MemoryIds, GET_RETURN_DATA, MEMCMP,
     INVOKE_SIGNED
<1>2. validate_dedup(id) <=>
        id \in SysvarIds \cup {GET_RETURN_DATA} \cup LogIds \cup CryptoIds \cup MemoryIds
  BY DEF validate_dedup, classify, Optimizable, SysvarIds, CLOCK, RENT, EPOCH_SCHEDULE,
     FEES, SLOT_HASHES, STAKE_HISTORY, LogIds, CryptoIds, MemoryIds, GET_RETURN_DATA,
     INVOKE_SIGNED
<1>3. MEMCMP \in MemoryIds
  BY DEF MEMCMP, MemoryIds
<1> QED
  BY <1>1, <1>2, <1>3

\* handle reports a call as eligible exactly when the validator would let it be
\* deduplicated, for every u32 that a program may pass.
THEOREM EligibilityHolds == Spec => []EligibilityAgrees
<1>1. EligibilityAgrees
  BY TablesAgree DEF EligibilityAgrees
<1> QED
  BY <1>1, PTL

-------------------------------------------------------------------------------
(* Reordering *)

\* What a read-only call returns at the start of a transaction.
Start == StartState(Programs, 0)
Read(S, n) == ResultOf(Start, S[n])

\* The fold of ExecInOrder, before and after a set of positions in the order.
Step(S, order, g, s) ==
  IF s = {} THEN [state |-> Start, results |-> [n \in 1 .. Len(S) |-> NoResult]]
  ELSE [state |-> StateAfter(g[s \ {Max(s)}].state, S[order[Max(s)]]),
        results |-> [g[s \ {Max(s)}].results EXCEPT
                       ![order[Max(s)]] = ResultOf(g[s \ {Max(s)}].state, S[order[Max(s)]])]]

Runs(S, order) == CHOOSE g : g = [s \in SUBSET DOMAIN order |-> Step(S, order, g, s)]

\* What a sequence of reads has done when those at the positions s of the order
\* are executed: nothing to the state.
ReadsDone(S, order, s) ==
  [state |-> Start,
   results |-> [n \in 1 .. Len(S) |-> IF \E m \in s : order[m] = n THEN Read(S, n) ELSE NoResult]]

\* ExecInOrder is the fold.
LEMMA ExecIsRuns == \A S, order : ExecInOrder(Programs, S, order) = Runs(S, order)[DOMAIN order]
  BY Zenon DEF ExecInOrder, FoldLeft, MapThenFoldSet, Runs, Step, Start

\* Calls that leave the state a transaction starts in as it is.
Quiet(S) == \A i \in 1 .. Len(S) : StateAfter(Start, S[i]) = Start

\* A read-only call leaves the state as it is.
LEMMA ReadsChangeNothing ==
  ASSUME NEW call, classify(call.id) = "ReadOnly"
  PROVE  StateAfter(Start, call) = Start
<1>1. call.id \in SysvarIds \cup {GET_RETURN_DATA}
  BY DEF classify
<1>2. /\ call.id \notin LogIds /\ call.id # SET_RETURN_DATA /\ call.id # MEMSET
      /\ call.id # INVOKE_SIGNED /\ call.id \notin {PANIC, ABORT}
  BY <1>1 DEF SysvarIds, CLOCK, RENT, EPOCH_SCHEDULE, FEES, SLOT_HASHES, STAKE_HISTORY,
     LogIds, GET_RETURN_DATA, SET_RETURN_DATA, MEMSET, INVOKE_SIGNED, PANIC, ABORT
<1> QED
  BY <1>2 DEF StateAfter

\* Executing the next read adds its result and changes nothing else.
LEMMA ReadStep ==
  ASSUME NEW S, Quiet(S), Len(S) \in Nat, NEW order \in [1 .. Len(S) -> 1 .. Len(S)],
         NEW s, s \subseteq 1 .. Len(S), NEW g,
         s # {} => g[s \ {Max(s)}] = ReadsDone(S, order, s \ {Max(s)})
  PROVE  Step(S, order, g, s) = ReadsDone(S, order, s)
<1>1. CASE s = {}
  BY <1>1 DEF Step, ReadsDone
<1>2. CASE s # {}
  <2> DEFINE x == Max(s)
             u == s \ {x}
             i == order[x]
  <2>1. x \in s /\ x \in 1 .. Len(S)
    BY <1>2, MaxMember
  <2>2. g[u] = ReadsDone(S, order, u) /\ i \in 1 .. Len(S)
    BY <1>2, <2>1
  <2>3. Step(S, order, g, s) =
          [state |-> StateAfter(g[u].state, S[i]),
           results |-> [g[u].results EXCEPT ![i] = ResultOf(g[u].state, S[i])]]
    BY <1>2 DEF Step
  <2> HIDE DEF x, u, i
  <2>4. g[u].state = Start
    BY <2>2 DEF ReadsDone
  <2>5. StateAfter(Start, S[i]) = Start
    BY <2>2 DEF Quiet
  <2>6. g[u].results = [n \in 1 .. Len(S) |-> IF \E m \in u : order[m] = n THEN Read(S, n)
                                              ELSE NoResult]
    BY <2>2 DEF ReadsDone
  <2>7. \A n \in 1 .. Len(S) : (\E m \in s : order[m] = n) <=> n = i \/ \E m \in u : order[m] = n
    BY <2>1 DEF u, i
  <2>8. [g[u].results EXCEPT ![i] = Read(S, i)] =
          [n \in 1 .. Len(S) |-> IF \E m \in s : order[m] = n THEN Read(S, n) ELSE NoResult]
    BY <2>6, <2>7
  <2> QED
    BY <2>3, <2>4, <2>5, <2>8 DEF ReadsDone, Read
<1> QED
  BY <1>1, <1>2

\* So the fold over reads is ReadsDone.
LEMMA RunsOfReads ==
  ASSUME NEW S, Quiet(S), Len(S) \in Nat, NEW order \in [1 .. Len(S) -> 1 .. Len(S)]
  PROVE  Runs(S, order)[1 .. Len(S)] = ReadsDone(S, order, 1 .. Len(S))
<1> DEFINE h == [s \in SUBSET (1 .. Len(S)) |-> ReadsDone(S, order, s)]
           g == Runs(S, order)
           P == {n \in Nat : n <= Len(S) => g[1 .. n] = ReadsDone(S, order, 1 .. n)}
<1>1. DOMAIN order = 1 .. Len(S)
  OBVIOUS
<1>2. h = [s \in SUBSET (1 .. Len(S)) |-> Step(S, order, h, s)]
  <2>1. ASSUME NEW s \in SUBSET (1 .. Len(S)) PROVE Step(S, order, h, s) = ReadsDone(S, order, s)
    <3>1. s # {} => h[s \ {Max(s)}] = ReadsDone(S, order, s \ {Max(s)})
      OBVIOUS
    <3> HIDE DEF h
    <3> QED
      BY <3>1, ReadStep
  <2> QED
    BY <2>1
<1>3. g = [s \in SUBSET (1 .. Len(S)) |-> Step(S, order, g, s)]
  <2> HIDE DEF h
  <2>1. \E k : k = [s \in SUBSET (1 .. Len(S)) |-> Step(S, order, k, s)]
    BY <1>2
  <2> QED
    BY <1>1, <2>1 DEF Runs
<1> HIDE DEF g, h
<1>4. \A s \in SUBSET (1 .. Len(S)) : g[s] = Step(S, order, g, s)
  BY <1>3
<1>5. 0 \in P
  <2>1. 1 .. 0 = {} /\ {} \in SUBSET (1 .. Len(S))
    OBVIOUS
  <2> QED
    BY <1>4, <2>1 DEF Step, ReadsDone
<1>6. ASSUME NEW n \in Nat, n \in P PROVE n + 1 \in P
  <2> SUFFICES ASSUME n + 1 <= Len(S) PROVE g[1 .. n + 1] = ReadsDone(S, order, 1 .. n + 1)
    OBVIOUS
  <2>1. 1 .. n + 1 \subseteq 1 .. Len(S)
    OBVIOUS
  <2>2. g[1 .. n] = ReadsDone(S, order, 1 .. n)
    BY <1>6
  <2>3. g[(1 .. n + 1) \ {Max(1 .. n + 1)}]
          = ReadsDone(S, order, (1 .. n + 1) \ {Max(1 .. n + 1)})
    BY <2>2, MaxSegment
  <2>4. Step(S, order, g, 1 .. n + 1) = ReadsDone(S, order, 1 .. n + 1)
    BY <2>1, <2>3, ReadStep
  <2> QED
    BY <1>4, <2>1, <2>4
<1> HIDE DEF P
<1>7. Len(S) \in P
  BY <1>5, <1>6, SetInduction
<1> QED
  BY <1>7 DEF P, g

\* Such calls may be executed in any order.
LEMMA ReadsCommute ==
  ASSUME NEW S, Quiet(S), Len(S) \in Nat
  PROVE  Commutes(S)
<1>1. ASSUME NEW order \in Orders(Len(S))
      PROVE  ExecInOrder(Programs, S, order)
               = [state |-> Start, results |-> [n \in 1 .. Len(S) |-> Read(S, n)]]
  <2>1. order \in [1 .. Len(S) -> 1 .. Len(S)] /\ IsInjective(order)
    BY DEF Orders
  <2>2. DOMAIN order = 1 .. Len(S)
    BY <2>1
  <2>3. \A n \in 1 .. Len(S) : \E m \in 1 .. Len(S) : order[m] = n
    BY <2>1, InjectionOnto
  <2>4. Runs(S, order)[1 .. Len(S)] = ReadsDone(S, order, 1 .. Len(S))
    BY <2>1, RunsOfReads
  <2>5. ReadsDone(S, order, 1 .. Len(S))
          = [state |-> Start, results |-> [n \in 1 .. Len(S) |-> Read(S, n)]]
    BY <2>3 DEF ReadsDone
  <2> QED
    BY <2>2, <2>4, <2>5, ExecIsRuns
<1>2. [n \in 1 .. Len(S) |-> n] \in Orders(Len(S))
  BY DEF Orders, IsInjective
<1>3. ASSUME NEW order \in Orders(Len(S))
      PROVE  ExecInOrder(Programs, S, order) = ExecInOrder(Programs, S, [n \in 1 .. Len(S) |-> n])
  BY <1>1, <1>2
<1> QED
  BY <1>3 DEF Commutes, Exec

\* The sequence holds calls.
Traced == sequence \in Seq(Calls)

\* Only calls are traced.
LEMMA TracedAlways == Spec => []Traced
<1>1. Init => Traced
  BY DEF Init, Traced
<1>2. ASSUME Traced, [Next]_sequence PROVE Traced'
  <2>1. CASE UNCHANGED sequence
    BY <1>2, <2>1 DEF Traced
  <2>2. ASSUME NEW call \in Calls, Trace(call) PROVE Traced'
    BY <1>2, <2>2 DEF Trace, Traced
  <2> QED
    BY <1>2, <2>1, <2>2 DEF Next
<1> QED
  BY <1>1, <1>2, PTL DEF Spec

\* Whatever validate_reorder approves may be executed in every order, for
\* sequences of any length, any set of programs, syscalls and arguments.
THEOREM ReorderSoundness == Spec => []ReorderSound
<1>1. Traced => ReorderSound
  <2> SUFFICES ASSUME Traced, validate_reorder(sequence)
               PROVE  Commutes(sequence)
    BY DEF ReorderSound
  <2>1. AllReadOnly(sequence) /\ Len(sequence) \in Nat
    BY ReorderMeansReadOnly DEF Traced
  <2>2. Quiet(sequence)
    BY <2>1, ReadsChangeNothing DEF AllReadOnly, Quiet
  <2> QED
    BY <2>1, <2>2, ReadsCommute
<1> QED
  BY <1>1, TracedAlways, PTL

\* The predictor's reorder_safe approves nothing else than logs that may not be
\* executed in every order.
ReorderSafeWithoutLogs ==
  /\ reorder_safe(sequence)
  /\ \A i \in 1 .. Len(sequence) : sequence[i].id \notin LogIds
  => Commutes(sequence)

\* A sequence without logs that the predictor's reorder_safe approves may be
\* executed in every order, for sequences of any length and any set of ids.
THEOREM PredictorSoundness == Spec => []ReorderSafeWithoutLogs
<1>1. Traced => ReorderSafeWithoutLogs
  <2> SUFFICES ASSUME Traced, reorder_safe(sequence),
                      \A i \in 1 .. Len(sequence) : sequence[i].id \notin LogIds
               PROVE  Commutes(sequence)
    BY DEF ReorderSafeWithoutLogs
  <2>1. Len(sequence) \in Nat
    BY DEF Traced
  <2>2. ASSUME NEW i \in 1 .. Len(sequence) PROVE StateAfter(Start, sequence[i]) = Start
    <3> DEFINE id == sequence[i].id
    <3>0. sequence[i] \in Calls
      BY DEF Traced
    <3>1. id \in Nat /\ id <= 29 /\ id \notin LogIds
      BY <3>0, SafetyAssumption DEF Calls, reorder_safe
    <3>2. id # SET_RETURN_DATA /\ id # MEMSET /\ id # INVOKE_SIGNED /\ id \notin {PANIC, ABORT}
      BY <3>1 DEF SET_RETURN_DATA, MEMSET, INVOKE_SIGNED, PANIC, ABORT
    <3> HIDE DEF id
    <3> QED
      BY <3>1, <3>2 DEF StateAfter, id
  <2>3. Quiet(sequence)
    BY <2>2 DEF Quiet
  <2> QED
    BY <2>1, <2>3, ReadsCommute
<1> QED
  BY <1>1, TracedAlways, PTL

-------------------------------------------------------------------------------
(* Sorting *)

Rises(order, n) == \A a, b \in 1 .. n : a < b => order[a] < order[b]

\* The members of a set of small numbers can be put in ascending order.
LEMMA AscendingExists ==
  ASSUME NEW n \in Nat, NEW T, T \subseteq 1 .. n
  PROVE  /\ Cardinality(T) \in Nat
         /\ \E order \in [1 .. Cardinality(T) -> T] : Rises(order, Cardinality(T))
<1> DEFINE Sorted(U) == /\ Cardinality(U) \in Nat
                        /\ \E order \in [1 .. Cardinality(U) -> U] : Rises(order, Cardinality(U))
           P == {m \in Nat : \A U \in SUBSET (1 .. m) : Sorted(U)}
<1>1. 0 \in P
  <2> SUFFICES ASSUME NEW U \in SUBSET (1 .. 0) PROVE Sorted(U)
    OBVIOUS
  <2>1. U = {} /\ Cardinality(U) = 0
    <3>1. 1 .. 0 = {}
      OBVIOUS
    <3>2. U = {}
      BY <3>1
    <3> QED
      BY <3>2, FS_EmptySet
  <2> DEFINE none == [a \in 1 .. 0 |-> a]
  <2>2. none \in [1 .. 0 -> U] /\ Rises(none, 0)
    BY DEF Rises
  <2> HIDE DEF none
  <2>3. 0 \in Nat /\ \E order \in [1 .. 0 -> U] : Rises(order, 0)
    BY <2>2
  <2> QED
    BY <2>1, <2>3, Zenon
<1>2. ASSUME NEW m \in Nat, m \in P PROVE m + 1 \in P
  <2> SUFFICES ASSUME NEW U \in SUBSET (1 .. m + 1) PROVE Sorted(U)
    OBVIOUS
  <2> DEFINE V == U \ {m + 1}
             k == Cardinality(V)
  <2>1. V \in SUBSET (1 .. m) /\ \A v \in V : v < m + 1
    OBVIOUS
  <2>2. Sorted(V)
    BY <1>2, <2>1
  <2>3. PICK order \in [1 .. k -> V] : Rises(order, k)
    BY <2>2
  <2>4. k \in Nat
    BY <2>2
  <2>5. CASE m + 1 \notin U
    BY <2>2, <2>5
  <2>6. CASE m + 1 \in U
    <3>1. IsFiniteSet(V)
      <4> HIDE DEF V
      <4>1. IsFiniteSet(1 .. m)
        BY FS_Interval
      <4> QED
        BY <2>1, <4>1, FS_Subset
    <3>2. U = V \cup {m + 1} /\ m + 1 \notin V
      BY <2>6
    <3>3. Cardinality(U) = k + 1
      <4> HIDE DEF V
      <4> QED
        BY <3>1, <3>2, FS_AddElement DEF k
    <3> DEFINE longer == [a \in 1 .. k + 1 |-> IF a = k + 1 THEN m + 1 ELSE order[a]]
    <3> HIDE DEF V, k
    <3>4. \A a \in 1 .. k + 1 : a = k + 1 \/ a \in 1 .. k
      BY <2>4
    <3>5. longer \in [1 .. k + 1 -> U]
      BY <2>3, <2>4, <3>2, <3>4
    <3>6. \A a \in 1 .. k : longer[a] = order[a] /\ order[a] \in V
      BY <2>3, <2>4
    <3>7. longer[k + 1] = m + 1
      BY <2>4
    <3> HIDE DEF longer
    <3>8. ASSUME NEW a \in 1 .. k + 1, NEW b \in 1 .. k + 1, a < b
          PROVE  longer[a] < longer[b]
      <4>1. a \in 1 .. k
        BY <2>4, <3>8
      <4>2. CASE b \in 1 .. k
        BY <2>3, <3>6, <3>8, <4>1, <4>2 DEF Rises
      <4>3. CASE b = k + 1
        BY <2>1, <3>6, <3>7, <4>1, <4>3
      <4> QED
        BY <3>4, <4>2, <4>3
    <3>9. Rises(longer, k + 1)
      BY <3>8 DEF Rises
    <3> QED
      BY <2>4, <3>3, <3>5, <3>9
  <2> QED
    BY <2>5, <2>6
<1> HIDE DEF P
<1>3. n \in P
  BY <1>1, <1>2, SetInduction
<1> QED
  BY <1>3 DEF P

\* Nothing is twice in an ascending order.
LEMMA RisesApart ==
  ASSUME NEW n \in Nat, NEW order, \A a \in 1 .. n : order[a] \in Nat, Rises(order, n),
         NEW a \in 1 .. n, NEW b \in 1 .. n, order[a] = order[b]
  PROVE  a = b
<1>1. a < b \/ b < a \/ a = b
  OBVIOUS
<1>2. a < b => order[a] < order[b]
  BY DEF Rises
<1>3. b < a => order[b] < order[a]
  BY DEF Rises
<1>4. order[a] \in Nat /\ order[b] \in Nat
  OBVIOUS
<1> QED
  BY <1>1, <1>2, <1>3, <1>4

\* So Ascending puts them in ascending order.
LEMMA AscendingRises ==
  ASSUME NEW n \in Nat, NEW T, T \subseteq 1 .. n
  PROVE  /\ Cardinality(T) \in Nat
         /\ Ascending(T) \in [1 .. Cardinality(T) -> T]
         /\ Rises(Ascending(T), Cardinality(T))
<1>1. /\ Cardinality(T) \in Nat
      /\ \E order \in [1 .. Cardinality(T) -> T] : Rises(order, Cardinality(T))
  BY AscendingExists
<1>2. Ascending(T) = CHOOSE order \in [1 .. Cardinality(T) -> T] : Rises(order, Cardinality(T))
  BY DEF Ascending, Rises
<1> QED
  BY <1>1, <1>2

\* An initial segment is in ascending order as it is.
LEMMA AscendingSegment ==
  ASSUME NEW n \in Nat
  PROVE  Ascending(1 .. n) = [k \in 1 .. n |-> k]
<1> DEFINE f == Ascending(1 .. n)
           Up == {k \in Nat : k \in 1 .. n => f[k] >= k}
           Down == {k \in Nat : k < n => f[n - k] <= n - k}
<1>1. Cardinality(1 .. n) = n
  BY FS_Interval
<1>2. f \in [1 .. n -> 1 .. n] /\ Rises(f, n)
  BY <1>1, AscendingRises
<1> HIDE DEF f
<1>3. \A k \in 1 .. n : f[k] \in 1 .. n
  BY <1>2
<1>4. \A k \in Nat : k \in 1 .. n /\ k + 1 \in 1 .. n => f[k] < f[k + 1]
  BY <1>2 DEF Rises
<1>5. 0 \in Up /\ 0 \in Down
  BY <1>3
<1>6. ASSUME NEW k \in Nat, k \in Up PROVE k + 1 \in Up
  <2> SUFFICES ASSUME k + 1 \in 1 .. n PROVE f[k + 1] >= k + 1
    OBVIOUS
  <2>1. CASE k = 0
    BY <1>3, <2>1
  <2>2. CASE k # 0
    <3>1. k \in 1 .. n
      BY <2>2
    <3>2. f[k] >= k /\ f[k] < f[k + 1] /\ f[k] \in Int /\ f[k + 1] \in Int
      BY <1>3, <1>4, <1>6, <3>1
    <3> QED
      BY <3>2
  <2> QED
    BY <2>1, <2>2
<1>7. ASSUME NEW k \in Nat, k \in Down PROVE k + 1 \in Down
  <2> SUFFICES ASSUME k + 1 < n PROVE f[n - (k + 1)] <= n - (k + 1)
    OBVIOUS
  <2> DEFINE i == n - (k + 1)
  <2>1. i \in Nat /\ i \in 1 .. n /\ i + 1 \in 1 .. n /\ i + 1 = n - k
    OBVIOUS
  <2>2. f[i + 1] <= i + 1
    BY <1>7, <2>1
  <2>3. f[i] < f[i + 1] /\ f[i] \in Int /\ f[i + 1] \in Int
    <3> HIDE DEF i
    <3> QED
      BY <1>3, <1>4, <2>1
  <2>4. f[i] <= i
    <3> HIDE DEF i
    <3> QED
      BY <2>1, <2>2, <2>3
  <2> QED
    BY <2>4
<1> HIDE DEF Up, Down
<1>8. \A k \in Nat : k \in Up /\ k \in Down
  <2>1. \A k \in Nat : k \in Up
    BY <1>5, <1>6, SetInduction
  <2>2. \A k \in Nat : k \in Down
    BY <1>5, <1>7, SetInduction
  <2> QED
    BY <2>1, <2>2
<1>9. ASSUME NEW k \in 1 .. n PROVE f[k] = k
  <2>1. f[k] >= k
    BY <1>8 DEF Up
  <2>2. n - k \in Nat /\ n - k < n /\ n - (n - k) = k
    OBVIOUS
  <2>3. f[n - (n - k)] <= n - (n - k)
    BY <1>8, <2>2 DEF Down
  <2> QED
    BY <1>3, <2>1, <2>2, <2>3
<1> QED
  BY <1>2, <1>9 DEF f

-------------------------------------------------------------------------------
(* Reads after writes *)

\* The fold of ExecInOrder over any calls: its equation has a solution, built up
\* by the largest position.
LEMMA RunsSolved ==
  ASSUME NEW S, NEW order, NEW n \in Nat
  PROVE  \E g : g = [s \in SUBSET (1 .. n) |-> Step(S, order, g, s)]
<1> DEFINE P == {m \in Nat : \E g : g = [s \in SUBSET (1 .. m) |-> Step(S, order, g, s)]}
<1>1. 0 \in P
  <2> DEFINE e == Step(S, order, <<>>, {})
             g == [s \in SUBSET (1 .. 0) |-> e]
  <2>1. \A s \in SUBSET (1 .. 0) : s = {}
    OBVIOUS
  <2>2. \A h : Step(S, order, h, {}) = e
    BY DEF Step
  <2>3. g = [s \in SUBSET (1 .. 0) |-> Step(S, order, g, s)]
    <3> HIDE DEF e
    <3>1. \A s \in SUBSET (1 .. 0) : Step(S, order, g, s) = e
      BY <2>1, <2>2
    <3> QED
      BY <3>1
  <2> HIDE DEF g
  <2> QED
    BY <2>3
<1>2. ASSUME NEW m \in Nat, m \in P PROVE m + 1 \in P
  <2>1. PICK g : g = [s \in SUBSET (1 .. m) |-> Step(S, order, g, s)]
    BY <1>2
  <2> DEFINE h == [s \in SUBSET (1 .. m + 1) |-> Step(S, order, g, s)]
  <2>2. \A s \in SUBSET (1 .. m) : s \in SUBSET (1 .. m + 1)
    OBVIOUS
  <2>3. \A s \in SUBSET (1 .. m) : h[s] = g[s]
    BY <2>1, <2>2
  <2>4. ASSUME NEW s \in SUBSET (1 .. m + 1) PROVE Step(S, order, h, s) = Step(S, order, g, s)
    <3>1. CASE s = {}
      BY <3>1 DEF Step
    <3>2. CASE s # {}
      <4>2. s \ {Max(s)} \in SUBSET (1 .. m)
        BY <3>2, WithoutMax
      <4>3. h[s \ {Max(s)}] = g[s \ {Max(s)}]
        BY <2>3, <4>2
      <4> HIDE DEF h
      <4> QED
        BY <3>2, <4>3 DEF Step
    <3> QED
      BY <3>1, <3>2
  <2>5. h = [s \in SUBSET (1 .. m + 1) |-> Step(S, order, h, s)]
    BY <2>4
  <2> HIDE DEF h
  <2> QED
    BY <2>5
<1> HIDE DEF P
<1>3. n \in P
  BY <1>1, <1>2, SetInduction
<1> QED
  BY <1>3 DEF P

\* What has been done after the first k calls of an order.
Done(S, order, k) == Runs(S, order)[1 .. k]

\* The fold obeys its equation, and begins with nothing done.
LEMMA DoneFirst ==
  ASSUME NEW S, NEW order, NEW n \in Nat, DOMAIN order = 1 .. n
  PROVE  /\ \A s \in SUBSET (1 .. n) : Runs(S, order)[s] = Step(S, order, Runs(S, order), s)
         /\ Done(S, order, 0) = [state |-> Start, results |-> [i \in 1 .. Len(S) |-> NoResult]]
<1> DEFINE g == Runs(S, order)
<1>1. \E h : h = [s \in SUBSET (1 .. n) |-> Step(S, order, h, s)]
  BY RunsSolved
<1>2. g = [s \in SUBSET (1 .. n) |-> Step(S, order, g, s)]
  BY <1>1 DEF Runs
<1>3. Done(S, order, 0) = g[1 .. 0]
  BY DEF Done
<1> HIDE DEF g
<1>4. \A s \in SUBSET (1 .. n) : g[s] = Step(S, order, g, s)
  BY <1>2
<1>5. Done(S, order, 0) = [state |-> Start, results |-> [i \in 1 .. Len(S) |-> NoResult]]
  <2>1. 1 .. 0 = {} /\ {} \in SUBSET (1 .. n)
    OBVIOUS
  <2> QED
    BY <1>3, <1>4, <2>1 DEF Step
<1> QED
  BY <1>4, <1>5 DEF g

\* One call more is executed in the state that the ones before left.
LEMMA DoneNext ==
  ASSUME NEW S, NEW order, NEW n \in Nat, DOMAIN order = 1 .. n, NEW k \in 0 .. n - 1
  PROVE  Done(S, order, k + 1) =
           [state |-> StateAfter(Done(S, order, k).state, S[order[k + 1]]),
            results |-> [Done(S, order, k).results EXCEPT
                           ![order[k + 1]] = ResultOf(Done(S, order, k).state, S[order[k + 1]])]]
<1> DEFINE g == Runs(S, order)
<1>1. \A s \in SUBSET (1 .. n) : g[s] = Step(S, order, g, s)
  BY DoneFirst
<1>2. Done(S, order, k) = g[1 .. k] /\ Done(S, order, k + 1) = g[1 .. k + 1]
  BY DEF Done
<1> HIDE DEF g
<1>3. k \in Nat /\ k + 1 \in 1 .. k + 1 /\ \A i \in 1 .. k + 1 : i \in 1 .. n
  OBVIOUS
<1>4. 1 .. k + 1 \in SUBSET (1 .. n) /\ 1 .. k + 1 # {}
  BY <1>3
<1>5. Max(1 .. k + 1) = k + 1 /\ (1 .. k + 1) \ {Max(1 .. k + 1)} = 1 .. k
  BY <1>3, MaxSegment
<1>6. g[1 .. k + 1] = Step(S, order, g, 1 .. k + 1)
  BY <1>1, <1>4
<1> QED
  BY <1>2, <1>4, <1>5, <1>6 DEF Step

\* Calls at places 1 to m, executed alone, return what they do when the others
\* follow.
LEMMA PrefixAlone ==
  ASSUME NEW S, Len(S) \in Nat, NEW m \in 0 .. Len(S), NEW i \in 1 .. m
  PROVE  ExecInOrder(Programs, S, [k \in 1 .. m |-> k]).results[i]
           = Exec(Programs, S).results[i]
<1> DEFINE n == Len(S)
           part == [k \in 1 .. m |-> k]
           whole == [k \in 1 .. n |-> k]
           A(k) == Done(S, part, k)
           B(k) == Done(S, whole, k)
           Same == {k \in Nat : k <= m => A(k) = B(k)}
           Kept == {k \in Nat : k <= n => /\ DOMAIN B(k).results = 1 .. n
                                          /\ k >= m => B(k).results[i] = B(m).results[i]}
<1>1. n \in Nat /\ m \in Nat /\ m <= n /\ DOMAIN part = 1 .. m /\ DOMAIN whole = 1 .. n
  OBVIOUS
<1>2. (\A k \in 1 .. m : part[k] = k) /\ (\A k \in 1 .. n : whole[k] = k)
  OBVIOUS
<1>3. A(0) = B(0) /\ B(0) = [state |-> Start, results |-> [k \in 1 .. n |-> NoResult]]
  <2> HIDE DEF part, whole
  <2> QED
    BY <1>1, DoneFirst
<1>4. \A k \in 0 .. m - 1 :
        A(k + 1) = [state |-> StateAfter(A(k).state, S[k + 1]),
                    results |-> [A(k).results EXCEPT ![k + 1] = ResultOf(A(k).state, S[k + 1])]]
  <2> HIDE DEF part, whole
  <2> SUFFICES ASSUME NEW k \in 0 .. m - 1
               PROVE  Done(S, part, k + 1) =
                        [state |-> StateAfter(Done(S, part, k).state, S[k + 1]),
                         results |-> [Done(S, part, k).results EXCEPT
                                        ![k + 1] = ResultOf(Done(S, part, k).state, S[k + 1])]]
    OBVIOUS
  <2>1. part[k + 1] = k + 1
    BY <1>1, <1>2
  <2>2. Done(S, part, k + 1) =
          [state |-> StateAfter(Done(S, part, k).state, S[part[k + 1]]),
           results |-> [Done(S, part, k).results EXCEPT
                          ![part[k + 1]] = ResultOf(Done(S, part, k).state, S[part[k + 1]])]]
    <3>1. DOMAIN part = 1 .. m /\ m \in Nat
      BY <1>1
    <3> QED
      BY <3>1, DoneNext
  <2> QED
    BY <2>1, <2>2, Zenon
<1>5. \A k \in 0 .. n - 1 :
        B(k + 1) = [state |-> StateAfter(B(k).state, S[k + 1]),
                    results |-> [B(k).results EXCEPT ![k + 1] = ResultOf(B(k).state, S[k + 1])]]
  <2> HIDE DEF part, whole
  <2> SUFFICES ASSUME NEW k \in 0 .. n - 1
               PROVE  Done(S, whole, k + 1) =
                        [state |-> StateAfter(Done(S, whole, k).state, S[k + 1]),
                         results |-> [Done(S, whole, k).results EXCEPT
                                        ![k + 1] = ResultOf(Done(S, whole, k).state, S[k + 1])]]
    OBVIOUS
  <2>1. whole[k + 1] = k + 1
    BY <1>1, <1>2
  <2>2. Done(S, whole, k + 1) =
          [state |-> StateAfter(Done(S, whole, k).state, S[whole[k + 1]]),
           results |-> [Done(S, whole, k).results EXCEPT
                          ![whole[k + 1]] = ResultOf(Done(S, whole, k).state, S[whole[k + 1]])]]
    <3>1. DOMAIN whole = 1 .. n /\ n \in Nat
      BY <1>1
    <3> QED
      BY <3>1, DoneNext
  <2> QED
    BY <2>1, <2>2, Zenon
<1>6. /\ ExecInOrder(Programs, S, part) = A(m)
      /\ Exec(Programs, S) = B(n)
  BY <1>1, ExecIsRuns DEF Exec, Done
<1> HIDE DEF n, A, B
<1>7. 0 \in Same
  BY <1>3
<1>8. ASSUME NEW k \in Nat, k \in Same PROVE k + 1 \in Same
  <2> SUFFICES ASSUME k + 1 <= m PROVE A(k + 1) = B(k + 1)
    OBVIOUS
  <2>1. k \in 0 .. m - 1 /\ k \in 0 .. n - 1 /\ A(k) = B(k)
    BY <1>1, <1>8
  <2> QED
    BY <1>4, <1>5, <2>1
<1>9. A(m) = B(m)
  <2> HIDE DEF Same
  <2>1. m \in Same
    BY <1>1, <1>7, <1>8, SetInduction
  <2> QED
    BY <1>1, <2>1 DEF Same
<1>10. 0 \in Kept
  <2>1. 0 >= m => m = 0
    BY <1>1
  <2> QED
    BY <1>3, <2>1
<1>11. ASSUME NEW k \in Nat, k \in Kept PROVE k + 1 \in Kept
  <2> SUFFICES ASSUME k + 1 <= n
               PROVE  /\ DOMAIN B(k + 1).results = 1 .. n
                      /\ k + 1 >= m => B(k + 1).results[i] = B(m).results[i]
    OBVIOUS
  <2>1. k \in 0 .. n - 1 /\ k <= n
    BY <1>1
  <2>2. DOMAIN B(k).results = 1 .. n /\ (k >= m => B(k).results[i] = B(m).results[i])
    BY <1>11, <2>1
  <2> DEFINE new == [B(k).results EXCEPT ![k + 1] = ResultOf(B(k).state, S[k + 1])]
  <2>3. B(k + 1).results = new
    <3> DEFINE st == StateAfter(B(k).state, S[k + 1])
    <3>1. B(k + 1) = [state |-> st, results |-> new]
      BY <1>5, <2>1
    <3> HIDE DEF new, st
    <3> QED
      BY <3>1
  <2>4. DOMAIN B(k + 1).results = 1 .. n
    BY <2>2, <2>3
  <2>5. CASE k + 1 = m
    BY <2>4, <2>5
  <2>6. CASE k >= m
    <3>1. i \in 1 .. n /\ i # k + 1
      BY <1>1, <2>6
    <3>2. B(k + 1).results[i] = B(k).results[i]
      BY <2>2, <2>3, <3>1
    <3> QED
      BY <2>2, <2>4, <2>6, <3>2
  <2>7. k + 1 >= m => k + 1 = m \/ k >= m
    BY <1>1
  <2> QED
    BY <2>4, <2>5, <2>6, <2>7
<1>12. B(n).results[i] = B(m).results[i]
  <2> HIDE DEF Kept
  <2>1. n \in Kept
    BY <1>1, <1>10, <1>11, SetInduction
  <2> QED
    BY <1>1, <2>1 DEF Kept
<1> QED
  BY <1>6, <1>9, <1>12

\* An optimizable call is one that is not mutating.
LEMMA OptimizableOrMutating == \A id : ~Mutating(id) => classify(id) \in Optimizable
  BY DEF Mutating, classify, Optimizable

\* Without a dependency in a sequence of one program, the reads come first.
LEMMA ReadsFirst ==
  ASSUME NEW S, Len(S) \in Nat, ~has_dependencies(S),
         \A i, j \in 1 .. Len(S) : S[i].program = S[j].program
  PROVE  \E m \in 0 .. Len(S) : Reads(S) = 1 .. m
<1> DEFINE n == Len(S)
           Late == {k \in 1 .. n : Mutating(S[k].id)}
<1>1. \A i, j \in 1 .. n : i < j /\ i \in Late => j \in Late
  <2> SUFFICES ASSUME NEW i \in 1 .. n, NEW j \in 1 .. n, i < j, Mutating(S[i].id),
                      ~Mutating(S[j].id)
               PROVE  FALSE
    OBVIOUS
  <2>1. classify(S[j].id) \in Optimizable
    BY OptimizableOrMutating
  <2>2. j \in Later(S, i)
    BY DEF Later
  <2>3. <<i, j>> \in check_sequence(S)
    BY <2>1, <2>2 DEF check_sequence
  <2> QED
    BY <2>3 DEF has_dependencies
<1>2. Reads(S) = {k \in 1 .. n : k \notin Late}
  BY DEF Reads
<1> HIDE DEF Late
<1>3. CASE Late \cap (1 .. n) = {}
  <2>1. Reads(S) = 1 .. n
    BY <1>2, <1>3
  <2> QED
    BY <2>1
<1>4. CASE Late \cap (1 .. n) # {}
  <2>1. PICK x \in Late \cap (1 .. n) : \A y \in Late \cap (1 .. n) : x <= y
    <3>1. Late \cap (1 .. n) \subseteq Nat
      OBVIOUS
    <3> QED
      BY <1>4, <3>1, LeastElement
  <2>2. \A k \in 1 .. n : k \notin Late <=> k < x
    BY <1>1, <2>1
  <2>3. Reads(S) = 1 .. x - 1
    BY <1>2, <2>1, <2>2
  <2>4. x - 1 \in 0 .. n
    BY <2>1
  <2> QED
    BY <2>3, <2>4
<1> QED
  BY <1>3, <1>4

\* If check_sequence reports nothing in a sequence of one program, every call
\* that is not mutating returns what it would had the mutating calls not been
\* made, for sequences of any length and any syscalls.
THEOREM DependenciesFound == Spec => []RawDependenciesFound
<1>1. Traced => RawDependenciesFound
  <2> SUFFICES ASSUME Traced, ~has_dependencies(sequence),
                      \A i, j \in 1 .. Len(sequence) : sequence[i].program = sequence[j].program,
                      NEW i \in Reads(sequence)
               PROVE  ExecInOrder(Programs, sequence, Ascending(Reads(sequence))).results[i]
                        = Exec(Programs, sequence).results[i]
    BY DEF RawDependenciesFound
  <2>1. Len(sequence) \in Nat
    BY DEF Traced
  <2>2. PICK m \in 0 .. Len(sequence) : Reads(sequence) = 1 .. m
    BY <2>1, ReadsFirst
  <2>3. m \in Nat /\ i \in 1 .. m
    BY <2>1, <2>2
  <2>4. Ascending(Reads(sequence)) = [k \in 1 .. m |-> k]
    BY <2>2, <2>3, AscendingSegment
  <2> QED
    BY <2>1, <2>3, <2>4, PrefixAlone
<1> QED
  BY <1>1, TracedAlways, PTL
-------------------------------------------------------------------------------
(* The batcher *)

\* The fold of batch_sysvar_reads over the pending calls.
GroupStep(S, g, s) == IF s = {} THEN <<>> ELSE WithCall(g[s \ {Max(s)}], S[Max(s)])

GroupFold(S) == CHOOSE g : g = [s \in SUBSET DOMAIN S |-> GroupStep(S, g, s)]

\* Groups is the fold.
LEMMA GroupsIsFold == \A S : Groups(S) = GroupFold(S)[DOMAIN S]
  BY Zenon DEF Groups, FoldLeft, MapThenFoldSet, GroupFold, GroupStep

\* Its equation has a solution, built up by the largest position.
LEMMA GroupsSolved ==
  ASSUME NEW S, NEW n \in Nat
  PROVE  \E g : g = [s \in SUBSET (1 .. n) |-> GroupStep(S, g, s)]
<1> DEFINE P == {m \in Nat : \E g : g = [s \in SUBSET (1 .. m) |-> GroupStep(S, g, s)]}
<1>1. 0 \in P
  <2> DEFINE g == [s \in SUBSET (1 .. 0) |-> <<>>]
  <2>1. \A s \in SUBSET (1 .. 0) : s = {}
    OBVIOUS
  <2>2. \A h : GroupStep(S, h, {}) = <<>>
    BY DEF GroupStep
  <2>3. g = [s \in SUBSET (1 .. 0) |-> GroupStep(S, g, s)]
    <3>1. \A s \in SUBSET (1 .. 0) : GroupStep(S, g, s) = <<>>
      BY <2>1, <2>2
    <3> QED
      BY <3>1
  <2> HIDE DEF g
  <2> QED
    BY <2>3
<1>2. ASSUME NEW m \in Nat, m \in P PROVE m + 1 \in P
  <2>1. PICK g : g = [s \in SUBSET (1 .. m) |-> GroupStep(S, g, s)]
    BY <1>2
  <2> DEFINE h == [s \in SUBSET (1 .. m + 1) |-> GroupStep(S, g, s)]
  <2>2. \A s \in SUBSET (1 .. m) : s \in SUBSET (1 .. m + 1)
    OBVIOUS
  <2>3. \A s \in SUBSET (1 .. m) : h[s] = g[s]
    BY <2>1, <2>2
  <2>4. ASSUME NEW s \in SUBSET (1 .. m + 1) PROVE GroupStep(S, h, s) = GroupStep(S, g, s)
    <3>1. CASE s = {}
      BY <3>1 DEF GroupStep
    <3>2. CASE s # {}
      <4>1. s \ {Max(s)} \in SUBSET (1 .. m)
        BY <3>2, WithoutMax
      <4>2. h[s \ {Max(s)}] = g[s \ {Max(s)}]
        BY <2>3, <4>1
      <4> HIDE DEF h
      <4> QED
        BY <3>2, <4>2 DEF GroupStep
    <3> QED
      BY <3>1, <3>2
  <2>5. h = [s \in SUBSET (1 .. m + 1) |-> GroupStep(S, h, s)]
    BY <2>4
  <2> HIDE DEF h
  <2> QED
    BY <2>5
<1> HIDE DEF P
<1>3. n \in P
  BY <1>1, <1>2, SetInduction
<1> QED
  BY <1>3 DEF P

\* The hashes q that the first k calls of S ask for under an id: each that is asked
\* for, and what was asked for first comes first, so none twice.
Wants(S, i, id, a) == S[i].id = id /\ S[i].arg = a

GroupOf(S, k, id, q) ==
  /\ q \in Seq(Args)
  /\ \A j \in 1 .. Len(q) : \E i \in 1 .. k : Wants(S, i, id, q[j])
  /\ \A i \in 1 .. k : S[i].id = id => \E j \in 1 .. Len(q) : q[j] = S[i].arg
  /\ \A j, l \in 1 .. Len(q) :
       j < l => \E i \in 1 .. k : /\ Wants(S, i, id, q[j])
                                  /\ \A h \in 1 .. i : ~Wants(S, h, id, q[l])

Grouped(S, k, groups) ==
  /\ \A id : id \in DOMAIN groups <=> can_batch(id) /\ \E i \in 1 .. k : S[i].id = id
  /\ \A id \in DOMAIN groups : GroupOf(S, k, id, groups[id])

\* An id that was not asked for has no hashes.
LEMMA NoGroup ==
  ASSUME NEW S, NEW k \in Nat, NEW id, \A i \in 1 .. k : S[i].id # id
  PROVE  GroupOf(S, k, id, <<>>)
  BY DEF GroupOf

\* A call of another id leaves the hashes of an id as they are.
LEMMA GroupKept ==
  ASSUME NEW S, NEW k \in Nat, NEW id, NEW q, GroupOf(S, k, id, q), S[k + 1].id # id
  PROVE  GroupOf(S, k + 1, id, q)
<1>1. \A i \in 1 .. k : i \in 1 .. k + 1
  OBVIOUS
<1>2. \A i \in 1 .. k + 1 : i \in 1 .. k \/ i = k + 1
  OBVIOUS
<1>3. \A j \in 1 .. Len(q) : \E i \in 1 .. k + 1 : Wants(S, i, id, q[j])
  BY <1>1 DEF GroupOf
<1>4. \A i \in 1 .. k + 1 : S[i].id = id => \E j \in 1 .. Len(q) : q[j] = S[i].arg
  BY <1>2 DEF GroupOf
<1>5. \A j, l \in 1 .. Len(q) :
        j < l => \E i \in 1 .. k + 1 : /\ Wants(S, i, id, q[j])
                                       /\ \A h \in 1 .. i : ~Wants(S, h, id, q[l])
  BY <1>1 DEF GroupOf
<1> QED
  BY <1>3, <1>4, <1>5 DEF GroupOf

\* A call of the id adds its hash, unless it is there.
LEMMA GroupGrows ==
  ASSUME NEW S, NEW k \in Nat, NEW id, NEW q, GroupOf(S, k, id, q),
         S[k + 1].id = id, S[k + 1].arg \in Args
  PROVE  GroupOf(S, k + 1, id, WithHash(q, S[k + 1].arg))
<1> DEFINE a == S[k + 1].arg
           n == Len(q)
<1>1. q \in Seq(Args) /\ n \in Nat /\ a \in Args
  BY DEF GroupOf
<1>2. \A i \in 1 .. k : i \in 1 .. k + 1
  OBVIOUS
<1>3. \A i \in 1 .. k + 1 : i \in 1 .. k \/ i = k + 1
  OBVIOUS
<1>4. k + 1 \in 1 .. k + 1 /\ Wants(S, k + 1, id, a)
  BY DEF Wants
<1>5. /\ \A j \in 1 .. n : \E i \in 1 .. k : Wants(S, i, id, q[j])
      /\ \A i \in 1 .. k : S[i].id = id => \E j \in 1 .. n : q[j] = S[i].arg
      /\ \A j, l \in 1 .. n : j < l =>
           \E i \in 1 .. k : Wants(S, i, id, q[j]) /\ \A h \in 1 .. i : ~Wants(S, h, id, q[l])
  BY DEF GroupOf
<1>6. CASE \E j \in 1 .. n : q[j] = a
  <2>1. WithHash(q, a) = q
    BY <1>6 DEF WithHash, Contains
  <2>2. \A j \in 1 .. n : \E i \in 1 .. k + 1 : Wants(S, i, id, q[j])
    BY <1>2, <1>5
  <2>3. \A i \in 1 .. k + 1 : S[i].id = id => \E j \in 1 .. n : q[j] = S[i].arg
    BY <1>3, <1>5, <1>6
  <2>4. \A j, l \in 1 .. n : j < l =>
          \E i \in 1 .. k + 1 : Wants(S, i, id, q[j]) /\ \A h \in 1 .. i : ~Wants(S, h, id, q[l])
    BY <1>2, <1>5
  <2> QED
    BY <1>1, <2>1, <2>2, <2>3, <2>4 DEF GroupOf
<1>7. CASE ~\E j \in 1 .. n : q[j] = a
  <2> DEFINE r == Append(q, a)
  <2>1. WithHash(q, a) = r
    BY <1>7 DEF WithHash, Contains
  <2>2. /\ r \in Seq(Args) /\ Len(r) = n + 1 /\ r[n + 1] = a
        /\ \A j \in 1 .. n : r[j] = q[j]
    BY <1>1
  <2> HIDE DEF r
  <2>3. \A j \in 1 .. Len(r) : j \in 1 .. n \/ j = n + 1
    BY <1>1, <2>2
  <2>4. n + 1 \in 1 .. Len(r) /\ \A j \in 1 .. n : j \in 1 .. Len(r)
    BY <1>1, <2>2
  <2> HIDE DEF a, n
  <2>5. \A j \in 1 .. Len(r) : \E i \in 1 .. k + 1 : Wants(S, i, id, r[j])
    BY <1>2, <1>4, <1>5, <2>2, <2>3
  <2>6. \A i \in 1 .. k + 1 : S[i].id = id => \E j \in 1 .. Len(r) : r[j] = S[i].arg
    BY <1>3, <1>5, <2>2, <2>4 DEF a
  <2>7. \A h \in 1 .. k : ~Wants(S, h, id, a)
    BY <1>5, <1>7 DEF Wants
  <2>8. ASSUME NEW j \in 1 .. Len(r), NEW l \in 1 .. Len(r), j < l
        PROVE  \E i \in 1 .. k + 1 : /\ Wants(S, i, id, r[j])
                                     /\ \A h \in 1 .. i : ~Wants(S, h, id, r[l])
    <3>1. j \in 1 .. n
      BY <1>1, <2>2, <2>8
    <3>2. CASE l \in 1 .. n
      BY <1>2, <1>5, <2>2, <2>8, <3>1, <3>2
    <3>3. CASE l = n + 1
      <4>1. PICK i \in 1 .. k : Wants(S, i, id, q[j])
        BY <1>5, <3>1
      <4>2. \A h \in 1 .. i : h \in 1 .. k
        OBVIOUS
      <4>3. Wants(S, i, id, r[j]) /\ r[l] = a
        BY <2>2, <3>1, <3>3, <4>1
      <4> QED
        BY <1>2, <2>7, <4>2, <4>3
    <3> QED
      BY <2>3, <3>2, <3>3
  <2> QED
    BY <2>1, <2>2, <2>5, <2>6, <2>8 DEF GroupOf, a
<1> QED
  BY <1>6, <1>7

\* One call more keeps the groups as they should be.
LEMMA GroupedNext ==
  ASSUME NEW S, NEW k \in Nat, NEW groups, Grouped(S, k, groups), S[k + 1].arg \in Args
  PROVE  Grouped(S, k + 1, WithCall(groups, S[k + 1]))
<1> DEFINE p == S[k + 1]
           new == WithCall(groups, p)
<1>1. \A id : (\E i \in 1 .. k + 1 : S[i].id = id) <=> id = p.id \/ \E i \in 1 .. k : S[i].id = id
  <2>1. \A i \in 1 .. k + 1 : i \in 1 .. k \/ i = k + 1
    OBVIOUS
  <2>2. k + 1 \in 1 .. k + 1 /\ \A i \in 1 .. k : i \in 1 .. k + 1
    OBVIOUS
  <2> QED
    BY <2>1, <2>2
<1>2. CASE ~can_batch(p.id)
  <2>1. new = groups
    BY <1>2 DEF WithCall
  <2>2. \A id : id \in DOMAIN groups <=> can_batch(id) /\ \E i \in 1 .. k + 1 : S[i].id = id
    BY <1>1, <1>2 DEF Grouped
  <2>3. \A id \in DOMAIN groups : id # p.id
    BY <1>2 DEF Grouped
  <2>4. \A id \in DOMAIN groups : GroupOf(S, k + 1, id, groups[id])
    BY <2>3, GroupKept DEF Grouped
  <2> QED
    BY <2>1, <2>2, <2>4 DEF Grouped
<1>3. CASE can_batch(p.id)
  <2> DEFINE old == IF p.id \in DOMAIN groups THEN groups[p.id] ELSE <<>>
  <2>1. new = [id \in DOMAIN groups \cup {p.id} |->
                 IF id # p.id THEN groups[id] ELSE WithHash(old, p.arg)]
    BY <1>3, Zenon DEF WithCall
  <2>2. GroupOf(S, k, p.id, old)
    <3>1. CASE p.id \in DOMAIN groups
      BY <3>1 DEF Grouped
    <3>2. CASE p.id \notin DOMAIN groups
      <4>1. \A i \in 1 .. k : S[i].id # p.id
        BY <1>3, <3>2 DEF Grouped
      <4> QED
        BY <3>2, <4>1, NoGroup
    <3> QED
      BY <3>1, <3>2
  <2> HIDE DEF old
  <2>3. GroupOf(S, k + 1, p.id, WithHash(old, p.arg))
    BY <2>2, GroupGrows
  <2>4. DOMAIN new = DOMAIN groups \cup {p.id}
    BY <2>1
  <2>5. new[p.id] = WithHash(old, p.arg) /\ \A id \in DOMAIN groups : id # p.id => new[id] = groups[id]
    BY <2>1
  <2> HIDE DEF new, p
  <2>6. \A id : id \in DOMAIN new <=> can_batch(id) /\ \E i \in 1 .. k + 1 : S[i].id = id
    BY <1>1, <1>3, <2>4 DEF Grouped
  <2>7. ASSUME NEW id \in DOMAIN new PROVE GroupOf(S, k + 1, id, new[id])
    <3>1. CASE id = p.id
      BY <2>3, <2>5, <3>1
    <3>2. CASE id # p.id
      <4>1. GroupOf(S, k, id, groups[id]) /\ new[id] = groups[id]
        BY <2>4, <2>5, <3>2 DEF Grouped
      <4> QED
        BY <3>2, <4>1, GroupKept DEF p
    <3> QED
      BY <3>1, <3>2
  <2>8. Grouped(S, k + 1, new)
    BY <2>6, <2>7 DEF Grouped
  <2> QED
    BY <2>8 DEF new, p
<1> QED
  BY <1>2, <1>3

\* No hash is twice in a group.
LEMMA GroupApart ==
  ASSUME NEW S, NEW n \in Nat, NEW id, NEW q, GroupOf(S, n, id, q),
         NEW j \in 1 .. Len(q), NEW l \in 1 .. Len(q), q[j] = q[l]
  PROVE  j = l
<1>1. Len(q) \in Nat
  BY DEF GroupOf
<1>2. \A a, b \in 1 .. Len(q) : a < b => q[a] # q[b]
  <2> SUFFICES ASSUME NEW a \in 1 .. Len(q), NEW b \in 1 .. Len(q), a < b, q[a] = q[b]
               PROVE  FALSE
    OBVIOUS
  <2>1. PICK i \in 1 .. n : Wants(S, i, id, q[a]) /\ \A h \in 1 .. i : ~Wants(S, h, id, q[b])
    BY DEF GroupOf
  <2>2. i \in 1 .. i
    OBVIOUS
  <2> QED
    BY <2>1, <2>2
<1>3. j < l \/ l < j \/ j = l
  BY <1>1
<1> QED
  BY <1>2, <1>3

\* So Groups has, under each batchable id that was asked for, its hashes.
LEMMA GroupsRight ==
  ASSUME NEW S \in Seq(Calls)
  PROVE  Grouped(S, Len(S), Groups(S))
<1> DEFINE n == Len(S)
           g == GroupFold(S)
           P == {k \in Nat : k <= n => Grouped(S, k, g[1 .. k])}
<1>1. n \in Nat /\ DOMAIN S = 1 .. n /\ \A k \in 1 .. n : S[k].arg \in Args
  <2>1. n \in Nat /\ DOMAIN S = 1 .. n /\ \A k \in 1 .. n : S[k] \in Calls
    OBVIOUS
  <2>2. \A call \in Calls : call.arg \in Args
    BY DEF Calls
  <2> QED
    BY <2>1, <2>2
<1> HIDE DEF n
<1>2. \E h : h = [s \in SUBSET (1 .. n) |-> GroupStep(S, h, s)]
  BY <1>1, GroupsSolved
<1>3. g = [s \in SUBSET (1 .. n) |-> GroupStep(S, g, s)]
  BY <1>1, <1>2 DEF GroupFold
<1> HIDE DEF g
<1>4. \A s \in SUBSET (1 .. n) : g[s] = GroupStep(S, g, s)
  BY <1>3
<1>5. 0 \in P
  <2>1. 1 .. 0 = {} /\ {} \in SUBSET (1 .. n)
    OBVIOUS
  <2>2. g[1 .. 0] = <<>>
    BY <1>4, <2>1 DEF GroupStep
  <2>3. Grouped(S, 0, <<>>)
    BY <2>1 DEF Grouped
  <2> QED
    BY <2>2, <2>3
<1>6. ASSUME NEW k \in Nat, k \in P PROVE k + 1 \in P
  <2> SUFFICES ASSUME k + 1 <= n PROVE Grouped(S, k + 1, g[1 .. k + 1])
    OBVIOUS
  <2>1. k + 1 \in 1 .. k + 1 /\ k + 1 \in 1 .. n /\ \A i \in 1 .. k + 1 : i \in 1 .. n
    BY <1>1
  <2>2. 1 .. k + 1 \in SUBSET (1 .. n) /\ 1 .. k + 1 # {}
    BY <2>1
  <2>3. g[1 .. k + 1] = WithCall(g[1 .. k], S[k + 1])
    BY <1>4, <2>2, MaxSegment DEF GroupStep
  <2>4. Grouped(S, k, g[1 .. k])
    BY <1>1, <1>6
  <2>5. S[k + 1].arg \in Args
    BY <1>1, <2>1
  <2> QED
    BY <2>3, <2>4, <2>5, GroupedNext
<1> HIDE DEF P
<1>7. n \in P
  BY <1>1, <1>5, <1>6, SetInduction
<1>8. Grouped(S, n, g[1 .. n])
  BY <1>1, <1>7 DEF P
<1> QED
  BY <1>1, <1>8, GroupsIsFold DEF g, n

\* The batches are a batch per group, by ascending id, with the group's hashes.
BatchedAs(batches, ids, groups, c) ==
  /\ ids \in [1 .. c -> DOMAIN groups] /\ Rises(ids, c)
  /\ \A id \in DOMAIN groups : id \in Nat /\ \E b \in 1 .. c : ids[b] = id
  /\ \A f : f \in Places(batches) <=>
              \E b \in 1 .. c : \E k \in 1 .. Len(groups[ids[b]]) : f = <<b, k>>
  /\ \A b \in 1 .. c : \A k \in 1 .. Len(groups[ids[b]]) :
       Fetched(batches, <<b, k>>) = <<ids[b], groups[ids[b]][k]>>

\* That is what batch_sysvar_reads gives out.
LEMMA BatchesRight ==
  ASSUME NEW S \in Seq(Calls)
  PROVE  \E c \in Nat : \E ids, groups :
           Grouped(S, Len(S), groups) /\ BatchedAs(batch_sysvar_reads(S), ids, groups, c)
<1> DEFINE groups == Groups(S)
           D == DOMAIN groups
           c == Cardinality(D)
           ids == Ascending(D)
           batches == batch_sysvar_reads(S)
           batch(b) == [syscall_ids |-> [k \in 1 .. Len(groups[ids[b]]) |-> ids[b]],
                        args_hashes |-> groups[ids[b]]]
<1>1. Grouped(S, Len(S), groups)
  BY GroupsRight
<1>2. D \subseteq 1 .. 9
  BY <1>1 DEF Grouped, can_batch
<1>3. c \in Nat /\ ids \in [1 .. c -> D] /\ Rises(ids, c)
  <2> HIDE DEF D
  <2> QED
    BY <1>2, AscendingRises
<1>4. \A id \in D : id \in Nat /\ \E b \in 1 .. c : ids[b] = id
  <2>1. IsFiniteSet(D)
    <3> HIDE DEF D
    <3>1. 1 \in Int /\ 9 \in Int
      OBVIOUS
    <3>2. IsFiniteSet(1 .. 9)
      BY <3>1, FS_Interval
    <3> QED
      BY <1>2, <3>2, FS_Subset
  <2>2. IsFiniteSet(1 .. c) /\ Cardinality(1 .. c) = c
    BY <1>3, FS_Interval
  <2>3. \A a, b \in 1 .. c : ids[a] = ids[b] => a = b
    <3>1. \A a \in 1 .. c : ids[a] \in Nat
      BY <1>2, <1>3
    <3> HIDE DEF ids, c
    <3> QED
      BY <1>3, <3>1, RisesApart
  <2>4. ids \in Injection(1 .. c, D)
    <3> HIDE DEF ids, c, D
    <3> QED
      BY <1>3, <2>3 DEF Injection, IsInjective
  <2>5. ids \in Surjection(1 .. c, D)
    <3> HIDE DEF ids, D
    <3> QED
      BY <2>1, <2>2, <2>4, FS_Injection DEF c
  <2>6. \A id \in D : id \in Nat
    BY <1>2
  <2> QED
    BY <2>5, <2>6 DEF Surjection
<1>5. Len(ids) = c
  <2> HIDE DEF ids, c, D
  <2> QED
    BY <1>3
<1>6. batches = [b \in 1 .. c |-> batch(b)]
  <2>1. batches = [b \in 1 .. Len(ids) |-> batch(b)]
    BY Zenon DEF batch_sysvar_reads, SortedIds
  <2> QED
    BY <1>5, <2>1, Zenon
<1> HIDE DEF groups, c, ids, batches
<1>7. /\ Len(batches) = c
      /\ \A b \in 1 .. c : batches[b] = batch(b)
  BY <1>3, <1>6
<1>8. \A b \in 1 .. c : batches[b].args_hashes = groups[ids[b]]
  BY <1>7
<1>9. \A f : f \in Places(batches) <=>
               \E b \in 1 .. c : \E k \in 1 .. Len(groups[ids[b]]) : f = <<b, k>>
  <2> DEFINE row(b) == {<<b, k>> : k \in 1 .. Len(groups[ids[b]])}
  <2>1. Places(batches) = UNION {row(b) : b \in 1 .. c}
    BY <1>7, <1>8 DEF Places
  <2>2. \A f, b : f \in row(b) <=> \E k \in 1 .. Len(groups[ids[b]]) : f = <<b, k>>
    OBVIOUS
  <2> HIDE DEF row
  <2>3. \A f : f \in Places(batches) <=> \E b \in 1 .. c : f \in row(b)
    BY <2>1
  <2> QED
    BY <2>2, <2>3, Zenon
<1>10. \A b \in 1 .. c : \A k \in 1 .. Len(groups[ids[b]]) :
         Fetched(batches, <<b, k>>) = <<ids[b], groups[ids[b]][k]>>
  <2> SUFFICES ASSUME NEW b \in 1 .. c, NEW k \in 1 .. Len(groups[ids[b]])
               PROVE  Fetched(batches, <<b, k>>) = <<ids[b], groups[ids[b]][k]>>
    OBVIOUS
  <2>1. batches[b].syscall_ids[k] = ids[b] /\ batches[b].args_hashes[k] = groups[ids[b]][k]
    BY <1>7
  <2> QED
    BY <2>1 DEF Fetched
<1>11. BatchedAs(batches, ids, groups, c)
  BY <1>3, <1>4, <1>9, <1>10, Zenon DEF BatchedAs
<1> QED
  BY <1>1, <1>3, <1>11, Zenon DEF batches

\* The sysvar reads of the registry are the known ids that can be batched.
LEMMA KnownBatchable == \A id \in KnownIds : get_class(id) = "SysvarRead" <=> can_batch(id)
  BY DEF KnownIds, get_class, can_batch, SysvarIds, CLOCK, RENT, EPOCH_SCHEDULE, FEES,
     SLOT_HASHES, STAKE_HISTORY, LogIds, CryptoIds, MemoryIds, GET_RETURN_DATA, INVOKE_SIGNED,
     SET_RETURN_DATA, PANIC, ABORT

\* Every pending sysvar read is answered by exactly one fetch, and nothing is
\* fetched that no call asks for, however many calls are pending.
THEOREM FetchingOnce == Spec => []FetchedOnce
<1>1. Traced => FetchedOnce
  <2> SUFFICES ASSUME Traced PROVE FetchedOnce
    OBVIOUS
  <2> DEFINE S == sequence
             batches == batch_sysvar_reads(S)
             answers(i) == {f \in Places(batches) : Asks(S, i, Fetched(batches, f))}
  <2>0. S \in Seq(Calls)
    BY DEF Traced
  <2>c. PICK c \in Nat : \E ids, groups :
                             Grouped(S, Len(S), groups) /\ BatchedAs(batches, ids, groups, c)
    BY <2>0, BatchesRight
  <2>g. PICK ids, groups : Grouped(S, Len(S), groups) /\ BatchedAs(batches, ids, groups, c)
    BY <2>c
  <2>1. /\ Grouped(S, Len(S), groups)
        /\ ids \in [1 .. c -> DOMAIN groups] /\ Rises(ids, c)
        /\ \A id \in DOMAIN groups : id \in Nat /\ \E b \in 1 .. c : ids[b] = id
        /\ \A f : f \in Places(batches) <=>
                    \E b \in 1 .. c : \E k \in 1 .. Len(groups[ids[b]]) : f = <<b, k>>
        /\ \A b \in 1 .. c : \A k \in 1 .. Len(groups[ids[b]]) :
             Fetched(batches, <<b, k>>) = <<ids[b], groups[ids[b]][k]>>
    BY <2>g DEF BatchedAs
  <2> HIDE DEF S, batches
  <2>2. \A id \in DOMAIN groups : GroupOf(S, Len(S), id, groups[id])
    BY <2>1 DEF Grouped
  <2>3. ASSUME NEW f \in Places(batches)
        PROVE  \E i \in 1 .. Len(S) : f \in answers(i)
    <3>1. PICK b \in 1 .. c : \E k \in 1 .. Len(groups[ids[b]]) : f = <<b, k>>
      BY <2>1
    <3>1k. PICK k \in 1 .. Len(groups[ids[b]]) : f = <<b, k>>
      BY <3>1
    <3>2. ids[b] \in DOMAIN groups
      BY <2>1
    <3>3. PICK i \in 1 .. Len(S) : Wants(S, i, ids[b], groups[ids[b]][k])
      BY <2>2, <3>2 DEF GroupOf
    <3>4. Fetched(batches, f) = <<ids[b], groups[ids[b]][k]>>
      BY <2>1, <3>1k
    <3>5. Asks(S, i, Fetched(batches, f))
      BY <3>3, <3>4 DEF Asks, Wants
    <3> QED
      BY <3>5
  <2>4. ASSUME NEW i \in 1 .. Len(S), S[i].id \in KnownIds, get_class(S[i].id) = "SysvarRead"
        PROVE  Cardinality(answers(i)) = 1
    <3> DEFINE id == S[i].id
               q == groups[id]
    <3>1. id \in DOMAIN groups
      BY <2>1, <2>4, KnownBatchable DEF Grouped
    <3>2. PICK b \in 1 .. c : ids[b] = id
      BY <2>1, <3>1
    <3>3. GroupOf(S, Len(S), id, q)
      BY <2>2, <3>1
    <3>4. PICK k \in 1 .. Len(q) : q[k] = S[i].arg
      BY <3>3 DEF GroupOf
    <3>5. <<b, k>> \in answers(i)
      <4>0. k \in 1 .. Len(groups[ids[b]]) /\ groups[ids[b]][k] = S[i].arg
        BY <3>2, <3>4
      <4>1. <<b, k>> \in Places(batches)
        BY <2>1, <4>0
      <4>2. Fetched(batches, <<b, k>>) = <<ids[b], groups[ids[b]][k]>>
        BY <2>1, <4>0
      <4>3. Asks(S, i, Fetched(batches, <<b, k>>))
        BY <3>2, <4>0, <4>2 DEF Asks
      <4> QED
        BY <4>1, <4>3
    <3>6. ASSUME NEW f \in answers(i) PROVE f = <<b, k>>
      <4>1. f \in Places(batches) /\ Asks(S, i, Fetched(batches, f))
        OBVIOUS
      <4>2. PICK b2 \in 1 .. c : \E k2 \in 1 .. Len(groups[ids[b2]]) : f = <<b2, k2>>
        BY <2>1, <4>1
      <4>2k. PICK k2 \in 1 .. Len(groups[ids[b2]]) : f = <<b2, k2>>
        BY <4>2
      <4>3. ids[b2] = id /\ groups[ids[b2]][k2] = S[i].arg
        BY <2>1, <4>1, <4>2k DEF Asks
      <4>4. b2 = b
        <5>1. (\A a \in 1 .. c : ids[a] \in Nat) /\ Rises(ids, c)
          BY <2>1
        <5>2. ids[b2] = ids[b]
          BY <3>2, <4>3
        <5> QED
          BY <5>1, <5>2, RisesApart
      <4>5. k2 \in 1 .. Len(q) /\ q[k2] = q[k]
        BY <3>4, <4>2k, <4>3
      <4>6. k2 = k
        BY <3>3, <4>5, GroupApart
      <4> QED
        BY <4>2k, <4>4, <4>6
    <3>7. answers(i) = {<<b, k>>}
      BY <3>5, <3>6
    <3> HIDE DEF answers
    <3> QED
      BY <3>7, FS_Singleton
  <2>5. ASSUME NEW i \in 1 .. Len(S), S[i].id \in KnownIds, get_class(S[i].id) # "SysvarRead"
        PROVE  Cardinality(answers(i)) = 0
    <3>1. S[i].id \notin DOMAIN groups
      BY <2>1, <2>5, KnownBatchable DEF Grouped
    <3>2. ASSUME NEW f \in answers(i) PROVE FALSE
      <4>1. f \in Places(batches) /\ Asks(S, i, Fetched(batches, f))
        OBVIOUS
      <4>2. PICK b \in 1 .. c : \E k \in 1 .. Len(groups[ids[b]]) : f = <<b, k>>
        BY <2>1, <4>1
      <4>2k. PICK k \in 1 .. Len(groups[ids[b]]) : f = <<b, k>>
        BY <4>2
      <4>3. ids[b] = S[i].id /\ ids[b] \in DOMAIN groups
        BY <2>1, <4>1, <4>2k DEF Asks
      <4> QED
        BY <3>1, <4>3
    <3>3. answers(i) = {}
      BY <3>2
    <3> HIDE DEF answers
    <3> QED
      BY <3>3, FS_EmptySet
  <2> QED
    BY <2>3, <2>4, <2>5, Zenon DEF FetchedOnce, S, batches
<1> QED
  BY <1>1, TracedAlways, PTL

\* Batches are given out by ascending id, and the fetches of an id in the order in
\* which they were first asked for.
THEOREM BatchOrder == Spec => []BatchesDeterministic
<1>1. Traced => BatchesDeterministic
  <2> SUFFICES ASSUME Traced PROVE BatchesDeterministic
    OBVIOUS
  <2> DEFINE S == sequence
             batches == batch_sysvar_reads(S)
             later(f, g) == \E i \in 1 .. Len(S) : /\ Asks(S, i, Fetched(batches, f))
                                                   /\ \A j \in 1 .. i : ~Asks(S, j, Fetched(batches, g))
  <2>0. S \in Seq(Calls)
    BY DEF Traced
  <2>c. PICK c \in Nat : \E ids, groups :
                             Grouped(S, Len(S), groups) /\ BatchedAs(batches, ids, groups, c)
    BY <2>0, BatchesRight
  <2>g. PICK ids, groups : Grouped(S, Len(S), groups) /\ BatchedAs(batches, ids, groups, c)
    BY <2>c
  <2>1. /\ Grouped(S, Len(S), groups)
        /\ ids \in [1 .. c -> DOMAIN groups] /\ Rises(ids, c)
        /\ \A id \in DOMAIN groups : id \in Nat /\ \E b \in 1 .. c : ids[b] = id
        /\ \A f : f \in Places(batches) <=>
                    \E b \in 1 .. c : \E k \in 1 .. Len(groups[ids[b]]) : f = <<b, k>>
        /\ \A b \in 1 .. c : \A k \in 1 .. Len(groups[ids[b]]) :
             Fetched(batches, <<b, k>>) = <<ids[b], groups[ids[b]][k]>>
    BY <2>g DEF BatchedAs
  <2> HIDE DEF S, batches
  <2>2. ASSUME NEW f \in Places(batches), NEW g \in Places(batches), Before(f, g)
        PROVE  \/ Fetched(batches, f)[1] < Fetched(batches, g)[1]
               \/ Fetched(batches, f)[1] = Fetched(batches, g)[1] /\ later(f, g)
    <3>1. PICK a \in 1 .. c : \E j \in 1 .. Len(groups[ids[a]]) : f = <<a, j>>
      BY <2>1
    <3>1k. PICK j \in 1 .. Len(groups[ids[a]]) : f = <<a, j>>
      BY <3>1
    <3>2. PICK b \in 1 .. c : \E k \in 1 .. Len(groups[ids[b]]) : g = <<b, k>>
      BY <2>1
    <3>2k. PICK k \in 1 .. Len(groups[ids[b]]) : g = <<b, k>>
      BY <3>2
    <3>3. /\ Fetched(batches, f) = <<ids[a], groups[ids[a]][j]>>
          /\ Fetched(batches, g) = <<ids[b], groups[ids[b]][k]>>
      BY <2>1, <3>1k, <3>2k
    <3>4. a < b \/ (a = b /\ j < k)
      BY <2>2, <3>1k, <3>2k DEF Before
    <3>5. CASE a < b
      <4>1. ids[a] < ids[b]
        BY <2>1, <3>5 DEF Rises
      <4> QED
        BY <3>3, <4>1
    <3>6. CASE a = b /\ j < k
      <4> DEFINE id == ids[a]
                 q == groups[id]
      <4>1. GroupOf(S, Len(S), id, q)
        BY <2>1 DEF Grouped
      <4>2. j \in 1 .. Len(q) /\ k \in 1 .. Len(q)
        BY <3>6
      <4>3. PICK i \in 1 .. Len(S) : /\ Wants(S, i, id, q[j])
                                     /\ \A h \in 1 .. i : ~Wants(S, h, id, q[k])
        <5> HIDE DEF id, q
        <5> QED
          BY <3>6, <4>1, <4>2 DEF GroupOf
      <4>4. Fetched(batches, f) = <<id, q[j]>> /\ Fetched(batches, g) = <<id, q[k]>>
        BY <3>3, <3>6
      <4> HIDE DEF id, q
      <4>5. Asks(S, i, Fetched(batches, f)) /\ \A h \in 1 .. i : ~Asks(S, h, Fetched(batches, g))
        BY <4>3, <4>4 DEF Asks, Wants
      <4>6. later(f, g)
        BY <4>5
      <4>7. Fetched(batches, f)[1] = Fetched(batches, g)[1]
        BY <4>4
      <4> QED
        BY <4>6, <4>7
    <3> QED
      BY <3>4, <3>5, <3>6
  <2> QED
    BY <2>2, Zenon DEF BatchesDeterministic, S, batches
<1> QED
  BY <1>1, TracedAlways, PTL
===============================================================================
