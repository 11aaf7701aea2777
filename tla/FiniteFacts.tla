------------------------------ MODULE FiniteFacts -----------------------------
(***************************************************************************)
(* Facts that the proofs of several components need and that no library    *)
(* states in a form the provers can use: induction over the naturals,      *)
(* stated with a set in the place of a predicate, and how counts and sums  *)
(* over a finite set change when a function changes at one argument.       *)
(***************************************************************************)
EXTENDS Integers, Sequences, SequencesExt, FiniteSets, FiniteSetsExt,
        FiniteSetTheorems, WellFoundedInduction, TLAPS

\* The members of S that f maps to v, and how many they are.
Where(f, S, v) == {c \in S : f[c] = v}
Count(f, S, v) == Cardinality(Where(f, S, v))

\* The sum of f over S, as call_counts are summed up.
SumOver(f, S) == MapThenSumSet(LAMBDA x : f[x], S)

-------------------------------------------------------------------------------
(* Induction *)

\* Every set of naturals that is not empty has a least element.
LEMMA LeastElement ==
  ASSUME NEW T, T \subseteq Nat, T # {}
  PROVE  \E x \in T : \A y \in T : x <= y
<1> DEFINE R == {ss \in Nat \X Nat : ss[1] < ss[2]}
<1>1. IsWellFoundedOn(R, Nat)
  BY NatLessThanWellFounded DEF OpToRel
<1>2. PICK x \in T : \A y \in T : ~(<<y, x>> \in R)
  BY <1>1, WFMin
<1>3. ASSUME NEW y \in T PROVE x <= y
  <2>1. x \in Nat /\ y \in Nat /\ <<y, x>> \in Nat \X Nat
    OBVIOUS
  <2>2. ~(y < x)
    BY <1>2, <2>1
  <2> QED
    BY <2>1, <2>2
<1> QED
  BY <1>3

\* A set that has zero, and with every natural its successor, has all of them.
LEMMA SetInduction ==
  ASSUME NEW P, 0 \in P, \A n \in Nat : n \in P => n + 1 \in P
  PROVE  \A n \in Nat : n \in P
<1> SUFFICES ASSUME NEW n \in Nat, n \notin P PROVE FALSE
  OBVIOUS
<1> DEFINE T == {m \in Nat : m \notin P}
<1>1. PICK x \in T : \A y \in T : x <= y
  BY LeastElement
<1>2. x # 0 /\ x - 1 \in Nat
  BY <1>1
<1>3. x - 1 \in P
  BY <1>1, <1>2
<1> QED
  BY <1>1, <1>2, <1>3

-------------------------------------------------------------------------------
(* Counting *)

\* f and g agree on S except, perhaps, at c.
SameBut(f, g, S, c) == \A d \in S \ {c} : g[d] = f[d]

\* A function that changes at c only moves c from the count of its old value to
\* that of its new one.
LEMMA CountMoves ==
  ASSUME NEW S, IsFiniteSet(S), NEW f, NEW g, NEW c \in S, NEW v,
         SameBut(f, g, S, c)
  PROVE  /\ Count(f, S, v) \in Nat /\ Count(g, S, v) \in Nat
         /\ f[c] = v /\ g[c] # v => Count(g, S, v) = Count(f, S, v) - 1
         /\ f[c] # v /\ g[c] = v => Count(g, S, v) = Count(f, S, v) + 1
         /\ (f[c] = v <=> g[c] = v) => Count(g, S, v) = Count(f, S, v)
<1>1. IsFiniteSet(Where(f, S, v)) /\ IsFiniteSet(Where(g, S, v))
  BY FS_Subset DEF Where
<1>2. Count(f, S, v) \in Nat /\ Count(g, S, v) \in Nat
  BY <1>1, FS_CardinalityType DEF Count
<1>3. ASSUME f[c] = v, g[c] # v PROVE Count(g, S, v) = Count(f, S, v) - 1
  <2>1. Where(g, S, v) = Where(f, S, v) \ {c} /\ c \in Where(f, S, v)
    BY <1>3 DEF Where, SameBut
  <2> QED
    BY <1>1, <2>1, FS_RemoveElement DEF Count
<1>4. ASSUME f[c] # v, g[c] = v PROVE Count(g, S, v) = Count(f, S, v) + 1
  <2>1. Where(g, S, v) = Where(f, S, v) \cup {c} /\ c \notin Where(f, S, v)
    BY <1>4 DEF Where, SameBut
  <2> QED
    BY <1>1, <2>1, FS_AddElement DEF Count
<1>5. ASSUME f[c] = v <=> g[c] = v PROVE Count(g, S, v) = Count(f, S, v)
  <2>1. Where(g, S, v) = Where(f, S, v)
    BY <1>5 DEF Where, SameBut
  <2> QED
    BY <2>1 DEF Count
<1> QED
  BY <1>2, <1>3, <1>4, <1>5

\* If f is v nowhere the count is zero.
LEMMA CountNone ==
  ASSUME NEW S, NEW f, NEW v, \A c \in S : f[c] # v
  PROVE  Count(f, S, v) = 0
<1>1. Where(f, S, v) = {}
  BY DEF Where
<1> QED
  BY <1>1, FS_EmptySet DEF Count

-------------------------------------------------------------------------------
(* Sums: the equation of the fold, and how a sum changes with one summand *)

Pick(s) == CHOOSE x \in s : TRUE
SumStep(f, g, s) == IF s = {} THEN 0 ELSE f[Pick(s)] + g[s \ {Pick(s)}]
Partial(f, S) == CHOOSE g : g = [s \in SUBSET S |-> SumStep(f, g, s)]

\* The fold that SumOver stands for.
LEMMA SumIsPartial == \A f, S : SumOver(f, S) = Partial(f, S)[S]
  BY Zenon DEF SumOver, MapThenSumSet, MapThenFoldSet, Partial, SumStep, Pick

\* A member is picked, and what remains is smaller by one.
LEMMA PickSmaller ==
  ASSUME NEW s, IsFiniteSet(s), s # {}
  PROVE  /\ Pick(s) \in s /\ IsFiniteSet(s \ {Pick(s)})
         /\ Cardinality(s) \in Nat
         /\ Cardinality(s \ {Pick(s)}) = Cardinality(s) - 1
<1>1. Pick(s) \in s
  BY DEF Pick
<1> QED
  BY <1>1, FS_RemoveElement, FS_CardinalityType

\* The recursive equation has a solution, built up by the size of the subsets.
LEMMA PartialEquation ==
  ASSUME NEW S, IsFiniteSet(S), NEW f
  PROVE  Partial(f, S) = [s \in SUBSET S |-> SumStep(f, Partial(f, S), s)]
<1> DEFINE Small(n) == {s \in SUBSET S : Cardinality(s) <= n}
           Solves(g, n) == g = [s \in Small(n) |-> SumStep(f, g, s)]
           P == {n \in Nat : \E g : Solves(g, n)}
<1>1. \A s \in SUBSET S : IsFiniteSet(s) /\ Cardinality(s) \in Nat
  BY FS_Subset, FS_CardinalityType
<1>2. 0 \in P
  <2>1. \A s \in Small(0) : s = {}
    BY <1>1, FS_EmptySet
  <2>2. Solves([s \in Small(0) |-> 0], 0)
    BY <2>1 DEF SumStep
  <2> QED
    BY <2>2
<1>3. ASSUME NEW n \in Nat, n \in P PROVE n + 1 \in P
  <2>1. PICK g : Solves(g, n)
    BY <1>3
  <2> DEFINE h == [s \in Small(n + 1) |-> SumStep(f, g, s)]
  <2>2. ASSUME NEW s \in Small(n + 1) PROVE SumStep(f, g, s) = SumStep(f, h, s)
    <3>1. CASE s = {}
      BY <3>1 DEF SumStep
    <3>2. CASE s # {}
      <4> DEFINE u == s \ {Pick(s)}
      <4>1. u \in Small(n) /\ u \in Small(n + 1)
        BY <1>1, <3>2, PickSmaller
      <4>2. g[u] = SumStep(f, g, u)
        BY <2>1, <4>1
      <4>3. h[u] = SumStep(f, g, u)
        BY <4>1
      <4> QED
        BY <3>2, <4>2, <4>3 DEF SumStep
    <3> QED
      BY <3>1, <3>2
  <2>3. Solves(h, n + 1)
    BY <2>2
  <2> HIDE DEF h, Solves
  <2>4. \E k : Solves(k, n + 1)
    BY <2>3
  <2> QED
    BY <2>4
<1> HIDE DEF P
<1>4. Cardinality(S) \in P
  BY <1>1, <1>2, <1>3, SetInduction
<1>5. \E g : Solves(g, Cardinality(S))
  BY <1>4 DEF P
<1>6. Small(Cardinality(S)) = SUBSET S
  BY FS_Subset
<1>7. \E g : g = [s \in SUBSET S |-> SumStep(f, g, s)]
  BY <1>5, <1>6
<1> QED
  BY <1>7 DEF Partial

\* Adding one to one summand adds one to the sum, which is a natural.
LEMMA SumChanges ==
  ASSUME NEW S, IsFiniteSet(S), NEW f \in [S -> Nat], NEW x \in S
  PROVE  /\ SumOver(f, S) \in Nat
         /\ SumOver([f EXCEPT ![x] = @ + 1], S) = SumOver(f, S) + 1
<1> DEFINE g == [f EXCEPT ![x] = @ + 1]
           A == Partial(f, S)
           B == Partial(g, S)
           Agree(s) == /\ A[s] \in Nat
                       /\ B[s] = A[s] + (IF x \in s THEN 1 ELSE 0)
           P == {n \in Nat : \A s \in SUBSET S : Cardinality(s) = n => Agree(s)}
<1>1. \A s \in SUBSET S : IsFiniteSet(s) /\ Cardinality(s) \in Nat
  BY FS_Subset, FS_CardinalityType
<1>2. \A s \in SUBSET S : A[s] = SumStep(f, A, s) /\ B[s] = SumStep(g, B, s)
  <2> HIDE DEF g
  <2>1. /\ A = [s \in SUBSET S |-> SumStep(f, A, s)]
        /\ B = [s \in SUBSET S |-> SumStep(g, B, s)]
    BY PartialEquation
  <2> HIDE DEF A, B
  <2> QED
    BY <2>1
<1>3. g[x] = f[x] + 1 /\ \A y \in S \ {x} : g[y] = f[y]
  OBVIOUS
<1> HIDE DEF A, B, g
<1>4. 0 \in P
  <2>1. ASSUME NEW s \in SUBSET S, Cardinality(s) = 0 PROVE Agree(s)
    <3>1. s = {}
      BY <1>1, <2>1, FS_EmptySet
    <3> QED
      BY <1>2, <3>1 DEF SumStep
  <2> QED
    BY <2>1
<1>5. ASSUME NEW n \in Nat, n \in P PROVE n + 1 \in P
  <2> SUFFICES ASSUME NEW s \in SUBSET S, Cardinality(s) = n + 1 PROVE Agree(s)
    OBVIOUS
  <2> DEFINE y == Pick(s)
             u == s \ {y}
  <2>1. s # {}
    BY FS_EmptySet
  <2>2. y \in s /\ u \in SUBSET S /\ Cardinality(u) = n
    BY <1>1, <2>1, PickSmaller
  <2>3. A[s] = f[y] + A[u] /\ B[s] = g[y] + B[u]
    BY <1>2, <2>1 DEF SumStep
  <2>4. Agree(u)
    BY <1>5, <2>2
  <2>5. f[y] \in Nat /\ (y = x => x \notin u) /\ (y # x => (x \in s <=> x \in u))
    BY <2>2
  <2> HIDE DEF y, u
  <2> QED
    BY <1>3, <2>2, <2>3, <2>4, <2>5
<1> HIDE DEF P
<1>6. Cardinality(S) \in P
  BY <1>1, <1>4, <1>5, SetInduction
<1>7. Agree(S)
  BY <1>1, <1>6 DEF P
<1> QED
  BY <1>7, SumIsPartial DEF A, B, g

\* A sum of zeros is zero.
LEMMA SumOfZeros ==
  ASSUME NEW S, IsFiniteSet(S), NEW f, \A x \in S : f[x] = 0
  PROVE  SumOver(f, S) = 0
<1> DEFINE A == Partial(f, S)
           P == {n \in Nat : \A s \in SUBSET S : Cardinality(s) = n => A[s] = 0}
<1>1. \A s \in SUBSET S : IsFiniteSet(s) /\ Cardinality(s) \in Nat
  BY FS_Subset, FS_CardinalityType
<1>2. \A s \in SUBSET S : A[s] = SumStep(f, A, s)
  <2>1. A = [s \in SUBSET S |-> SumStep(f, A, s)]
    BY PartialEquation
  <2> HIDE DEF A
  <2> QED
    BY <2>1
<1> HIDE DEF A
<1>3. 0 \in P
  <2>1. ASSUME NEW s \in SUBSET S, Cardinality(s) = 0 PROVE A[s] = 0
    BY <1>1, <1>2, <2>1, FS_EmptySet DEF SumStep
  <2> QED
    BY <2>1
<1>4. ASSUME NEW n \in Nat, n \in P PROVE n + 1 \in P
  <2> SUFFICES ASSUME NEW s \in SUBSET S, Cardinality(s) = n + 1 PROVE A[s] = 0
    OBVIOUS
  <2>1. s # {}
    BY FS_EmptySet
  <2>2. Pick(s) \in S /\ s \ {Pick(s)} \in SUBSET S /\ Cardinality(s \ {Pick(s)}) = n
    BY <1>1, <2>1, PickSmaller
  <2> QED
    BY <1>2, <1>4, <2>1, <2>2 DEF SumStep
<1> HIDE DEF P
<1>5. Cardinality(S) \in P
  BY <1>1, <1>3, <1>4, SetInduction
<1> QED
  BY <1>1, <1>5, SumIsPartial DEF P, A

\* A sum of naturals is a natural.
LEMMA SumIsNat ==
  ASSUME NEW S, IsFiniteSet(S), NEW f \in [S -> Nat]
  PROVE  SumOver(f, S) \in Nat
<1>1. CASE S = {}
  <2>1. \A x \in S : f[x] = 0
    BY <1>1
  <2> QED
    BY <2>1, SumOfZeros
<1>2. CASE S # {}
  BY <1>2, SumChanges
<1> QED
  BY <1>1, <1>2

-------------------------------------------------------------------------------
(* Queues *)

\* What is appended to the second part is appended to the whole.
LEMMA AppendedLast ==
  ASSUME NEW S, NEW s \in Seq(S), NEW t \in Seq(S), NEW e \in S
  PROVE  s \o Append(t, e) = Append(s \o t, e)
  OBVIOUS

\* Moving the head of the second part to the end of the first leaves the whole.
LEMMA HeadMoved ==
  ASSUME NEW S, NEW s \in Seq(S), NEW t \in Seq(S), t # <<>>
  PROVE  Append(s, Head(t)) \o Tail(t) = s \o t
  OBVIOUS

-------------------------------------------------------------------------------
(* A sequence without the members of a set, by recursion on its prefixes *)

KeptStep(s, K, g, n) == IF n = 0 THEN <<>>
                        ELSE IF s[n] \in K THEN g[n - 1] ELSE Append(g[n - 1], s[n])
KeptOf(s, K) == CHOOSE g : g = [n \in 0 .. Len(s) |-> KeptStep(s, K, g, n)]
Filtered(s, K) == KeptOf(s, K)[Len(s)]

\* The recursive equation has a solution, built up by the length of the prefix.
LEMMA KeptEquation ==
  ASSUME NEW S, NEW s \in Seq(S), NEW K
  PROVE  KeptOf(s, K) = [n \in 0 .. Len(s) |-> KeptStep(s, K, KeptOf(s, K), n)]
<1> DEFINE Solves(g, n) == g = [m \in 0 .. n |-> KeptStep(s, K, g, m)]
           P == {n \in Nat : \E g : Solves(g, n)}
<1>1. 0 \in P
  <2>1. Solves([m \in 0 .. 0 |-> <<>>], 0)
    BY DEF KeptStep
  <2> QED
    BY <2>1
<1>2. ASSUME NEW n \in Nat, n \in P PROVE n + 1 \in P
  <2>1. PICK g : Solves(g, n)
    BY <1>2
  <2> DEFINE h == [m \in 0 .. n + 1 |-> KeptStep(s, K, g, m)]
  <2>2. ASSUME NEW m \in 0 .. n + 1 PROVE KeptStep(s, K, g, m) = KeptStep(s, K, h, m)
    <3>1. CASE m = 0
      BY <3>1 DEF KeptStep
    <3>2. CASE m # 0
      <4>1. m - 1 \in 0 .. n /\ m - 1 \in 0 .. n + 1
        BY <3>2
      <4>2. g[m - 1] = KeptStep(s, K, g, m - 1) /\ h[m - 1] = KeptStep(s, K, g, m - 1)
        BY <2>1, <4>1
      <4> QED
        BY <3>2, <4>2 DEF KeptStep
    <3> QED
      BY <3>1, <3>2
  <2>3. Solves(h, n + 1)
    BY <2>2
  <2> HIDE DEF h, Solves
  <2>4. \E k : Solves(k, n + 1)
    BY <2>3
  <2> QED
    BY <2>4
<1> HIDE DEF P
<1>3. Len(s) \in P
  BY <1>1, <1>2, SetInduction
<1>4. \E g : Solves(g, Len(s))
  BY <1>3 DEF P
<1> QED
  BY <1>4 DEF KeptOf

\* p is made of members of the first n of s that are not in K, in the order of
\* s: all of them, and fewer than n if one of the first n is in K.
PartOf(p, s, n, K) ==
  /\ Len(p) <= n
  /\ \A a \in 1 .. n : s[a] \in K => Len(p) < n
  /\ \A a \in 1 .. n : s[a] \notin K => \E b \in 1 .. Len(p) : p[b] = s[a]
  /\ \A b \in 1 .. Len(p) : p[b] \notin K /\ \E a \in 1 .. n : p[b] = s[a]
  /\ \A b, c \in 1 .. Len(p) : b < c =>
       \E a, d \in 1 .. n : a < d /\ p[b] = s[a] /\ p[c] = s[d]

\* Leaving out the members of K keeps the others, in their order.
LEMMA FilteredPart ==
  ASSUME NEW S, NEW s \in Seq(S), NEW K
  PROVE  Filtered(s, K) \in Seq(S) /\ PartOf(Filtered(s, K), s, Len(s), K)
<1> DEFINE g == KeptOf(s, K)
           P == {n \in Nat : n <= Len(s) => g[n] \in Seq(S) /\ PartOf(g[n], s, n, K)}
<1>1. \A n \in 0 .. Len(s) : g[n] = KeptStep(s, K, g, n)
  <2>1. g = [n \in 0 .. Len(s) |-> KeptStep(s, K, g, n)]
    BY KeptEquation
  <2> HIDE DEF g
  <2> QED
    BY <2>1
<1> HIDE DEF g
<1>2. 0 \in P
  <2>1. g[0] = <<>>
    BY <1>1 DEF KeptStep
  <2>2. PartOf(<<>>, s, 0, K) /\ <<>> \in Seq(S)
    BY DEF PartOf
  <2> QED
    BY <2>1, <2>2
<1>3. ASSUME NEW n \in Nat, n \in P PROVE n + 1 \in P
  <2> SUFFICES ASSUME n + 1 <= Len(s)
               PROVE  g[n + 1] \in Seq(S) /\ PartOf(g[n + 1], s, n + 1, K)
    OBVIOUS
  <2> DEFINE p == g[n]
             q == g[n + 1]
  <2>1. p \in Seq(S) /\ PartOf(p, s, n, K) /\ n \in Nat
    BY <1>3
  <2>2. s[n + 1] \in S
    OBVIOUS
  <2>3. q = IF s[n + 1] \in K THEN p ELSE Append(p, s[n + 1])
    <3>1. n + 1 \in 0 .. Len(s) /\ n + 1 # 0 /\ (n + 1) - 1 = n
      OBVIOUS
    <3> QED
      BY <1>1, <3>1 DEF KeptStep
  <2> HIDE DEF p, q
  <2>4. CASE s[n + 1] \in K
    <3>1. q = p /\ Len(p) \in Nat
      BY <2>1, <2>3, <2>4
    <3>2. Len(p) <= n /\ Len(p) < n + 1
      BY <2>1, <3>1 DEF PartOf
    <3>3. \A a \in 1 .. n + 1 : s[a] \notin K => a \in 1 .. n
      BY <2>4
    <3>4. \A a \in 1 .. n : a \in 1 .. n + 1
      OBVIOUS
    <3>5. \A b, c \in 1 .. Len(p) : b < c =>
             \E a, d \in 1 .. n + 1 : a < d /\ p[b] = s[a] /\ p[c] = s[d]
      BY <2>1, <3>4 DEF PartOf
    <3> QED
      BY <2>1, <3>1, <3>2, <3>3, <3>4, <3>5 DEF PartOf, q
  <2>5. CASE s[n + 1] \notin K
    <3>1. /\ q \in Seq(S) /\ Len(q) = Len(p) + 1 /\ q[Len(p) + 1] = s[n + 1]
          /\ \A b \in 1 .. Len(p) : q[b] = p[b]
          /\ Len(p) \in Nat
      BY <2>1, <2>2, <2>3, <2>5
    <3>2. Len(q) <= n + 1
      BY <2>1, <3>1 DEF PartOf
    <3>3. ASSUME NEW a \in 1 .. n + 1, s[a] \in K PROVE Len(q) < n + 1
      <4>1. a \in 1 .. n
        BY <2>5, <3>3
      <4> QED
        BY <2>1, <3>1, <3>3, <4>1 DEF PartOf
    <3>4. ASSUME NEW a \in 1 .. n + 1, s[a] \notin K PROVE \E b \in 1 .. Len(q) : q[b] = s[a]
      <4>1. CASE a = n + 1
        BY <3>1, <4>1
      <4>2. CASE a \in 1 .. n
        <5>1. PICK b \in 1 .. Len(p) : p[b] = s[a]
          BY <2>1, <3>4, <4>2 DEF PartOf
        <5> QED
          BY <3>1, <5>1
      <4> QED
        BY <4>1, <4>2
    <3>5. ASSUME NEW b \in 1 .. Len(q)
          PROVE  q[b] \notin K /\ \E a \in 1 .. n + 1 : q[b] = s[a]
      <4>1. CASE b = Len(p) + 1
        BY <2>5, <3>1, <4>1
      <4>2. CASE b \in 1 .. Len(p)
        <5>1. p[b] \notin K /\ \E a \in 1 .. n : p[b] = s[a]
          BY <2>1, <4>2 DEF PartOf
        <5> QED
          BY <3>1, <4>2, <5>1
      <4> QED
        BY <3>1, <4>1, <4>2
    <3>6. ASSUME NEW b \in 1 .. Len(q), NEW c \in 1 .. Len(q), b < c
          PROVE  \E a, d \in 1 .. n + 1 : a < d /\ q[b] = s[a] /\ q[c] = s[d]
      <4>0. b \in 1 .. Len(p)
        BY <3>1, <3>6
      <4>1. CASE c = Len(p) + 1
        <5>1. PICK a \in 1 .. n : p[b] = s[a]
          BY <2>1, <4>0 DEF PartOf
        <5>2. a < n + 1 /\ q[b] = s[a] /\ q[c] = s[n + 1] /\ a \in 1 .. n + 1
          BY <3>1, <4>0, <4>1, <5>1
        <5> QED
          BY <5>2
      <4>2. CASE c \in 1 .. Len(p)
        <5>1. PICK a \in 1 .. n, d \in 1 .. n : a < d /\ p[b] = s[a] /\ p[c] = s[d]
          BY <2>1, <3>6, <4>0, <4>2 DEF PartOf
        <5>2. a \in 1 .. n + 1 /\ d \in 1 .. n + 1
          OBVIOUS
        <5> QED
          BY <3>1, <4>0, <4>2, <5>1, <5>2
      <4> QED
        BY <3>1, <4>1, <4>2
    <3> QED
      BY <3>1, <3>2, <3>3, <3>4, <3>5, <3>6 DEF PartOf, p, q
  <2> QED
    BY <2>4, <2>5 DEF q
<1> HIDE DEF P
<1>4. Len(s) \in P
  BY <1>2, <1>3, SetInduction
<1> QED
  BY <1>4 DEF P, g, Filtered

\* No two places of s hold the same.
Distinct(s) == \A m, n \in 1 .. Len(s) : m < n => s[m] # s[n]

\* The first n members of a sequence without repetitions are n.
LEMMA DistinctCount ==
  ASSUME NEW S, NEW s \in Seq(S), Distinct(s), NEW n \in 0 .. Len(s)
  PROVE  /\ IsFiniteSet({s[m] : m \in 1 .. n})
         /\ Cardinality({s[m] : m \in 1 .. n}) = n
<1> DEFINE T == {s[m] : m \in 1 .. n}
           f == [m \in 1 .. n |-> s[m]]
<1>1. f \in Surjection(1 .. n, T)
  BY DEF Surjection
<1>2. f \in Injection(1 .. n, T)
  <2>1. ASSUME NEW a \in 1 .. n, NEW b \in 1 .. n, f[a] = f[b] PROVE a = b
    <3>1. a \in 1 .. Len(s) /\ b \in 1 .. Len(s) /\ s[a] = s[b]
      BY <2>1
    <3>2. ~(a < b) /\ ~(b < a)
      BY <3>1 DEF Distinct
    <3> QED
      BY <3>2
  <2>2. f \in [1 .. n -> T]
    OBVIOUS
  <2> HIDE DEF f, T
  <2> QED
    BY <2>1, <2>2 DEF Injection, IsInjective
<1>3. n \in Int /\ 1 \in Int /\ IsFiniteSet(1 .. n) /\ Cardinality(1 .. n) = n
  <2>1. /\ IsFiniteSet(1 .. n)
        /\ Cardinality(1 .. n) = IF 1 > n THEN 0 ELSE n - 1 + 1
    BY FS_Interval
  <2> QED
    BY <2>1
<1> HIDE DEF f, T
<1>4. IsFiniteSet(T) /\ Cardinality(T) = n
  BY <1>1, <1>2, <1>3, FS_Surjection
<1> QED
  BY <1>4 DEF T

-------------------------------------------------------------------------------
(* Maxima, by which FoldLeft goes through a sequence from its end *)

\* A set of bounded numbers that is not empty has its maximum as a member.
LEMMA MaxBounded ==
  ASSUME NEW n \in Nat, NEW s, s \subseteq 0 .. n, s # {}
  PROVE  Max(s) \in s /\ \A y \in s : Max(s) >= y
<1> DEFINE T == {m \in Nat : \A y \in s : y <= m}
<1>1. n \in T
  OBVIOUS
<1>2. PICK x \in T : \A y \in T : x <= y
  BY <1>1, LeastElement
<1>3. x \in s
  <2> SUFFICES ASSUME x \notin s PROVE FALSE
    OBVIOUS
  <2>1. \A y \in s : y <= x - 1 /\ y >= 0
    BY <1>2
  <2>2. x - 1 \in Nat
    <3>1. PICK y : y \in s
      OBVIOUS
    <3>2. y \in Nat /\ y <= x - 1 /\ x \in Nat
      BY <1>2, <2>1, <3>1
    <3> QED
      BY <3>2
  <2>3. x - 1 \in T
    BY <2>1, <2>2
  <2> QED
    BY <1>2, <2>3
<1>4. \A y \in s : x >= y
  BY <1>2
<1> QED
  BY <1>3, <1>4 DEF Max

\* So has a set of positions.
LEMMA MaxMember ==
  ASSUME NEW n \in Nat, NEW s, s \subseteq 1 .. n, s # {}
  PROVE  Max(s) \in s /\ \A y \in s : Max(s) >= y
<1>1. s \subseteq 0 .. n
  OBVIOUS
<1> QED
  BY <1>1, MaxBounded

\* The maximum of an initial segment is its end, and without it the segment ends
\* one earlier.
LEMMA MaxSegment ==
  ASSUME NEW n \in Nat
  PROVE  /\ Max(1 .. n + 1) = n + 1
         /\ (1 .. n + 1) \ {Max(1 .. n + 1)} = 1 .. n
<1>1. Max(1 .. n + 1) \in 1 .. n + 1 /\ \A y \in 1 .. n + 1 : Max(1 .. n + 1) >= y
  <2>1. 1 .. n + 1 \subseteq 1 .. n + 1 /\ 1 .. n + 1 # {} /\ n + 1 \in Nat
    OBVIOUS
  <2> QED
    BY <2>1, MaxMember
<1>2. Max(1 .. n + 1) = n + 1
  BY <1>1
<1> QED
  BY <1>2

\* A set of positions without the largest is one of earlier positions.
LEMMA WithoutMax ==
  ASSUME NEW m \in Nat, NEW s \in SUBSET (1 .. m + 1), s # {}
  PROVE  s \ {Max(s)} \in SUBSET (1 .. m)
<1> DEFINE x == Max(s)
<1>1. m + 1 \in Nat /\ s \subseteq 1 .. m + 1
  OBVIOUS
<1>2. x \in s /\ \A y \in s : x >= y
  BY <1>1, MaxMember
<1> HIDE DEF x
<1>3. \A y \in s : y # x => y \in 1 .. m
  BY <1>1, <1>2
<1> QED
  BY <1>3 DEF x

\* An injection of a segment into itself reaches all of it.
LEMMA InjectionOnto ==
  ASSUME NEW n \in Nat, NEW p \in [1 .. n -> 1 .. n], IsInjective(p), NEW y \in 1 .. n
  PROVE  \E x \in 1 .. n : p[x] = y
<1>1. p \in Injection(1 .. n, 1 .. n)
  BY DEF Injection
<1>2. IsFiniteSet(1 .. n)
  BY FS_Interval
<1>3. p \in Surjection(1 .. n, 1 .. n)
  BY <1>1, <1>2, FS_Injection
<1> QED
  BY <1>3 DEF Surjection
===============================================================================
