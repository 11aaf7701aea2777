----------------------------- MODULE AnomalyProofs ----------------------------
(***************************************************************************)
(* Proofs about Anomaly: its type invariant, its three safety properties   *)
(* and its action property, for windows of any length up to MaxLen and for *)
(* any number of them.                                                     *)
(*                                                                         *)
(* None of the properties is inductive: they compare a baseline with the   *)
(* whole history of the windows it was taught, and the baseline keeps only *)
(* averages of it.  AnomalyInd says what the averages keep (Kept): which   *)
(* syscalls were ever seen; that the frequency of one is never less than a *)
(* tenth of its share in some window that called it, because a blend is at *)
(* least a tenth of what is blended in and a window without the syscall    *)
(* leaves its frequency alone; that no depth was greater than the maximum; *)
(* and that the mean delay is at least a tenth of the only delay, if there *)
(* was one only.  The rest is arithmetic on the thresholds: the divergence *)
(* is a sum over the events of a window, bounded by induction over its     *)
(* places from a bound of each surprise, which LnAssumption gives.         *)
(***************************************************************************)
EXTENDS Anomaly, FiniteFacts

\* Division by a constant.
LEMMA DivBounds ==
  ASSUME NEW x \in Nat, NEW d \in Nat, d > 0
  PROVE  /\ x \div d \in Nat
         /\ d * (x \div d) <= x
         /\ x < d * (x \div d) + d
  OBVIOUS

\* Division by ten, the weight of the moving average.
LEMMA DivTen ==
  ASSUME NEW x \in Nat
  PROVE  /\ x \div 10 \in Nat
         /\ 10 * (x \div 10) <= x
         /\ x < 10 * (x \div 10) + 10
  OBVIOUS

\* What the moving average does.
LEMMA BlendBounds ==
  ASSUME NEW old \in Nat, NEW new \in Nat
  PROVE  /\ Blend(old, new) \in Nat
         /\ new \div 10 \in Nat
         /\ Blend(old, new) >= new \div 10
         /\ old <= Unit /\ new <= Unit => Blend(old, new) <= Unit
         /\ Blend(old, new) >= old \/ Blend(old, new) >= new
<1>1. 9 * old + new \in Nat
  OBVIOUS
<1>2. /\ Blend(old, new) \in Nat
      /\ 10 * Blend(old, new) <= 9 * old + new
      /\ 9 * old + new < 10 * Blend(old, new) + 10
  BY <1>1, DivTen DEF Blend
<1>3. /\ new \div 10 \in Nat /\ 10 * (new \div 10) <= new
  BY DivTen
<1> QED
  BY <1>2, <1>3 DEF Unit

\* The shares are the numbers up to Unit.
LEMMA InUnit ==
  ASSUME NEW x
  PROVE  /\ x \in 0 .. Unit => x \in Nat /\ x <= Unit
         /\ x \in Nat /\ x <= Unit => x \in 0 .. Unit
         /\ x \in 1 .. Unit => x \in Nat /\ x <= Unit /\ x >= 1
         /\ x \in Nat /\ x <= Unit /\ x >= 1 => x \in 1 .. Unit
<1>1. \A n, y \in Nat : y <= n => y \in 0 .. n
  OBVIOUS
<1>2. \A n, y \in Nat : y <= n /\ y >= 1 => y \in 1 .. n
  OBVIOUS
<1>3. \A n \in Nat : \A y \in 0 .. n : y \in Nat /\ y <= n
  OBVIOUS
<1>4. \A n \in Nat : \A y \in 1 .. n : y \in Nat /\ y <= n /\ y >= 1
  OBVIOUS
<1>5. Unit \in Nat
  BY DEF Unit
<1> QED
  BY <1>1, <1>2, <1>3, <1>4, <1>5, Zenon

-------------------------------------------------------------------------------
(* Windows *)

\* A window that is not empty has some events, not more than MaxLen.
LEMMA WindowShape ==
  ASSUME NEW w \in Windows
  PROVE  /\ w \in Seq([id : Nat, depth : 0 .. 255, ts : Nat])
         /\ Len(w) \in Nat /\ (w # <<>> => Len(w) \in 1 .. MaxLen)
         /\ \A i \in 1 .. Len(w) : w[i].id \in Nat /\ w[i].depth \in 0 .. 255 /\ w[i].ts \in Nat
<1> DEFINE E == [id : Nat, depth : 0 .. 255, ts : Nat]
<1>1. w \in Seq(E) /\ Len(w) <= MaxLen /\ MaxLen \in Nat
  BY AnomalyAssumption
<1>2. \A e \in E : e.id \in Nat /\ e.depth \in 0 .. 255 /\ e.ts \in Nat
  OBVIOUS
<1> HIDE DEF E
<1>3. Len(w) \in Nat /\ (w # <<>> => Len(w) # 0) /\ \A i \in 1 .. Len(w) : w[i] \in E
  BY <1>1
<1>4. w # <<>> => Len(w) \in 1 .. MaxLen
  BY <1>1, <1>3
<1>5. \A i \in 1 .. Len(w) : w[i].id \in Nat /\ w[i].depth \in 0 .. 255 /\ w[i].ts \in Nat
  BY <1>2, <1>3
<1>6. w \in Seq([id : Nat, depth : 0 .. 255, ts : Nat])
  BY <1>1 DEF E
<1> QED
  BY <1>3, <1>4, <1>5, <1>6

\* The places of a window are finitely many.
LEMMA Places == ASSUME NEW w \in Windows
                PROVE  IsFiniteSet(1 .. Len(w)) /\ Cardinality(1 .. Len(w)) = Len(w)
<1>1. Len(w) \in Nat
  BY WindowShape
<1> DEFINE n == Len(w)
<1> HIDE DEF n
<1>2. n \in Nat
  BY <1>1 DEF n
<1>3. IsFiniteSet(1 .. n) /\ Cardinality(1 .. n) = IF 1 > n THEN 0 ELSE n - 1 + 1
  BY <1>2, FS_Interval
<1>4. Cardinality(1 .. n) = n
  BY <1>2, <1>3
<1> QED
  BY <1>3, <1>4 DEF n

\* The syscalls of a window are finitely many.
LEMMA WindowIds == ASSUME NEW w \in Windows PROVE IsFiniteSet(IdsOf(w))
<1> DEFINE f == [i \in 1 .. Len(w) |-> w[i].id]
<1>1. f \in Surjection(1 .. Len(w), IdsOf(w))
  BY DEF Surjection, IdsOf
<1> HIDE DEF f
<1> QED
  BY <1>1, Places, FS_Surjection

\* The calls of some syscalls are some of the events, and at least one if the
\* window has one of them.
LEMMA CallsBounds ==
  ASSUME NEW w \in Windows, NEW ids
  PROVE  /\ CallsOf(w, ids) \in Nat /\ CallsOf(w, ids) <= Len(w)
         /\ ids \cap IdsOf(w) # {} => CallsOf(w, ids) >= 1
<1> DEFINE At == {i \in 1 .. Len(w) : w[i].id \in ids}
<1>1. At \subseteq 1 .. Len(w) /\ CallsOf(w, ids) = Cardinality(At)
  BY DEF CallsOf
<1>2. ids \cap IdsOf(w) # {} => At # {}
  BY DEF IdsOf
<1> HIDE DEF At
<1>3. IsFiniteSet(At) /\ Cardinality(At) <= Len(w)
  <2>1. IsFiniteSet(1 .. Len(w)) /\ Cardinality(1 .. Len(w)) = Len(w)
    BY Places
  <2>2. IsFiniteSet(At) /\ Cardinality(At) <= Cardinality(1 .. Len(w))
    BY <1>1, <2>1, FS_Subset
  <2> QED
    BY <2>1, <2>2
<1>4. Cardinality(At) \in Nat /\ (At # {} => Cardinality(At) # 0)
  BY <1>3, FS_CardinalityType, FS_EmptySet
<1> QED
  BY <1>1, <1>2, <1>3, <1>4

\* A product grows with its factor.
LEMMA Grows == \A n, a, b \in Nat : a <= b => n * a <= n * b /\ n * a \in Nat /\ n * b \in Nat
  OBVIOUS

\* What c of n events are, in the unit of the shares.
LEMMA Portion ==
  ASSUME NEW n \in Nat, n > 0, 10 * n <= 20000, NEW c \in Nat, c <= n
  PROVE  /\ (c * 20000) \div n \in Nat /\ (c * 20000) \div n <= 20000
         /\ c >= 1 => (c * 20000) \div n >= 10
<1> DEFINE x == c * 20000
           q == x \div n
<1>1. x \in Nat /\ x <= 20000 * n /\ (c >= 1 => x >= 20000)
  OBVIOUS
<1> HIDE DEF x
<1>2. q \in Nat /\ n * q <= x /\ x < n * q + n
  BY <1>1, DivBounds
<1> HIDE DEF q
<1>3. ASSUME q > 20000 PROVE FALSE
  <2>1. q >= 20001
    BY <1>2, <1>3
  <2>2. n * 20001 <= n * q
    BY <1>2, <2>1, Grows
  <2> QED
    BY <1>1, <1>2, <2>2
<1>4. ASSUME c >= 1, q < 10 PROVE FALSE
  <2>1. q <= 9
    BY <1>2, <1>4
  <2>2. n * q <= n * 9
    BY <1>2, <2>1, Grows
  <2> QED
    BY <1>1, <1>2, <1>4, <2>2
<1> QED
  BY <1>2, <1>3, <1>4 DEF q, x

\* A share is a share, and that of a syscall of the window is not lost by rounding
\* a tenth of it down.
LEMMA Shares ==
  ASSUME NEW w \in Windows, w # <<>>, NEW ids
  PROVE  /\ Share(w, ids) \in 0 .. Unit
         /\ ids \cap IdsOf(w) # {} => Share(w, ids) >= 10
<1> DEFINE n == Len(w)
           c == CallsOf(w, ids)
           s == Share(w, ids)
<1>1. n \in Nat /\ n > 0 /\ 10 * n <= 20000
  <2>1. n \in 1 .. MaxLen /\ MaxLen \in Nat /\ 10 * MaxLen <= 20000
    BY WindowShape, AnomalyAssumption DEF Unit
  <2> HIDE DEF n
  <2> QED
    BY <2>1
<1>2. c \in Nat /\ c <= n /\ (ids \cap IdsOf(w) # {} => c >= 1)
  BY CallsBounds
<1>3. s = (c * 20000) \div n
  BY DEF Share, Unit
<1> HIDE DEF n, c, s
<1>4. s \in Nat /\ s <= 20000 /\ (c >= 1 => s >= 10)
  BY <1>1, <1>2, <1>3, Portion
<1>5. s \in 0 .. Unit
  <2>1. s \in Nat /\ s <= Unit
    BY <1>4 DEF Unit
  <2> QED
    BY <2>1, InUnit
<1> QED
  BY <1>2, <1>4, <1>5 DEF s

-------------------------------------------------------------------------------
(* Sums *)

\* SumFunction adds up numbers.
LEMMA SumFunctionIsNat ==
  ASSUME NEW S, IsFiniteSet(S), NEW f \in [S -> Nat]
  PROVE  SumFunction(f) \in Nat
<1>1. SumFunction(f) = Partial(f, DOMAIN f)[DOMAIN f]
  BY Zenon DEF SumFunction, SumFunctionOnSet, FoldFunctionOnSet, MapThenFoldSet, Partial,
     SumStep, Pick
<1>2. DOMAIN f = S
  OBVIOUS
<1>3. SumFunction(f) = SumOver(f, S)
  BY <1>1, <1>2, SumIsPartial
<1> QED
  BY <1>3, SumIsNat

\* The mean delay of a window of several events.
LEMMA MeanDelayIsNat ==
  ASSUME NEW w \in Windows, Len(w) > 1
  PROVE  MeanDelay(w) \in Nat
<1> DEFINE apart(i) == IF w[i].ts < w[i + 1].ts THEN w[i + 1].ts - w[i].ts
                       ELSE w[i].ts - w[i + 1].ts
           n == Len(w) - 1
           f == [i \in 1 .. n |-> apart(i)]
<1>1. Len(w) \in Nat /\ \A i \in 1 .. Len(w) : w[i].ts \in Nat
  BY WindowShape
<1>2. n \in Nat /\ n > 0
  BY <1>1
<1>3. ASSUME NEW i \in 1 .. n PROVE apart(i) \in Nat
  <2>1. i \in 1 .. Len(w) /\ i + 1 \in 1 .. Len(w)
    BY <1>1
  <2>2. w[i].ts \in Nat /\ w[i + 1].ts \in Nat
    BY <1>1, <2>1
  <2> QED
    BY <2>2
<1>4. f \in [1 .. n -> Nat]
  BY <1>3
<1>5. MeanDelay(w) = (SumFunction(f) * Unit) \div n
  BY Zenon DEF MeanDelay
<1> HIDE DEF f, n
<1>6. IsFiniteSet(1 .. n)
  BY <1>2, FS_Interval
<1>7. SumFunction(f) \in Nat
  BY <1>4, <1>6, SumFunctionIsNat
<1>8. SumFunction(f) * Unit \in Nat
  BY <1>7 DEF Unit
<1>9. (SumFunction(f) * Unit) \div n \in Nat
  BY <1>2, <1>8, DivBounds
<1> QED
  BY <1>5, <1>9

-------------------------------------------------------------------------------
(* What a baseline keeps of the windows it was taught *)

\* The syscalls a history has called.
SeenIds(seen) == UNION {IdsOf(seen[k]) : k \in 1 .. Len(seen)}

\* A frequency is at least a tenth of the share in some window with the syscall.
FrequenciesKept(b, seen) ==
  /\ DOMAIN b.syscall_frequencies = SeenIds(seen) /\ IsFiniteSet(SeenIds(seen))
  /\ \A id \in SeenIds(seen) :
       /\ FrequencyOf(b, id) \in 1 .. Unit
       /\ \E k \in 1 .. Len(seen) : /\ id \in IdsOf(seen[k])
                                    /\ FrequencyOf(b, id) >= Share(seen[k], {id}) \div 10

\* No depth of the history is greater than the maximum.
DepthKept(b, seen) ==
  /\ b.max_cpi_depth \in 0 .. 255
  /\ \A k \in 1 .. Len(seen) : \A i \in 1 .. Len(seen[k]) : seen[k][i].depth <= b.max_cpi_depth

\* The mean is at least a tenth of the only delay.
DelayKept(b, seen) ==
  /\ b.mean_delay \in Nat
  /\ \A k : Several(seen) = {k} => b.mean_delay >= MeanDelay(seen[k]) \div 10

\* What the baseline b keeps of the history seen.
Kept(b, seen) ==
  /\ seen \in Seq(Windows)
  /\ FrequenciesKept(b, seen) /\ DepthKept(b, seen) /\ DelayKept(b, seen)
  /\ b.crypto_ratio \in 0 .. Unit

\* The history t is that of seen and one window more.
OneMore(t, seen, w) == t = Append(seen, w)

\* What one window more makes of a history.
LEMMA TaughtOne ==
  ASSUME NEW seen \in Seq(Windows), NEW w \in Windows, NEW t, OneMore(t, seen, w)
  PROVE  /\ t \in Seq(Windows) /\ Len(seen) \in Nat /\ Len(t) = Len(seen) + 1
         /\ \A k \in 1 .. Len(seen) : t[k] = seen[k]
         /\ t[Len(seen) + 1] = w
         /\ SeenIds(t) = SeenIds(seen) \cup IdsOf(w)
         /\ Several(t) = IF Len(w) > 1 THEN Several(seen) \cup {Len(seen) + 1} ELSE Several(seen)
<1> DEFINE n == Len(seen)
<1>1. /\ t \in Seq(Windows) /\ n \in Nat /\ Len(t) = n + 1
      /\ \A k \in 1 .. n : t[k] = seen[k]
      /\ t[n + 1] = w
  BY DEF OneMore
<1>2. \A k : k \in 1 .. Len(t) <=> k \in 1 .. n \/ k = n + 1
  BY <1>1
<1>3. SeenIds(t) = SeenIds(seen) \cup IdsOf(w)
  BY <1>1, <1>2 DEF SeenIds
<1>4. Several(t) = IF Len(w) > 1 THEN Several(seen) \cup {n + 1} ELSE Several(seen)
  BY <1>1, <1>2 DEF Several
<1> QED
  BY <1>1, <1>3, <1>4

\* A new baseline has been taught nothing.
LEMMA NewKept == Kept(NewBaseline, <<>>)
<1>1. SeenIds(<<>>) = {} /\ Several(<<>>) = {}
  BY DEF SeenIds, Several
<1>2. FrequenciesKept(NewBaseline, <<>>)
  <2>1. DOMAIN NewBaseline.syscall_frequencies = {}
    BY DEF NewBaseline
  <2> QED
    BY <1>1, <2>1, FS_EmptySet DEF FrequenciesKept
<1>3. DepthKept(NewBaseline, <<>>)
  BY DEF DepthKept, NewBaseline
<1>4. DelayKept(NewBaseline, <<>>)
  BY <1>1 DEF DelayKept, NewBaseline
<1>5. <<>> \in Seq(Windows) /\ NewBaseline.crypto_ratio \in 0 .. Unit
  BY DEF NewBaseline, Unit
<1> QED
  BY <1>2, <1>3, <1>4, <1>5 DEF Kept

\* The fields of a baseline that was taught a window.
LEMMA Updated ==
  ASSUME NEW b, NEW w, w # <<>>
  PROVE  LET u == update(b, w)
         IN  /\ DOMAIN u.syscall_frequencies = IdsOf(w) \cup DOMAIN b.syscall_frequencies
             /\ \A id \in IdsOf(w) :
                  FrequencyOf(u, id) = Blend(FrequencyOf(b, id), Share(w, {id}))
             /\ \A id : id \notin IdsOf(w) => FrequencyOf(u, id) = FrequencyOf(b, id)
             /\ u.mean_delay = NewDelay(b, w) /\ u.max_cpi_depth = NewDepth(b, w)
             /\ u.crypto_ratio = Blend(b.crypto_ratio, Share(w, CryptoIds))
<1> DEFINE u == update(b, w)
           F == NewFrequencies(b, w)
<1>1. /\ u.syscall_frequencies = F
      /\ u.mean_delay = NewDelay(b, w) /\ u.max_cpi_depth = NewDepth(b, w)
      /\ u.crypto_ratio = Blend(b.crypto_ratio, Share(w, CryptoIds))
  BY DEF update
<1>2. /\ DOMAIN F = IdsOf(w) \cup DOMAIN b.syscall_frequencies
      /\ \A id \in DOMAIN F :
           F[id] = IF id \in IdsOf(w) THEN Blend(FrequencyOf(b, id), Share(w, {id}))
                   ELSE FrequencyOf(b, id)
  BY DEF NewFrequencies, BlendedIds
<1> HIDE DEF u, F
<1>3. \A id : FrequencyOf(u, id) = IF id \in DOMAIN F THEN F[id] ELSE 0
  BY <1>1 DEF FrequencyOf
<1>4. \A id : id \notin DOMAIN F => FrequencyOf(b, id) = 0
  BY <1>2 DEF FrequencyOf
<1>5. \A id \in IdsOf(w) : FrequencyOf(u, id) = Blend(FrequencyOf(b, id), Share(w, {id}))
  BY <1>2, <1>3
<1>6. \A id : id \notin IdsOf(w) => FrequencyOf(u, id) = FrequencyOf(b, id)
  BY <1>2, <1>3, <1>4
<1> QED
  BY <1>1, <1>2, <1>5, <1>6 DEF u

\* The frequencies blend in the shares of a window.
LEMMA FrequenciesStay ==
  ASSUME NEW b, NEW seen, Kept(b, seen), NEW w \in Windows, w # <<>>,
         NEW t, OneMore(t, seen, w)
  PROVE  FrequenciesKept(update(b, w), t)
<1> DEFINE u == update(b, w)
           n == Len(seen)
<1>0. seen \in Seq(Windows) /\ FrequenciesKept(b, seen)
  BY DEF Kept
<1>1. /\ n \in Nat /\ Len(t) = n + 1 /\ t[n + 1] = w
      /\ \A k \in 1 .. n : t[k] = seen[k]
      /\ SeenIds(t) = SeenIds(seen) \cup IdsOf(w)
  BY <1>0, TaughtOne
<1>2. /\ DOMAIN u.syscall_frequencies = IdsOf(w) \cup DOMAIN b.syscall_frequencies
      /\ \A id \in IdsOf(w) : FrequencyOf(u, id) = Blend(FrequencyOf(b, id), Share(w, {id}))
      /\ \A id : id \notin IdsOf(w) => FrequencyOf(u, id) = FrequencyOf(b, id)
  BY Updated
<1> HIDE DEF u, n
<1>3. DOMAIN u.syscall_frequencies = SeenIds(t)
  BY <1>0, <1>1, <1>2 DEF FrequenciesKept
<1>4. IsFiniteSet(SeenIds(t))
  <2>1. IsFiniteSet(SeenIds(seen)) /\ IsFiniteSet(IdsOf(w))
    BY <1>0, WindowIds DEF FrequenciesKept
  <2>2. IsFiniteSet(SeenIds(seen) \cup IdsOf(w))
    BY <2>1, FS_Union
  <2> QED
    BY <1>1, <2>2
<1>5. ASSUME NEW id \in IdsOf(w)
      PROVE  /\ FrequencyOf(u, id) \in 1 .. Unit
             /\ FrequencyOf(u, id) >= Share(w, {id}) \div 10
  <2> DEFINE f == FrequencyOf(b, id)
             x == Share(w, {id})
             g == FrequencyOf(u, id)
  <2>1. f \in Nat /\ f <= Unit
    <3>1. CASE id \in SeenIds(seen)
      <4>1. f \in 1 .. Unit
        BY <1>0, <3>1 DEF FrequenciesKept
      <4> QED
        BY <4>1, InUnit
    <3>2. CASE id \notin SeenIds(seen)
      <4>1. f = 0
        BY <1>0, <3>2 DEF FrequenciesKept, FrequencyOf
      <4> QED
        BY <4>1 DEF Unit
    <3> QED
      BY <3>1, <3>2
  <2>2. x \in 0 .. Unit /\ x >= 10
    <3>1. {id} \cap IdsOf(w) # {}
      OBVIOUS
    <3> QED
      BY <3>1, Shares
  <2>3. g = Blend(f, x)
    BY <1>2
  <2> HIDE DEF f, x, g
  <2>4. x \in Nat /\ x <= Unit
    BY <2>2 DEF Unit
  <2>5. /\ g \in Nat /\ x \div 10 \in Nat /\ g >= x \div 10 /\ g <= Unit
    BY <2>1, <2>3, <2>4, BlendBounds
  <2>6. x < 10 * (x \div 10) + 10
    BY <2>4, DivTen
  <2>7. x \div 10 >= 1
    <3> DEFINE q == x \div 10
    <3>1. q \in Nat /\ x < 10 * q + 10 /\ x \in Nat /\ x >= 10
      BY <2>2, <2>4, <2>5, <2>6
    <3> HIDE DEF q
    <3>2. q >= 1
      BY <3>1
    <3> QED
      BY <3>2 DEF q
  <2>8. g >= 1
    BY <2>5, <2>7
  <2>9. g \in 1 .. Unit
    BY <2>5, <2>8, InUnit
  <2> QED
    BY <2>5, <2>9 DEF g, x
<1>6. ASSUME NEW id \in SeenIds(t)
      PROVE  /\ FrequencyOf(u, id) \in 1 .. Unit
             /\ \E k \in 1 .. Len(t) : /\ id \in IdsOf(t[k])
                                       /\ FrequencyOf(u, id) >= Share(t[k], {id}) \div 10
  <2>1. CASE id \in IdsOf(w)
    <3>1. n + 1 \in 1 .. Len(t) /\ t[n + 1] = w
      BY <1>1
    <3> QED
      BY <1>5, <2>1, <3>1
  <2>2. CASE id \notin IdsOf(w)
    <3>1. id \in SeenIds(seen) /\ FrequencyOf(u, id) = FrequencyOf(b, id)
      BY <1>1, <1>2, <2>2
    <3>2. PICK k \in 1 .. n : /\ id \in IdsOf(seen[k])
                              /\ FrequencyOf(b, id) >= Share(seen[k], {id}) \div 10
      BY <1>0, <3>1 DEF FrequenciesKept, n
    <3>3. k \in 1 .. Len(t) /\ t[k] = seen[k]
      BY <1>1
    <3>4. FrequencyOf(b, id) \in 1 .. Unit
      BY <1>0, <3>1 DEF FrequenciesKept
    <3> QED
      BY <3>1, <3>2, <3>3, <3>4
  <2> QED
    BY <2>1, <2>2
<1> QED
  BY <1>3, <1>4, <1>6 DEF FrequenciesKept, u

\* The depth does not fall.
LEMMA DepthStays ==
  ASSUME NEW b, NEW seen, Kept(b, seen), NEW w \in Windows, w # <<>>,
         NEW t, OneMore(t, seen, w)
  PROVE  DepthKept(update(b, w), t)
<1> DEFINE n == Len(seen)
           d == b.max_cpi_depth
           D == {d} \cup {w[i].depth : i \in 1 .. Len(w)}
<1>0. seen \in Seq(Windows) /\ DepthKept(b, seen)
  BY DEF Kept
<1>1. /\ n \in Nat /\ Len(t) = n + 1 /\ t[n + 1] = w
      /\ \A k \in 1 .. n : t[k] = seen[k]
  BY <1>0, TaughtOne
<1>2. update(b, w).max_cpi_depth = Max(D)
  BY Updated DEF NewDepth
<1>3. /\ d \in 0 .. 255 /\ \A i \in 1 .. Len(w) : w[i].depth \in 0 .. 255
  BY <1>0, WindowShape DEF DepthKept
<1>4. D \subseteq 0 .. 255 /\ D # {} /\ d \in D
  BY <1>3
<1>5. \A i \in 1 .. Len(w) : w[i].depth \in D
  OBVIOUS
<1> HIDE DEF D
<1>6. Max(D) \in D /\ \A y \in D : Max(D) >= y
  <2> DEFINE top == 255
  <2>1. top \in Nat /\ D \subseteq 0 .. top /\ D # {}
    BY <1>4
  <2> HIDE DEF top
  <2> QED
    BY <2>1, MaxBounded, Zenon
<1> DEFINE m == Max(D)
<1> HIDE DEF m
<1>7. m \in 0 .. 255 /\ m >= d /\ \A i \in 1 .. Len(w) : w[i].depth <= m
  <2>1. m \in D /\ \A y \in D : m >= y
    BY <1>6 DEF m
  <2>2. m \in 0 .. 255 /\ m >= d
    BY <1>4, <2>1, Zenon
  <2>3. ASSUME NEW i \in 1 .. Len(w) PROVE w[i].depth <= m
    <3> DEFINE e == w[i].depth
    <3>1. e \in 0 .. 255 /\ m >= e
      BY <1>3, <1>5, <2>1, Zenon
    <3> HIDE DEF e
    <3>2. e <= m
      BY <2>2, <3>1
    <3> QED
      BY <3>2 DEF e
  <2> QED
    BY <2>2, <2>3
<1>8. ASSUME NEW k \in 1 .. Len(t), NEW i \in 1 .. Len(t[k]) PROVE t[k][i].depth <= m
  <2>1. CASE k = n + 1
    BY <1>1, <1>7, <2>1
  <2>2. CASE k \in 1 .. n
    <3>1. t[k] = seen[k] /\ seen[k] \in Windows
      BY <1>0, <1>1, <2>2
    <3> DEFINE e == seen[k][i].depth
    <3>2. e <= d /\ e \in 0 .. 255
      BY <1>0, <2>2, <3>1, WindowShape DEF DepthKept
    <3>3. d \in 0 .. 255 /\ m \in 0 .. 255 /\ m >= d
      BY <1>3, <1>7
    <3> HIDE DEF d, e
    <3>4. e <= m
      BY <3>2, <3>3
    <3> QED
      BY <3>1, <3>4 DEF e
  <2> QED
    BY <1>1, <2>1, <2>2
<1> QED
  BY <1>2, <1>7, <1>8 DEF DepthKept, m

\* The delay moves only when a window teaches one.
LEMMA DelayStays ==
  ASSUME NEW b, NEW seen, Kept(b, seen), NEW w \in Windows, w # <<>>,
         NEW t, OneMore(t, seen, w)
  PROVE  DelayKept(update(b, w), t)
<1> DEFINE n == Len(seen)
           d == update(b, w).mean_delay
<1>0. seen \in Seq(Windows) /\ DelayKept(b, seen)
  BY DEF Kept
<1>1. /\ n \in Nat /\ t[n + 1] = w /\ \A k \in 1 .. n : t[k] = seen[k]
      /\ Several(t) = IF Len(w) > 1 THEN Several(seen) \cup {n + 1} ELSE Several(seen)
  BY <1>0, TaughtOne
<1>2. d = NewDelay(b, w)
  BY Updated
<1>3. CASE Len(w) > 1
  <2>1. MeanDelay(w) \in Nat /\ b.mean_delay \in Nat
    BY <1>0, <1>3, MeanDelayIsNat DEF DelayKept
  <2>2. d = Blend(b.mean_delay, MeanDelay(w))
    BY <1>2, <1>3 DEF NewDelay
  <2> HIDE DEF d
  <2>3. d \in Nat /\ d >= MeanDelay(w) \div 10
    BY <2>1, <2>2, BlendBounds
  <2>4. \A k : Several(t) = {k} => k = n + 1
    BY <1>1, <1>3
  <2> QED
    BY <1>1, <2>3, <2>4 DEF DelayKept, d
<1>4. CASE ~(Len(w) > 1)
  <2>1. d = b.mean_delay /\ Several(t) = Several(seen)
    BY <1>1, <1>2, <1>4 DEF NewDelay
  <2>2. ASSUME NEW k, Several(seen) = {k} PROVE t[k] = seen[k]
    <3>1. k \in 1 .. n
      BY <2>2 DEF Several
    <3> QED
      BY <1>1, <3>1
  <2> HIDE DEF d
  <2> QED
    BY <1>0, <2>1, <2>2 DEF DelayKept, d
<1> QED
  BY <1>3, <1>4

\* A window is taught.
LEMMA UpdateKept ==
  ASSUME NEW b, NEW seen, Kept(b, seen), NEW w \in Windows
  PROVE  Kept(update(b, w), Append(seen, w))
<1> DEFINE t == Append(seen, w)
<1>0. seen \in Seq(Windows) /\ b.crypto_ratio \in 0 .. Unit
  BY DEF Kept
<1>1. t \in Seq(Windows) /\ OneMore(t, seen, w)
  BY <1>0 DEF OneMore
<1>2. CASE w # <<>>
  <2>1. FrequenciesKept(update(b, w), t) /\ DepthKept(update(b, w), t) /\ DelayKept(update(b, w), t)
    BY <1>1, <1>2, FrequenciesStay, DepthStays, DelayStays
  <2>2. update(b, w).crypto_ratio = Blend(b.crypto_ratio, Share(w, CryptoIds))
    BY <1>2, Updated
  <2>3. /\ b.crypto_ratio \in Nat /\ b.crypto_ratio <= Unit
        /\ Share(w, CryptoIds) \in Nat /\ Share(w, CryptoIds) <= Unit
    BY <1>0, <1>2, Shares, InUnit
  <2>4. update(b, w).crypto_ratio \in 0 .. Unit
    BY <2>2, <2>3, BlendBounds, InUnit
  <2> QED
    BY <1>1, <2>1, <2>4 DEF Kept
<1>3. CASE w = <<>>
  <2> DEFINE n == Len(seen)
  <2>0. update(b, w) = b
    BY <1>3 DEF update
  <2>1. /\ n \in Nat /\ Len(t) = n + 1 /\ \A k \in 1 .. n : t[k] = seen[k]
        /\ t[n + 1] = w /\ SeenIds(t) = SeenIds(seen) \cup IdsOf(w)
        /\ Several(t) = IF Len(w) > 1 THEN Several(seen) \cup {n + 1} ELSE Several(seen)
    BY <1>0, <1>1, TaughtOne
  <2> HIDE DEF t
  <2>2. IdsOf(w) = {} /\ Len(w) = 0
    BY <1>3 DEF IdsOf
  <2>3. SeenIds(t) = SeenIds(seen) /\ Several(t) = Several(seen)
    BY <2>1, <2>2
  <2>4. FrequenciesKept(b, t)
    <3>1. \A k \in 1 .. n : k \in 1 .. Len(t) /\ t[k] = seen[k]
      BY <2>1
    <3> QED
      BY <2>3, <3>1 DEF Kept, FrequenciesKept
  <2>5. DepthKept(b, t)
    <3> SUFFICES ASSUME NEW k \in 1 .. Len(t), NEW i \in 1 .. Len(t[k])
                 PROVE  t[k][i].depth <= b.max_cpi_depth
      BY DEF Kept, DepthKept
    <3>1. CASE k = n + 1
      BY <2>1, <2>2, <3>1
    <3>2. CASE k \in 1 .. n
      BY <2>1, <3>2 DEF Kept, DepthKept
    <3> QED
      BY <2>1, <3>1, <3>2
  <2>6. DelayKept(b, t)
    <3>1. \A k : Several(seen) = {k} => t[k] = seen[k]
      BY <2>1 DEF Several
    <3> QED
      BY <2>3, <3>1 DEF Kept, DelayKept
  <2> QED
    BY <1>0, <1>1, <2>0, <2>4, <2>5, <2>6 DEF Kept, t
<1> QED
  BY <1>2, <1>3

-------------------------------------------------------------------------------
(* The inductive invariant *)

\* Every baseline is kept in what its program was taught; a program that was
\* taught nothing has none.
AnomalyInd ==
  /\ DOMAIN baselines = {p \in Programs : ingested[p] # <<>>}
  /\ ingested \in [Programs -> Seq(Windows)]
  /\ \A p \in Programs : Kept(BaselineOf(p), ingested[p])

\* It holds before anything is ingested.
LEMMA AnomalyInit == Init => AnomalyInd
<1> SUFFICES ASSUME Init PROVE AnomalyInd
  OBVIOUS
<1>1. DOMAIN baselines = {} /\ ingested = [p \in Programs |-> <<>>]
  BY DEF Init
<1>2. \A p \in Programs : BaselineOf(p) = NewBaseline /\ ingested[p] = <<>>
  BY <1>1 DEF BaselineOf
<1>3. \A p \in Programs : Kept(BaselineOf(p), ingested[p])
  BY <1>2, NewKept
<1> QED
  BY <1>1, <1>2, <1>3 DEF AnomalyInd

\* ingest_window teaches one program and leaves the others alone.
LEMMA IngestKeeps ==
  ASSUME AnomalyInd, NEW p \in Programs, NEW w \in Windows, ingest_window(p, w)
  PROVE  AnomalyInd'
<1> DEFINE D == DOMAIN baselines \cup {p}
           u == update(BaselineOf(p), w)
<1>1. /\ baselines' = [q \in D |-> IF q = p THEN u ELSE baselines[q]]
      /\ ingested' = [ingested EXCEPT ![p] = Append(@, w)]
  BY DEF ingest_window
<1>2. /\ ingested \in [Programs -> Seq(Windows)]
      /\ DOMAIN baselines = {q \in Programs : ingested[q] # <<>>}
      /\ \A q \in Programs : Kept(BaselineOf(q), ingested[q])
  BY DEF AnomalyInd
<1>3. /\ ingested' \in [Programs -> Seq(Windows)]
      /\ ingested'[p] = Append(ingested[p], w)
      /\ \A q \in Programs \ {p} : ingested'[q] = ingested[q]
  BY <1>1, <1>2
<1>4. Append(ingested[p], w) # <<>>
  BY <1>2
<1>5. DOMAIN baselines' = D /\ D = {q \in Programs : ingested'[q] # <<>>}
  BY <1>1, <1>2, <1>3, <1>4
<1>6. BaselineOf(p)' = u /\ \A q \in Programs \ {p} : BaselineOf(q)' = BaselineOf(q)
  BY <1>1 DEF BaselineOf
<1> HIDE DEF D, u
<1>7. Kept(u, ingested'[p])
  BY <1>2, <1>3, UpdateKept DEF u
<1>8. \A q \in Programs \ {p} : Kept(BaselineOf(q), ingested'[q])
  BY <1>2, <1>3
<1>9. \A q \in Programs : Kept(BaselineOf(q), ingested[q])'
  BY <1>6, <1>7, <1>8
<1> QED
  BY <1>3, <1>5, <1>9 DEF AnomalyInd

\* AnomalyInd holds in every reachable state.
THEOREM AnomalyIndHolds == Spec => []AnomalyInd
<1>1. Init => AnomalyInd
  BY AnomalyInit
<1>2. AnomalyInd /\ [Next]_vars => AnomalyInd'
  <2> SUFFICES ASSUME AnomalyInd, [Next]_vars PROVE AnomalyInd'
    OBVIOUS
  <2>1. ASSUME NEW p \in Programs, NEW w \in Windows, ingest_window(p, w) PROVE AnomalyInd'
    BY <2>1, IngestKeeps
  <2>2. ASSUME baselines' = baselines, ingested' = ingested PROVE AnomalyInd'
    BY <2>2 DEF AnomalyInd, BaselineOf
  <2>3. ASSUME NEW p \in Programs, NEW w \in Windows, check_anomaly(p, w) PROVE AnomalyInd'
    BY <2>2, <2>3 DEF check_anomaly
  <2> QED
    BY <2>1, <2>2, <2>3 DEF Next, vars
<1> QED
  BY <1>1, <1>2, PTL DEF Spec

\* TypeOK of Anomaly: the averages of shares stay shares, none of them zero.
THEOREM AnomalyTypeOKHolds == Spec => []TypeOK
<1>1. AnomalyInd => TypeOK
  <2> SUFFICES ASSUME AnomalyInd PROVE TypeOK
    OBVIOUS
  <2>1. ASSUME NEW p \in DOMAIN baselines
        PROVE  /\ \A id \in DOMAIN baselines[p].syscall_frequencies :
                    FrequencyOf(baselines[p], id) \in 1 .. Unit
               /\ baselines[p].crypto_ratio \in 0 .. Unit
    <3>1. p \in Programs /\ BaselineOf(p) = baselines[p]
      BY DEF AnomalyInd, BaselineOf
    <3>2. Kept(baselines[p], ingested[p])
      BY <3>1 DEF AnomalyInd
    <3> QED
      BY <3>2 DEF Kept, FrequenciesKept
  <2> QED
    BY <2>1 DEF TypeOK, AnomalyInd
<1> QED
  BY <1>1, AnomalyIndHolds, PTL

-------------------------------------------------------------------------------
(* The divergence *)

\* What is known of the baseline of a program that has one.
LEMMA BaselineKept ==
  ASSUME AnomalyInd, NEW p \in DOMAIN baselines
  PROVE  /\ p \in Programs /\ ingested[p] \in Seq(Windows)
         /\ Kept(baselines[p], ingested[p])
         /\ Taught(p) \subseteq Windows
         /\ UNION {IdsOf(v) : v \in Taught(p)} = SeenIds(ingested[p])
         /\ \A k \in 1 .. Len(ingested[p]) : ingested[p][k] \in Taught(p)
<1>1. p \in Programs /\ BaselineOf(p) = baselines[p] /\ ingested[p] \in Seq(Windows)
  BY DEF AnomalyInd, BaselineOf
<1>2. Kept(baselines[p], ingested[p])
  BY <1>1 DEF AnomalyInd
<1>3. \A k \in 1 .. Len(ingested[p]) : ingested[p][k] \in Windows
  BY <1>1
<1>4. UNION {IdsOf(v) : v \in Taught(p)} = SeenIds(ingested[p])
  BY DEF Taught, SeenIds
<1> QED
  BY <1>1, <1>2, <1>3, <1>4 DEF Taught

\* Frequencies are numbers, that of an unknown syscall is zero.
LEMMA FrequencyIsNat ==
  ASSUME NEW b, NEW seen, Kept(b, seen), NEW id
  PROVE  /\ FrequencyOf(b, id) \in Nat
         /\ id \notin SeenIds(seen) => FrequencyOf(b, id) = 0
<1>1. FrequenciesKept(b, seen)
  BY DEF Kept
<1>2. ASSUME id \notin SeenIds(seen) PROVE FrequencyOf(b, id) = 0
  BY <1>1, <1>2 DEF FrequenciesKept, FrequencyOf
<1>3. ASSUME id \in SeenIds(seen) PROVE FrequencyOf(b, id) \in Nat
  <2>1. FrequencyOf(b, id) \in 1 .. Unit
    BY <1>1, <1>3 DEF FrequenciesKept
  <2> QED
    BY <2>1, InUnit
<1> QED
  BY <1>2, <1>3

\* The table of logarithms grows.
LEMMA LnGrows ==
  ASSUME NEW x \in 1 .. Unit, NEW y \in 1 .. Unit, x <= y
  PROVE  ln[x] \in Nat /\ ln[y] \in Nat /\ ln[x] <= ln[y]
<1> DEFINE P == {n \in Nat : x + n <= Unit => ln[x] <= ln[x + n]}
<1>1. /\ \A z \in 1 .. Unit : ln[z] \in Nat
      /\ \A z \in 1 .. Unit - 1 : ln[z] <= ln[z + 1]
  BY LnAssumption
<1>2. x \in Nat /\ y \in Nat /\ x >= 1 /\ y <= Unit /\ Unit \in Nat
  <2>1. Unit \in Nat
    BY DEF Unit
  <2> QED
    BY <2>1, InUnit
<1>3. 0 \in P
  <2>1. x + 0 = x /\ ln[x] <= ln[x]
    BY <1>1, <1>2
  <2> QED
    BY <2>1
<1>4. ASSUME NEW n \in Nat, n \in P PROVE n + 1 \in P
  <2> SUFFICES ASSUME x + (n + 1) <= Unit PROVE ln[x] <= ln[x + (n + 1)]
    OBVIOUS
  <2> DEFINE z == x + n
  <2>1. /\ z \in 1 .. Unit /\ z \in 1 .. Unit - 1 /\ z + 1 \in 1 .. Unit
        /\ x + (n + 1) = z + 1 /\ x + n <= Unit
    BY <1>2
  <2>2. ln[x] <= ln[z]
    BY <1>4, <2>1
  <2> HIDE DEF z
  <2>3. ln[z] <= ln[z + 1] /\ ln[x] \in Nat /\ ln[z] \in Nat /\ ln[z + 1] \in Nat
    BY <1>1, <2>1
  <2>4. ln[x] <= ln[z + 1]
    BY <2>2, <2>3
  <2> QED
    BY <2>1, <2>4
<1> HIDE DEF P
<1>5. y - x \in P
  <2>1. y - x \in Nat
    BY <1>2
  <2> QED
    BY <1>3, <1>4, <2>1, SetInduction
<1>6. x + (y - x) = y
  BY <1>2
<1>7. ln[x] <= ln[y]
  BY <1>2, <1>5, <1>6 DEF P
<1> QED
  BY <1>1, <1>7

\* What is known of the logarithms of a syscall in a window: how often it is
\* called, and the length.
LEMMA LnCalls ==
  ASSUME NEW w \in Windows, w # <<>>, NEW id \in IdsOf(w)
  PROVE  /\ CallsOf(w, {id}) \in 1 .. Len(w) /\ Len(w) \in 1 .. MaxLen
         /\ ln[CallsOf(w, {id})] \in Nat /\ ln[Len(w)] \in Nat /\ ln[Len(w)] <= 9000
         /\ ln[Unit] \in Nat
<1> DEFINE n == Len(w)
           c == CallsOf(w, {id})
<1>1. n \in 1 .. MaxLen /\ MaxLen \in Nat /\ 10 * MaxLen <= Unit
  BY WindowShape, AnomalyAssumption
<1>2. c \in Nat /\ c <= n /\ c >= 1
  BY CallsBounds
<1>3. (\A x \in 1 .. Unit : ln[x] \in Nat) /\ \A x \in 1 .. MaxLen : ln[x] <= 9000
  BY LnAssumption
<1> HIDE DEF n, c
<1>4. /\ n \in Nat /\ n >= 1 /\ n <= Unit /\ c <= Unit
      /\ Unit \in Nat /\ Unit >= 1 /\ Unit <= Unit
  BY <1>1, <1>2 DEF Unit
<1>5. c \in 1 .. Unit /\ n \in 1 .. Unit /\ Unit \in 1 .. Unit
  BY <1>2, <1>4, InUnit
<1>6. ln[c] \in Nat /\ ln[n] \in Nat /\ ln[Unit] \in Nat /\ ln[n] <= 9000
  BY <1>1, <1>3, <1>5
<1>7. c \in 1 .. n
  BY <1>2, <1>4
<1> QED
  BY <1>1, <1>6, <1>7 DEF n, c

\* SumFunction is the fold of FiniteFacts.
LEMMA SumFunctionIsPartial ==
  ASSUME NEW S, NEW f, DOMAIN f = S
  PROVE  SumFunction(f) = Partial(f, S)[S]
<1>1. SumFunction(f) = Partial(f, DOMAIN f)[DOMAIN f]
  BY Zenon DEF SumFunction, SumFunctionOnSet, FoldFunctionOnSet, MapThenFoldSet, Partial,
     SumStep, Pick
<1> QED
  BY <1>1

\* Bounds of summands and of their sum: at least 14026 for those in N and -9000 for
\* the others, and at most 2500.
Bounded(f, S, N) ==
  \A x \in S : f[x] \in Int /\ f[x] >= (IF x \in N THEN 14026 ELSE -9000)

AtLeast(sum, S, N) == sum >= 23026 * Cardinality(S \cap N) - 9000 * Cardinality(S)

Capped(f, S) == \A x \in S : f[x] \in Int /\ f[x] <= 2500

\* A sum is at least and at most what the bounds of its summands make it.
LEMMA SumBounds ==
  ASSUME NEW S, IsFiniteSet(S), NEW N, NEW f \in [S -> Int]
  PROVE  /\ SumFunction(f) \in Int
         /\ Bounded(f, S, N) => AtLeast(SumFunction(f), S, N)
         /\ Capped(f, S) => SumFunction(f) <= 2500 * Cardinality(S)
<1> DEFINE A == Partial(f, S)
           Low(s) == Bounded(f, S, N) => AtLeast(A[s], s, N)
           High(s) == Capped(f, S) => A[s] <= 2500 * Cardinality(s)
           Good(s) == A[s] \in Int /\ Low(s) /\ High(s)
           P == {n \in Nat : \A s \in SUBSET S : Cardinality(s) = n => Good(s)}
<1>1. \A s \in SUBSET S : IsFiniteSet(s) /\ Cardinality(s) \in Nat
  BY FS_Subset, FS_CardinalityType
<1>2. \A s \in SUBSET S : A[s] = SumStep(f, A, s)
  <2>1. A = [s \in SUBSET S |-> SumStep(f, A, s)]
    BY PartialEquation
  <2> HIDE DEF A
  <2> QED
    BY <2>1
<1> HIDE DEF A, Good
<1>3. 0 \in P
  <2>1. ASSUME NEW s \in SUBSET S, Cardinality(s) = 0 PROVE Good(s)
    <3>1. s = {}
      BY <1>1, <2>1, FS_EmptySet
    <3>2. A[s] = 0
      BY <1>2, <3>1 DEF SumStep
    <3>3. Cardinality(s \cap N) = 0
      BY <3>1, FS_EmptySet
    <3>4. 0 >= 23026 * 0 - 9000 * 0 /\ 0 <= 2500 * 0 /\ 0 \in Int
      OBVIOUS
    <3> QED
      BY <2>1, <3>2, <3>3, <3>4 DEF Good, AtLeast
  <2> QED
    BY <2>1
<1>4. ASSUME NEW n \in Nat, n \in P PROVE n + 1 \in P
  <2> SUFFICES ASSUME NEW s \in SUBSET S, Cardinality(s) = n + 1
               PROVE  Good(s)
    OBVIOUS
  <2> DEFINE y == Pick(s)
             u == s \ {y}
             a == A[u]
             e == f[y]
             m == Cardinality(u \cap N)
  <2>1. s # {}
    BY FS_EmptySet
  <2>2. y \in s /\ y \in S /\ u \in SUBSET S /\ Cardinality(u) = n
    BY <1>1, <2>1, PickSmaller
  <2>3. A[s] = e + a
    BY <1>2, <2>1 DEF SumStep
  <2>4. a \in Int /\ Low(u) /\ High(u)
    <3>1. Good(u)
      BY <1>4, <2>2
    <3> QED
      BY <3>1 DEF Good
  <2>5. e \in Int
    BY <2>2
  <2>6. /\ m \in Nat
        /\ Cardinality(s \cap N) = IF y \in N THEN m + 1 ELSE m
    <3>1. u \cap N \in SUBSET S
      BY <2>2
    <3>2. IsFiniteSet(u \cap N) /\ m \in Nat
      BY <1>1, <3>1
    <3>3. y \in N => s \cap N = (u \cap N) \cup {y} /\ y \notin u \cap N
      BY <2>2
    <3>4. y \notin N => s \cap N = u \cap N
      OBVIOUS
    <3>5. Cardinality((u \cap N) \cup {y}) = IF y \in u \cap N THEN m ELSE m + 1
      BY <3>2, FS_AddElement
    <3> QED
      BY <3>2, <3>3, <3>4, <3>5
  <2>7. ASSUME Bounded(f, S, N) PROVE AtLeast(A[s], s, N)
    <3>1. e >= (IF y \in N THEN 14026 ELSE -9000)
      BY <2>2, <2>7 DEF Bounded
    <3>2. a >= 23026 * m - 9000 * n
      BY <2>2, <2>4, <2>7 DEF AtLeast
    <3> HIDE DEF a, e, m, y, u
    <3> QED
      BY <2>3, <2>4, <2>5, <2>6, <3>1, <3>2 DEF AtLeast
  <2>8. ASSUME Capped(f, S) PROVE A[s] <= 2500 * Cardinality(s)
    <3>1. e <= 2500
      BY <2>2, <2>8 DEF Capped
    <3>2. a <= 2500 * n
      BY <2>2, <2>4, <2>8
    <3> HIDE DEF a, e, m, y, u
    <3> QED
      BY <2>3, <2>4, <2>5, <3>1, <3>2
  <2>9. A[s] \in Int
    <3> HIDE DEF a, e
    <3> QED
      BY <2>3, <2>4, <2>5
  <2> QED
    BY <2>7, <2>8, <2>9 DEF Good
<1> HIDE DEF P
<1>5. Cardinality(S) \in P
  BY <1>1, <1>3, <1>4, SetInduction
<1>6. A[S] \in Int /\ Low(S) /\ High(S)
  <2>1. Good(S)
    BY <1>1, <1>5 DEF P
  <2> QED
    BY <2>1 DEF Good
<1>7. SumFunction(f) = A[S]
  <2>1. DOMAIN f = S
    OBVIOUS
  <2> QED
    BY <2>1, SumFunctionIsPartial DEF A
<1> QED
  BY <1>6, <1>7

\* The surprises of the events of a window.
Surprises(b, w) == [i \in 1 .. Len(w) |-> Surprise(b, w, w[i].id)]

\* A syscall the baseline knows is never more surprising than the logarithm of the
\* length makes it, an unknown one is surprising beyond that.
LEMMA SurpriseBounds ==
  ASSUME NEW b, NEW seen, Kept(b, seen), NEW w \in Windows, w # <<>>, NEW id \in IdsOf(w)
  PROVE  /\ Surprise(b, w, id) \in Int
         /\ Surprise(b, w, id) >= -9000
         /\ id \notin SeenIds(seen) => Surprise(b, w, id) >= 14026
<1> DEFINE c == ln[CallsOf(w, {id})]
           n == ln[Len(w)]
           e == LnExpected(b, id)
<1>1. c \in Nat /\ n \in Nat /\ n <= 9000
  BY LnCalls
<1>2. Surprise(b, w, id) = (c - n) - e
  BY DEF Surprise
<1>3. FrequenciesKept(b, seen)
  BY DEF Kept
<1>4. ASSUME id \notin SeenIds(seen) PROVE e = -23026
  BY <1>3, <1>4 DEF FrequenciesKept, LnExpected
<1>5. ASSUME id \in SeenIds(seen) PROVE e \in Int /\ e <= 0
  <2> DEFINE f == FrequencyOf(b, id)
  <2>1. f \in 1 .. Unit
    BY <1>3, <1>5 DEF FrequenciesKept
  <2>2. e = ln[f] - ln[Unit]
    BY <1>3, <1>5 DEF FrequenciesKept, LnExpected
  <2> HIDE DEF f, e
  <2>3. Unit \in 1 .. Unit /\ f <= Unit
    BY <2>1 DEF Unit
  <2>4. ln[f] \in Nat /\ ln[Unit] \in Nat /\ ln[f] <= ln[Unit]
    BY <2>1, <2>3, LnGrows
  <2> QED
    BY <2>2, <2>4
<1> HIDE DEF c, n, e
<1>6. (c - n) - e \in Int /\ (c - n) - e >= -9000
  BY <1>1, <1>4, <1>5
<1>7. id \notin SeenIds(seen) => (c - n) - e >= 14026
  BY <1>1, <1>4
<1> QED
  BY <1>2, <1>6, <1>7

\* The places of a window at which a syscall is called that the history lacks.
Novel(w, seen) == {i \in 1 .. Len(w) : w[i].id \notin SeenIds(seen)}

\* A window of which at least half is unknown syscalls diverges.
LEMMA NovelDiverges ==
  ASSUME NEW b, NEW seen, Kept(b, seen), NEW w \in Windows, w # <<>>,
         2 * Cardinality(Novel(w, seen)) >= Len(w)
  PROVE  kl_triggered(b, w)
<1> DEFINE f == Surprises(b, w)
           S == 1 .. Len(w)
           N == Novel(w, seen)
<1>1. DOMAIN f = S /\ \A i \in S : f[i] = Surprise(b, w, w[i].id)
  BY DEF Surprises
<1>2. \A i \in S : w[i].id \in IdsOf(w)
  BY DEF IdsOf
<1>3. kl_triggered(b, w) <=> SumFunction(f) > 2500 * Len(w)
  BY DEF kl_triggered, Surprises
<1>4. IsFiniteSet(S) /\ Cardinality(S) = Len(w)
  BY Places
<1>5. S \cap N = N
  BY DEF Novel
<1>6. Len(w) \in Nat /\ Len(w) >= 1
  BY WindowShape
<1>7. ASSUME NEW i \in S
      PROVE  /\ f[i] \in Int /\ f[i] >= -9000
             /\ i \in N => f[i] >= 14026
  <2>1. w[i].id \in IdsOf(w) /\ f[i] = Surprise(b, w, w[i].id)
    BY <1>1, <1>2
  <2>2. i \in N => w[i].id \notin SeenIds(seen)
    BY DEF Novel
  <2> HIDE DEF f, S
  <2> QED
    BY <2>1, <2>2, SurpriseBounds
<1> DEFINE c == Cardinality(N)
           n == Len(w)
           sum == SumFunction(f)
<1>8. c \in Nat /\ 2 * c >= n
  <2>1. N \in SUBSET S
    BY DEF Novel
  <2> HIDE DEF S
  <2>2. c \in Nat
    BY <1>4, <2>1, FS_Subset, FS_CardinalityType
  <2> QED
    BY <2>2
<1> HIDE DEF f, S, N
<1>9. Bounded(f, S, N) /\ \A x \in S : f[x] \in Int
  BY <1>7 DEF Bounded
<1>10. sum \in Int /\ AtLeast(sum, S, N)
  <2>1. f \in [S -> Int]
    BY <1>9 DEF f, Surprises, S
  <2> QED
    BY <1>4, <1>9, <2>1, SumBounds
<1>11. sum \in Int /\ sum >= 23026 * c - 9000 * n
  <2>1. Cardinality(S \cap N) = c /\ Cardinality(S) = n
    BY <1>4, <1>5
  <2> HIDE DEF c, n, sum, N
  <2> QED
    BY <1>10, <2>1 DEF AtLeast
<1>12. n \in Nat /\ n >= 1
  BY <1>6
<1> HIDE DEF c, n, sum
<1>13. sum > 2500 * n
  BY <1>8, <1>11, <1>12
<1> QED
  BY <1>3, <1>13 DEF n, sum

\* A window does not diverge from frequencies that are a tenth of its shares.
LEMMA TenthSuffices ==
  ASSUME NEW b, NEW w \in Windows, w # <<>>,
         \A id \in IdsOf(w) : /\ id \in DOMAIN b.syscall_frequencies
                              /\ FrequencyOf(b, id) \in 1 .. Unit
                              /\ FrequencyOf(b, id) >= Share(w, {id}) \div 10
  PROVE  ~kl_triggered(b, w)
<1>1. ASSUME NEW id \in IdsOf(w)
      PROVE  Surprise(b, w, id) \in Int /\ Surprise(b, w, id) <= 2500
  <2> DEFINE c == CallsOf(w, {id})
             n == Len(w)
             s == Share(w, {id})
             t == s \div 10
             f == FrequencyOf(b, id)
  <2>1. c \in 1 .. n /\ n \in 1 .. MaxLen /\ ln[c] \in Nat /\ ln[n] \in Nat /\ ln[Unit] \in Nat
    BY LnCalls
  <2>2. s = (c * Unit) \div n
    BY DEF Share
  <2>3. s \in Nat /\ s <= Unit /\ s >= 10
    <3>1. {id} \cap IdsOf(w) # {}
      OBVIOUS
    <3>2. s \in 0 .. Unit /\ s >= 10
      BY <3>1, Shares
    <3> HIDE DEF s
    <3> QED
      BY <3>2, InUnit
  <2>4. f \in 1 .. Unit /\ f >= t
    OBVIOUS
  <2>5. Surprise(b, w, id) = (ln[c] - ln[n]) - (ln[f] - ln[Unit])
    <3>1. id \in DOMAIN b.syscall_frequencies
      OBVIOUS
    <3>2. LnExpected(b, id) = ln[f] - ln[Unit]
      BY <3>1 DEF LnExpected
    <3> QED
      BY <3>2 DEF Surprise
  <2> HIDE DEF c, n, f
  <2>6. ln[c] + ln[Unit] <= ln[n] + ln[((c * Unit) \div n) \div 10] + 2500
    BY <2>1, LnAssumption
  <2>7. ln[c] + ln[Unit] <= ln[n] + ln[t] + 2500
    BY <2>2, <2>6
  <2> HIDE DEF s
  <2>8. t \in Nat /\ 10 * t <= s /\ s < 10 * t + 10
    BY <2>3, DivTen
  <2> HIDE DEF t
  <2>9. t \in 1 .. Unit /\ t <= f
    <3>1. t >= 1 /\ t <= Unit
      BY <2>3, <2>8 DEF Unit
    <3>2. f \in Nat
      BY <2>4, InUnit
    <3> QED
      BY <2>4, <2>8, <3>1, <3>2, InUnit
  <2>10. ln[t] \in Nat /\ ln[f] \in Nat /\ ln[t] <= ln[f]
    BY <2>4, <2>9, LnGrows
  <2> QED
    BY <2>1, <2>5, <2>7, <2>10
<1> DEFINE f == Surprises(b, w)
           S == 1 .. Len(w)
           sum == SumFunction(f)
           n == Len(w)
<1>2. DOMAIN f = S /\ \A i \in S : f[i] = Surprise(b, w, w[i].id)
  BY DEF Surprises
<1>3. \A i \in S : w[i].id \in IdsOf(w)
  BY DEF IdsOf
<1>4. kl_triggered(b, w) <=> sum > 2500 * n
  BY DEF kl_triggered, Surprises
<1>5. IsFiniteSet(S) /\ Cardinality(S) = n /\ n \in Nat
  BY Places, WindowShape
<1> HIDE DEF f, S
<1>6. Capped(f, S) /\ \A x \in S : f[x] \in Int
  BY <1>1, <1>2, <1>3 DEF Capped
<1>7. sum \in Int /\ sum <= 2500 * Cardinality(S)
  <2>1. f \in [S -> Int]
    BY <1>6 DEF f, Surprises, S
  <2> QED
    BY <1>5, <1>6, <2>1, SumBounds
<1>8. sum \in Int /\ sum <= 2500 * n
  BY <1>5, <1>7
<1> HIDE DEF sum, n
<1>9. ~(sum > 2500 * n)
  BY <1>5, <1>8
<1> QED
  BY <1>4, <1>9

\* NovelFlagged of Anomaly: a window of which at least half is syscalls the
\* program never made before is flagged by check_anomaly.
THEOREM NovelFlaggedHolds == Spec => []NovelFlagged
<1>1. AnomalyInd => NovelFlagged
  <2> SUFFICES ASSUME AnomalyInd, NEW p \in Programs, NEW w \in Windows, Mature(p), w # <<>>,
                      2 * Cardinality({i \in 1 .. Len(w) :
                            w[i].id \notin UNION {IdsOf(v) : v \in Taught(p)}}) >= Len(w)
               PROVE  Flagged(p, w)
    BY DEF NovelFlagged
  <2> DEFINE N == Novel(w, ingested[p])
  <2>1. p \in DOMAIN baselines
    BY DEF Mature
  <2>2. 2 * Cardinality(N) >= Len(w) /\ Kept(baselines[p], ingested[p])
    BY <2>1, BaselineKept DEF Novel
  <2>3. kl_triggered(baselines[p], w)
    BY <2>2, NovelDiverges
  <2> QED
    BY <2>1, <2>3 DEF Flagged
<1> QED
  BY <1>1, AnomalyIndHolds, PTL

\* RoutineNotDivergent of Anomaly: what a program has always done in one way does
\* not trigger the divergence.
THEOREM RoutineNotDivergentHolds == Spec => []RoutineNotDivergent
<1>1. AnomalyInd => RoutineNotDivergent
  <2> SUFFICES ASSUME AnomalyInd, NEW p \in DOMAIN baselines, NEW w \in Windows \ {<<>>},
                      w \in Taught(p),
                      \A v \in Taught(p) : IdsOf(v) \cap IdsOf(w) # {} =>
                        \A id \in IdsOf(v) \cup IdsOf(w) : Share(v, {id}) = Share(w, {id})
               PROVE  ~kl_triggered(baselines[p], w)
    BY DEF RoutineNotDivergent
  <2> DEFINE b == baselines[p]
             seen == ingested[p]
  <2>1. /\ Kept(b, seen) /\ SeenIds(seen) = UNION {IdsOf(v) : v \in Taught(p)}
        /\ \A k \in 1 .. Len(seen) : seen[k] \in Taught(p)
    BY BaselineKept
  <2> HIDE DEF b, seen
  <2>2. ASSUME NEW id \in IdsOf(w)
        PROVE  /\ id \in DOMAIN b.syscall_frequencies
               /\ FrequencyOf(b, id) \in 1 .. Unit
               /\ FrequencyOf(b, id) >= Share(w, {id}) \div 10
    <3>1. id \in SeenIds(seen)
      BY <2>1
    <3>2. PICK k \in 1 .. Len(seen) : /\ id \in IdsOf(seen[k])
                                      /\ FrequencyOf(b, id) >= Share(seen[k], {id}) \div 10
      BY <2>1, <3>1 DEF Kept, FrequenciesKept
    <3>3. seen[k] \in Taught(p) /\ IdsOf(seen[k]) \cap IdsOf(w) # {}
      BY <2>1, <3>2
    <3>4. Share(seen[k], {id}) = Share(w, {id})
      BY <3>3
    <3>5. id \in DOMAIN b.syscall_frequencies /\ FrequencyOf(b, id) \in 1 .. Unit
      BY <2>1, <3>1 DEF Kept, FrequenciesKept
    <3> QED
      BY <3>2, <3>4, <3>5
  <2>3. ~kl_triggered(b, w)
    BY <2>2, TenthSuffices
  <2> QED
    BY <2>3 DEF b
<1> QED
  BY <1>1, AnomalyIndHolds, PTL

\* OneLessonSuffices of Anomaly: a window that ingest_window just taught does not
\* trigger the divergence, whatever the baseline was.
THEOREM OneLessonSufficesHolds == Spec => OneLessonSuffices
<1> DEFINE Lesson == \A p \in Programs, w \in Windows \ {<<>>} :
                       ingest_window(p, w) => ~kl_triggered(baselines'[p], w)
<1>1. AnomalyInd => Lesson
  <2> SUFFICES ASSUME AnomalyInd, NEW p \in Programs, NEW w \in Windows \ {<<>>},
                      ingest_window(p, w)
               PROVE  ~kl_triggered(baselines'[p], w)
    OBVIOUS
  <2> DEFINE b == BaselineOf(p)
             u == update(b, w)
             seen == ingested[p]
             t == Append(seen, w)
  <2>1. baselines'[p] = u
    BY DEF ingest_window
  <2>2. Kept(b, seen) /\ OneMore(t, seen, w) /\ w \in Windows /\ w # <<>>
    BY DEF AnomalyInd, OneMore
  <2> HIDE DEF b, seen, t
  <2>3. FrequenciesKept(u, t)
    BY <2>2, FrequenciesStay
  <2>4. SeenIds(t) = SeenIds(seen) \cup IdsOf(w)
    <3>1. seen \in Seq(Windows)
      BY <2>2 DEF Kept
    <3> QED
      BY <2>2, <3>1, TaughtOne
  <2>5. ASSUME NEW id \in IdsOf(w)
        PROVE  /\ id \in DOMAIN u.syscall_frequencies
               /\ FrequencyOf(u, id) \in 1 .. Unit
               /\ FrequencyOf(u, id) >= Share(w, {id}) \div 10
    <3>1. id \in DOMAIN u.syscall_frequencies /\ FrequencyOf(u, id) \in 1 .. Unit
      BY <2>3, <2>4 DEF FrequenciesKept
    <3>2. FrequencyOf(u, id) = Blend(FrequencyOf(b, id), Share(w, {id}))
      BY <2>2, Updated
    <3>3. FrequencyOf(b, id) \in Nat
      BY <2>2, FrequencyIsNat
    <3>4. Share(w, {id}) \in Nat
      BY <2>2, Shares, InUnit
    <3>5. Blend(FrequencyOf(b, id), Share(w, {id})) >= Share(w, {id}) \div 10
      BY <3>3, <3>4, BlendBounds
    <3> QED
      BY <3>1, <3>2, <3>5
  <2>6. ~kl_triggered(u, w)
    <3> HIDE DEF u
    <3> QED
      BY <2>2, <2>5, TenthSuffices
  <2> QED
    BY <2>1, <2>6
<1>2. AnomalyInd => [Lesson]_vars
  BY <1>1
<1> QED
  BY <1>2, AnomalyIndHolds, PTL DEF OneLessonSuffices

-------------------------------------------------------------------------------
(* The norm *)

\* Squares.
LEMMA Squares ==
  ASSUME NEW x \in Nat
  PROVE  x * x \in Nat /\ (x >= 220 => x * x >= 48400)
<1>1. x * x \in Nat
  OBVIOUS
<1>2. ASSUME x >= 220 PROVE x * x >= 48400
  <2>1. x * x >= 220 * x
    BY <1>2
  <2>2. 220 * x >= 220 * 220
    BY <1>2
  <2> QED
    BY <1>1, <2>1, <2>2
<1> QED
  BY <1>1, <1>2

\* Rounding to hundredths.
LEMMA HundredthsBounds ==
  ASSUME NEW x \in Nat
  PROVE  Hundredths(x) \in Nat /\ (x >= 44000 => Hundredths(x) >= 220)
<1>1. Hundredths(x) = x \div 200
  <2>1. 20000 \div 100 = 200
    OBVIOUS
  <2> QED
    BY <2>1 DEF Hundredths, Unit
<1> DEFINE q == x \div 200
<1>2. q \in Nat /\ x < 200 * q + 200
  BY DivBounds
<1> HIDE DEF q
<1>3. x >= 44000 => q >= 220
  BY <1>2
<1> QED
  BY <1>1, <1>2, <1>3 DEF q

\* The norm is at least as great as each of its terms.
LEMMA NormBounds ==
  ASSUME NEW b, NEW seen, Kept(b, seen)
  PROVE  /\ SquaredNorm(b) \in Nat
         /\ b.max_cpi_depth >= 22 => SquaredNorm(b) >= 48400
         /\ b.mean_delay >= 44000 => SquaredNorm(b) >= 48400
<1> DEFINE v == feature_vector(b)
           T == TopIds(b)
           F == [id \in T |-> v.top[id] * v.top[id]]
           cap == Min({b.mean_delay, 100 * Unit})
<1>1. /\ b.crypto_ratio \in 0 .. Unit /\ b.max_cpi_depth \in 0 .. 255 /\ b.mean_delay \in Nat
      /\ IsFiniteSet(DOMAIN b.syscall_frequencies)
  BY DEF Kept, DepthKept, DelayKept, FrequenciesKept
<1>2. /\ v.crypto = Hundredths(b.crypto_ratio) /\ v.depth = 10 * b.max_cpi_depth
      /\ v.delay = Hundredths(cap)
      /\ v.diversity = (100 * Cardinality(DOMAIN b.syscall_frequencies)) \div 30
      /\ \A id \in T : v.top[id] = Hundredths(FrequencyOf(b, id))
  BY DEF feature_vector
<1>3. SquaredNorm(b) = v.crypto * v.crypto + v.depth * v.depth + v.delay * v.delay
                         + v.diversity * v.diversity + SumFunction(F)
  BY Zenon DEF SquaredNorm
<1>4. IsFiniteSet(T)
  BY <1>1, FS_Subset DEF TopIds
<1>5. cap \in Nat /\ (b.mean_delay >= 44000 => cap >= 44000)
  <2> DEFINE d == b.mean_delay
             most == 100 * Unit
  <2>1. cap = Min({d, most})
    OBVIOUS
  <2>2. d \in Nat /\ most \in Nat /\ most >= 44000
    <3>1. d \in Nat
      BY <1>1
    <3>2. 100 * 20000 \in Nat /\ 100 * 20000 >= 44000
      OBVIOUS
    <3> HIDE DEF d
    <3> QED
      BY <3>1, <3>2 DEF Unit
  <2> HIDE DEF d, cap, most
  <2>3. \E x \in {d, most} : \A y \in {d, most} : x <= y
    BY <2>2
  <2>4. cap \in {d, most}
    BY <2>1, <2>3, Zenon DEF Min
  <2>5. cap \in Nat /\ (d >= 44000 => cap >= 44000)
    BY <2>2, <2>4
  <2> QED
    BY <2>5 DEF d
<1> HIDE DEF v, T, cap
<1>6. v.crypto \in Nat
  BY <1>1, <1>2, HundredthsBounds, InUnit
<1>7. v.depth \in Nat /\ (b.max_cpi_depth >= 22 => v.depth >= 220)
  <2> DEFINE d == b.max_cpi_depth
  <2>1. d \in 0 .. 255 /\ v.depth = 10 * d
    BY <1>1, <1>2
  <2> HIDE DEF d
  <2>2. v.depth \in Nat /\ (d >= 22 => v.depth >= 220)
    BY <2>1
  <2> QED
    BY <2>2 DEF d
<1>8. v.delay \in Nat /\ (b.mean_delay >= 44000 => v.delay >= 220)
  BY <1>2, <1>5, HundredthsBounds
<1>9. v.diversity \in Nat
  <2> DEFINE c == Cardinality(DOMAIN b.syscall_frequencies)
  <2>1. c \in Nat
    BY <1>1, FS_CardinalityType
  <2> HIDE DEF c
  <2>2. 100 * c \in Nat
    BY <2>1
  <2>3. (100 * c) \div 30 \in Nat
    BY <2>2, DivBounds
  <2> QED
    BY <1>2, <2>3 DEF c
<1>10. SumFunction(F) \in Nat
  <2>1. \A id \in T : v.top[id] \in Nat
    BY <1>2, HundredthsBounds, FrequencyIsNat
  <2>2. \A id \in T : v.top[id] * v.top[id] \in Nat
    BY <2>1, Squares
  <2>3. F \in [T -> Nat]
    BY <2>2
  <2> HIDE DEF F
  <2> QED
    BY <1>4, <2>3, SumFunctionIsNat
<1> DEFINE c2 == v.crypto * v.crypto
           d2 == v.depth * v.depth
           l2 == v.delay * v.delay
           n2 == v.diversity * v.diversity
           rest == SumFunction(F)
           norm == SquaredNorm(b)
<1>11. /\ c2 \in Nat /\ d2 \in Nat /\ l2 \in Nat /\ n2 \in Nat /\ rest \in Nat
       /\ norm = c2 + d2 + l2 + n2 + rest
  BY <1>3, <1>6, <1>7, <1>8, <1>9, <1>10, Squares
<1>12. b.max_cpi_depth >= 22 => d2 >= 48400
  BY <1>7, Squares
<1>13. b.mean_delay >= 44000 => l2 >= 48400
  BY <1>8, Squares
<1> HIDE DEF c2, d2, l2, n2, rest, norm
<1>14. norm \in Nat /\ norm >= d2 /\ norm >= l2
  BY <1>11
<1>15. norm \in Nat /\ (d2 >= 48400 => norm >= 48400) /\ (l2 >= 48400 => norm >= 48400)
  BY <1>11, <1>14
<1> QED
  BY <1>12, <1>13, <1>15 DEF norm

\* OutlierStaysFlagged of Anomaly: one window nested 22 deep, or one delay of 22
\* milliseconds that no other delay followed, has every later window flagged.
THEOREM OutlierStaysFlaggedHolds == Spec => []OutlierStaysFlagged
<1>1. AnomalyInd => OutlierStaysFlagged
  <2> SUFFICES ASSUME AnomalyInd, NEW p \in Programs, NEW w \in Windows \ {<<>>}, Mature(p),
                      \/ \E v \in Taught(p) : \E i \in 1 .. Len(v) : v[i].depth >= 22
                      \/ \E k \in DOMAIN ingested[p] :
                           /\ Several(ingested[p]) = {k}
                           /\ MeanDelay(ingested[p][k]) >= 22 * Unit
               PROVE  Flagged(p, w)
    BY DEF OutlierStaysFlagged
  <2> DEFINE b == baselines[p]
             seen == ingested[p]
  <2>0. p \in DOMAIN baselines
    BY DEF Mature
  <2>1. Kept(b, seen) /\ seen \in Seq(Windows)
    BY <2>0, BaselineKept
  <2>2. ASSUME NEW v \in Taught(p), NEW i \in 1 .. Len(v), v[i].depth >= 22
        PROVE  SquaredNorm(b) >= 48400
    <3>1. PICK k \in 1 .. Len(seen) : v = seen[k]
      BY DEF Taught
    <3> DEFINE e == v[i].depth
               d == b.max_cpi_depth
    <3>2. e <= d /\ d \in 0 .. 255
      BY <2>1, <3>1 DEF Kept, DepthKept
    <3>3. e \in 0 .. 255 /\ e >= 22
      BY <2>0, <2>2, BaselineKept, WindowShape
    <3> HIDE DEF e, d
    <3>4. d >= 22
      BY <3>2, <3>3
    <3> QED
      BY <2>1, <3>4, NormBounds DEF d
  <2>3. ASSUME NEW k \in DOMAIN seen, Several(seen) = {k}, MeanDelay(seen[k]) >= 22 * Unit
        PROVE  SquaredNorm(b) >= 48400
    <3>1. k \in 1 .. Len(seen) /\ seen[k] \in Windows /\ Len(seen[k]) > 1
      BY <2>1, <2>3 DEF Several
    <3> DEFINE m == MeanDelay(seen[k])
               d == b.mean_delay
    <3>2. m \in Nat
      BY <3>1, MeanDelayIsNat
    <3>3. d \in Nat /\ d >= m \div 10
      BY <2>1, <2>3 DEF Kept, DelayKept
    <3>4. m >= 440000
      BY <2>3, <3>2 DEF Unit
    <3> HIDE DEF m, d
    <3> DEFINE q == m \div 10
    <3>5. q \in Nat /\ m < 10 * q + 10 /\ d >= q
      BY <3>2, <3>3, DivTen
    <3> HIDE DEF q
    <3>6. d >= 44000
      BY <3>2, <3>3, <3>4, <3>5
    <3> QED
      BY <2>1, <3>6, NormBounds DEF d
  <2>4. SquaredNorm(b) >= 48400 /\ SquaredNorm(b) \in Nat
    BY <2>1, <2>2, <2>3, NormBounds
  <2>5. SquaredNorm(b) > 210 * 210
    <3> DEFINE s == SquaredNorm(b)
    <3>1. s \in Nat /\ s >= 48400
      BY <2>4
    <3> HIDE DEF s
    <3>2. s > 210 * 210
      BY <3>1
    <3> QED
      BY <3>2 DEF s
  <2> QED
    BY <2>0, <2>5 DEF Flagged, iso_triggered
<1> QED
  BY <1>1, AnomalyIndHolds, PTL

===============================================================================
