--------------------------- MODULE RingBufferProofs ---------------------------
(***************************************************************************)
(* The ring buffer is correct for every Size, every set of events and      *)
(* every number of pushes: TypeOK, NoDataRace and LenIsReliable are        *)
(* invariants of RingBuffer!Spec, and Spec implements the bounded FIFO     *)
(* TraceQueue.                                                             *)
(*                                                                         *)
(* The k-th value stored in head means "k - 1 events popped", the k-th in  *)
(* tail "k - 1 events pushed", although each is only kept modulo Size.     *)
(* The inductive invariant says so for every value a thread may still see, *)
(* and from it which slots each thread owns.                               *)
(***************************************************************************)
EXTENDS RingBuffer, Integers, SequenceTheorems, TLAPS

Wrap(x) == IF x < Size THEN x ELSE x - Size

\* How far i lies after a, going round the buffer.
Ahead(a, i) == IF i >= a THEN i - a ELSE i - a + Size

Occupied == Len(tails) - Len(heads)

Histories == /\ pushed \in Seq(Events)
             /\ Len(pushed) = Len(tails) - 1
             /\ Len(popped) = Len(heads) - 1

ProducerView ==
  \A k \in pSeen .. Len(heads) :
    /\ Len(tails) - k \in 0 .. Size - 1
    /\ tail = Wrap(heads[k] + (Len(tails) - k))

ConsumerView ==
  \A k \in cSeen .. Len(tails) :
    /\ k - Len(heads) \in 0 .. Size - 1
    /\ tails[k] = Wrap(head + (k - Len(heads)))

InPush == pPc # "idle" => /\ pEvent \in Events
                          /\ pSync = pSeen
                          /\ Len(tails) - pSeen < Size - 1

InPop == cPc # "idle" => cSync = cSeen /\ Len(heads) < cSeen

TakenSlots ==
  \A i \in Indices :
    taken[i] = 0 \/ taken[i] + Size <= Len(tails) + 1 + Ahead(tail, i)

WrittenSlots ==
  /\ \A i \in Indices :
       Ahead(head, i) < Occupied =>
         /\ written[i] = Len(heads) + Ahead(head, i) + 1
         /\ slots[i] = pushed[Len(heads) + Ahead(head, i)]
  /\ pPc = "publish" => written[tail] = Len(tails) + 1 /\ slots[tail] = pEvent
  /\ cPc = "publish" => cEvent = pushed[Len(heads)]

LenCalls ==
  /\ pLen # NoLen => pPc = "idle" /\ pLen = Len(tails) - pSeen
  /\ cLen # NoLen => cPc = "idle" /\ cLen = cSeen - Len(heads)

\* The inductive invariant.
IndInv == /\ TypeOK
          /\ Histories
          /\ ProducerView /\ ConsumerView
          /\ InPush /\ InPop
          /\ TakenSlots /\ WrittenSlots
          /\ LenCalls

-------------------------------------------------------------------------------
(* Arithmetic of the indices *)

\* Indices are advanced, and their distance taken, without division.
LEMMA IndexArithmetic ==
  /\ \A i \in Indices : NextIndex(i) = Wrap(i + 1)
  /\ \A h, t \in Indices : Distance(h, t) = Ahead(h, t)
<1>1. \A x \in 0 .. 2 * Size - 1 : x % Size = Wrap(x)
  BY SizeAssumption DEF Wrap
<1>2. \A h, t \in Indices : Distance(h, t) = Wrap(t + Size - h)
  BY <1>1, SizeAssumption DEF Distance, Indices
<1>3. \A h, t \in Indices : Wrap(t + Size - h) = Ahead(h, t)
  BY SizeAssumption DEF Wrap, Ahead, Indices
<1> QED
  BY <1>1, <1>2, <1>3, SizeAssumption DEF NextIndex, Indices

\* Going d steps round the buffer, one step more, and one step less.
LEMMA WrapSteps ==
  /\ \A i \in Indices, d \in 0 .. Size - 1 : Wrap(i + d) \in Indices
  /\ \A i \in Indices, d \in 0 .. Size - 2 : Wrap(Wrap(i + d) + 1) = Wrap(i + (d + 1))
  /\ \A i \in Indices, d \in 1 .. Size - 1 : Wrap(Wrap(i + 1) + (d - 1)) = Wrap(i + d)
  /\ \A i \in Indices : Wrap(i + 1) \in Indices /\ Wrap(i + 0) = i
  /\ \A i \in Indices, d \in 1 .. Size - 1 : Wrap(i + d) # i
  /\ \A i \in Indices, d \in 0 .. Size - 1 : Wrap(Wrap(i + d) + 1) = i => d = Size - 1
  BY SizeAssumption DEF Wrap, Indices

\* Ahead is the inverse of going d steps round the buffer.
LEMMA AheadSteps ==
  /\ \A a, i \in Indices : Ahead(a, i) \in 0 .. Size - 1
  /\ \A a \in Indices, d \in 0 .. Size - 1 : Ahead(a, Wrap(a + d)) = d
  /\ \A a, i \in Indices : i # a => Ahead(Wrap(a + 1), i) = Ahead(a, i) - 1
  /\ \A a \in Indices : Ahead(a, a) = 0 /\ Ahead(Wrap(a + 1), a) = Size - 1
  /\ \A a \in Indices, d \in 1 .. Size - 1 : Ahead(Wrap(a + d), a) = Size - d
  /\ \A a, i \in Indices : i = Wrap(a + Ahead(a, i))
  BY SizeAssumption DEF Wrap, Ahead, Indices

\* A value appended to a modification order leaves the earlier ones in place.
LEMMA AppendSteps ==
  ASSUME NEW S, NEW s \in Seq(S), NEW x \in S
  PROVE  /\ Append(s, x) \in Seq(S)
         /\ Len(Append(s, x)) = Len(s) + 1
         /\ \A i \in 1 .. Len(s) : Append(s, x)[i] = s[i]
         /\ Append(s, x)[Len(s) + 1] = x
  OBVIOUS

\* The numbers of stores are positive, and the values stored are slot indices.
LEMMA IndexTypes ==
  TypeOK => /\ head \in Indices /\ tail \in Indices
            /\ Len(heads) \in Nat \ {0} /\ Len(tails) \in Nat \ {0}
            /\ pSeen \in 1 .. Len(heads) /\ cSeen \in 1 .. Len(tails)
            /\ \A k \in 1 .. Len(heads) : heads[k] \in Indices
            /\ \A k \in 1 .. Len(tails) : tails[k] \in Indices
<1>1. ASSUME TypeOK
      PROVE  Len(heads) \in Nat \ {0} /\ Len(tails) \in Nat \ {0}
  BY <1>1 DEF TypeOK, ProducerTypes, ConsumerTypes
<1>2. ASSUME TypeOK
      PROVE  /\ \A k \in 1 .. Len(heads) : heads[k] \in Indices
             /\ \A k \in 1 .. Len(tails) : tails[k] \in Indices
  BY <1>2, <1>1, ElementOfSeq DEF TypeOK, ProducerTypes, ConsumerTypes
<1>3. ASSUME TypeOK
      PROVE  pSeen \in 1 .. Len(heads) /\ cSeen \in 1 .. Len(tails)
  BY <1>3 DEF TypeOK, ProducerTypes, ConsumerTypes, Positions
<1> QED
  BY <1>1, <1>2, <1>3 DEF head, tail

-------------------------------------------------------------------------------
(* The invariant holds initially and is preserved by every step *)

\* In Init nothing is pushed and both indices are 0.
LEMMA InitIndInv == Init => IndInv
<1> SUFFICES ASSUME Init PROVE IndInv
  OBVIOUS
<1> USE SizeAssumption DEF Init, Indices
<1>1. TypeOK
  BY DEF TypeOK, SlotTypes, ProducerTypes, ConsumerTypes, NoLen, Positions
<1>2. Histories /\ ProducerView /\ ConsumerView
  BY DEF Histories, ProducerView, ConsumerView, Wrap, head, tail
<1>3. InPush /\ InPop /\ TakenSlots /\ LenCalls
  BY DEF InPush, InPop, TakenSlots, LenCalls
<1>4. WrittenSlots
  BY DEF WrittenSlots, Ahead, Occupied, head, tail
<1> QED
  BY <1>1, <1>2, <1>3, <1>4 DEF IndInv

\* The full test of push leaves at least one free slot beyond the one written.
LEMMA PushCheckInv ==
  ASSUME IndInv, NEW e \in Events, NEW k \in Visible(pSeen, heads), PushCheck(e, k)
  PROVE  IndInv'
<1> USE DEF IndInv
<1>1. /\ k \in pSeen .. Len(heads) /\ pSeen' = k /\ pSync' = k /\ pLen' = NoLen
      /\ \/ pPc' = pPc /\ pEvent' = pEvent
         \/ NextIndex(tail) # heads[k] /\ pPc' = "write" /\ pEvent' = e
      /\ pPc = "idle"
      /\ UNCHANGED <<slots, written, taken, cPc, cEvent, cSeen, cSync, cLen, heads,
                     popped, tails, pushed>>
  BY DEF PushCheck, Visible, AcquireLoad, IsFull, slotVars, cVars
<1>2. head' = head /\ tail' = tail
  BY <1>1 DEF head, tail
<1>3. TypeOK'
  <2>1. SlotTypes'
    BY <1>1, IndexTypes, SizeAssumption DEF TypeOK, SlotTypes, ProducerTypes, ConsumerTypes
  <2>2. ProducerTypes'
    BY <1>1, IndexTypes, SizeAssumption DEF TypeOK, Positions, NoLen, ProducerTypes
  <2>3. ConsumerTypes'
    BY <1>1, IndexTypes, SizeAssumption DEF TypeOK, Positions, NoLen, ConsumerTypes
  <2> QED
    BY <2>1, <2>2, <2>3 DEF TypeOK
<1>4. ProducerView'
  BY <1>1, <1>2, IndexTypes DEF ProducerView
<1>5. InPush'
  <2>1. NextIndex(tail) # heads[k] => Len(tails) - k # Size - 1
    <3>1. heads[k] \in Indices /\ tail \in Indices
      BY <1>1, IndexTypes DEF TypeOK, SlotTypes
    <3>2. tail = Wrap(heads[k] + (Len(tails) - k)) /\ Len(tails) - k \in 0 .. Size - 1
      BY <1>1 DEF ProducerView
    <3>3. Len(tails) - k = Size - 1 => Wrap(tail + 1) = heads[k]
      BY <3>1, <3>2, SizeAssumption DEF Wrap, Indices
    <3> QED
      BY <3>1, <3>3, IndexArithmetic
  <2>2. Len(tails) - k \in 0 .. Size - 1
    BY <1>1 DEF ProducerView
  <2> QED
    BY <1>1, <2>1, <2>2, SizeAssumption DEF InPush
<1>6. Histories' /\ ConsumerView' /\ InPop' /\ TakenSlots'
  BY <1>1, <1>2 DEF Histories, ConsumerView, InPop, TakenSlots
<1>7. WrittenSlots' /\ LenCalls'
  BY <1>1, <1>2 DEF WrittenSlots, LenCalls, Occupied
<1> QED
  BY <1>3, <1>4, <1>5, <1>6, <1>7

\* The slot written is not among those that hold an unread event.
LEMMA PushWriteInv == ASSUME IndInv, PushWrite PROVE IndInv'
<1> USE DEF IndInv
<1>1. /\ pPc = "write" /\ pPc' = "publish"
      /\ slots' = [slots EXCEPT ![tail] = pEvent]
      /\ written' = [written EXCEPT ![tail] = Len(tails) + 1]
      /\ UNCHANGED <<taken, cPc, cEvent, cSeen, cSync, cLen, heads, popped, pEvent,
                     pSeen, pSync, pLen, tails, pushed>>
  BY DEF PushWrite, cVars
<1>2. head' = head /\ tail' = tail /\ Occupied' = Occupied
  BY <1>1 DEF head, tail, Occupied
<1>3. TypeOK'
  <2>1. SlotTypes'
    <3>1. SlotTypes /\ pEvent \in Events \cup {Garbage} /\ Len(tails) + 1 \in Nat
      BY IndexTypes DEF TypeOK, ProducerTypes
    <3> HIDE DEF IndInv
    <3> QED
      BY <1>1, <3>1 DEF SlotTypes
  <2>2. ProducerTypes'
    BY <1>1, IndexTypes DEF TypeOK, Positions, ProducerTypes
  <2>3. ConsumerTypes'
    BY <1>1, IndexTypes DEF TypeOK, Positions, ConsumerTypes
  <2> QED
    BY <2>1, <2>2, <2>3 DEF TypeOK
<1>4. Histories' /\ ProducerView' /\ ConsumerView' /\ InPush' /\ InPop' /\ TakenSlots'
  BY <1>1, <1>2 DEF Histories, ProducerView, ConsumerView, InPush, InPop, TakenSlots
<1>5. LenCalls'
  BY <1>1 DEF LenCalls
<1>6. WrittenSlots'
  <2>1. Ahead(head, tail) = Occupied
    <3>1. tail = Wrap(head + Occupied) /\ Occupied \in 0 .. Size - 1
      BY IndexTypes DEF ConsumerView, tail, Occupied
    <3> QED
      BY <3>1, IndexTypes, AheadSteps
  <2>2. \A i \in Indices : i # tail => slots'[i] = slots[i] /\ written'[i] = written[i]
    BY <1>1 DEF TypeOK, SlotTypes
  <2>3. written'[tail] = Len(tails) + 1 /\ slots'[tail] = pEvent
    BY <1>1, IndexTypes DEF TypeOK, SlotTypes
  <2>4. Occupied \in Int
    BY IndexTypes DEF Occupied
  <2> QED
    BY <1>1, <1>2, <2>1, <2>2, <2>3, <2>4 DEF WrittenSlots
<1> QED
  BY <1>3, <1>4, <1>5, <1>6

\* Storing the next tail makes the slot just written the last unread one.
LEMMA PushPublishInv == ASSUME IndInv, PushPublish PROVE IndInv'
<1> USE DEF IndInv
<1>1. /\ pPc = "publish" /\ pPc' = "idle"
      /\ tails' = Append(tails, NextIndex(tail))
      /\ pushed' = Append(pushed, pEvent)
      /\ UNCHANGED <<slots, written, taken, cPc, cEvent, cSeen, cSync, cLen, heads,
                     popped, pEvent, pSeen, pSync, pLen>>
  BY DEF PushPublish, slotVars, cVars
<1> USE IndexTypes
<1>2. tail \in Indices /\ NextIndex(tail) = Wrap(tail + 1) /\ Wrap(tail + 1) \in Indices
  BY IndexArithmetic, WrapSteps
<1>3. /\ tails' \in Seq(Indices) /\ Len(tails') = Len(tails) + 1
      /\ \A j \in 1 .. Len(tails) : tails'[j] = tails[j]
      /\ tails'[Len(tails) + 1] = Wrap(tail + 1)
  BY <1>1, <1>2, AppendSteps DEF TypeOK, ProducerTypes, ConsumerTypes
<1>4. head' = head /\ tail' = Wrap(tail + 1) /\ Occupied' = Occupied + 1
  BY <1>1, <1>3 DEF head, tail, Occupied
<1>5. /\ pEvent \in Events /\ Len(tails) - pSeen < Size - 1
      /\ written[tail] = Len(tails) + 1 /\ slots[tail] = pEvent
  BY <1>1 DEF InPush, WrittenSlots
<1>6. /\ pushed' \in Seq(Events) /\ Len(pushed') = Len(tails)
      /\ \A j \in 1 .. Len(pushed) : pushed'[j] = pushed[j]
      /\ pushed'[Len(tails)] = pEvent
  BY <1>1, <1>5, AppendSteps DEF Histories
<1>7. TypeOK'
  <2>1. SlotTypes'
    BY <1>1, <1>3, <1>6 DEF TypeOK, SlotTypes, ProducerTypes, ConsumerTypes
  <2>2. ProducerTypes'
    BY <1>1, <1>3, <1>6 DEF TypeOK, Positions, ProducerTypes
  <2>3. ConsumerTypes'
    BY <1>1, <1>3, <1>6 DEF TypeOK, Positions, ConsumerTypes
  <2> QED
    BY <2>1, <2>2, <2>3 DEF TypeOK
<1>8. Histories'
  BY <1>1, <1>3, <1>6 DEF Histories
<1>9. ProducerView'
  <2> SUFFICES ASSUME NEW k \in pSeen .. Len(heads)
               PROVE  /\ Len(tails) + 1 - k \in 0 .. Size - 1
                      /\ Wrap(tail + 1) = Wrap(heads[k] + (Len(tails) + 1 - k))
    BY <1>1, <1>3, <1>4 DEF ProducerView
  <2>1. /\ Len(tails) - k \in 0 .. Size - 2
        /\ tail = Wrap(heads[k] + (Len(tails) - k))
    BY <1>5, SizeAssumption DEF ProducerView
  <2>2. heads[k] \in Indices
    BY DEF TypeOK
  <2>3. Wrap(tail + 1) = Wrap(heads[k] + ((Len(tails) - k) + 1))
    BY <2>1, <2>2, WrapSteps
  <2> QED
    BY <2>1, <2>3, SizeAssumption
<1>10. Occupied \in 0 .. Size - 2 /\ tail = Wrap(head + Occupied)
  BY <1>5, SizeAssumption DEF ProducerView, Occupied, head
<1>11. ConsumerView'
  <2> SUFFICES ASSUME NEW k \in cSeen .. Len(tails) + 1
               PROVE  /\ k - Len(heads) \in 0 .. Size - 1
                      /\ tails'[k] = Wrap(head + (k - Len(heads)))
    BY <1>1, <1>3, <1>4 DEF ConsumerView
  <2>1. CASE k = Len(tails) + 1
    <3>1. Wrap(tail + 1) = Wrap(head + (Occupied + 1))
      BY <1>10, WrapSteps
    <3> QED
      BY <2>1, <3>1, <1>3, <1>10, SizeAssumption DEF Occupied
  <2>2. CASE k # Len(tails) + 1
    BY <2>2, <1>3 DEF ConsumerView
  <2> QED
    BY <2>1, <2>2
<1>12. InPush' /\ InPop' /\ LenCalls'
  BY <1>1 DEF InPush, InPop, LenCalls
<1>13. TakenSlots'
  <2> SUFFICES ASSUME NEW i \in Indices
               PROVE  \/ taken[i] = 0
                      \/ taken[i] + Size <= Len(tails) + 2 + Ahead(Wrap(tail + 1), i)
    BY <1>1, <1>3, <1>4 DEF TakenSlots
  <2>1. taken[i] = 0 \/ taken[i] + Size <= Len(tails) + 1 + Ahead(tail, i)
    BY DEF TakenSlots
  <2>2. taken[i] \in Nat /\ Ahead(tail, i) \in 0 .. Size - 1
    BY AheadSteps DEF TypeOK, SlotTypes
  <2>3. CASE i = tail
    BY <2>1, <2>2, <2>3, AheadSteps, SizeAssumption
  <2>4. CASE i # tail
    <3>1. Ahead(Wrap(tail + 1), i) = Ahead(tail, i) - 1
      BY <2>4, AheadSteps
    <3> QED
      BY <2>1, <2>2, <3>1
  <2> QED
    BY <2>3, <2>4
<1>14. WrittenSlots'
  <2>1. ASSUME NEW i \in Indices, Ahead(head, i) < Occupied + 1
        PROVE  /\ written[i] = Len(heads) + Ahead(head, i) + 1
               /\ slots[i] = pushed'[Len(heads) + Ahead(head, i)]
    <3>1. Ahead(head, i) \in 0 .. Size - 1 /\ i = Wrap(head + Ahead(head, i))
      BY AheadSteps
    <3>2. CASE Ahead(head, i) = Occupied
      <4>1. i = tail
        BY <3>1, <3>2, <1>10
      <4> QED
        BY <4>1, <3>2, <1>5, <1>6 DEF Occupied
    <3>3. CASE Ahead(head, i) < Occupied
      <4>1. /\ written[i] = Len(heads) + Ahead(head, i) + 1
            /\ slots[i] = pushed[Len(heads) + Ahead(head, i)]
        BY <3>3 DEF WrittenSlots
      <4>2. Len(heads) + Ahead(head, i) \in 1 .. Len(pushed)
        BY <3>1, <3>3 DEF Histories, Occupied
      <4> QED
        BY <4>1, <4>2, <1>6
    <3> QED
      BY <2>1, <3>1, <3>2, <3>3, <1>10
  <2>2. cPc = "publish" => cEvent = pushed'[Len(heads)]
    <3>1. cPc = "publish" => Len(heads) \in 1 .. Len(pushed)
      BY DEF InPop, Histories
    <3> QED
      BY <3>1, <1>6 DEF WrittenSlots
  <2> QED
    BY <1>1, <1>4, <2>1, <2>2 DEF WrittenSlots
<1> QED
  BY <1>7, <1>8, <1>9, <1>11, <1>12, <1>13, <1>14

\* A tail that differs from head was stored after head's event was pushed.
LEMMA PopCheckInv ==
  ASSUME IndInv, NEW k \in Visible(cSeen, tails), PopCheck(k)
  PROVE  IndInv'
<1> USE DEF IndInv
<1>1. /\ k \in cSeen .. Len(tails) /\ cSeen' = k /\ cSync' = k /\ cLen' = NoLen
      /\ cPc = "idle"
      /\ (cPc' = cPc \/ (head # tails[k] /\ cPc' = "read"))
      /\ UNCHANGED <<slots, written, taken, pPc, pEvent, pSeen, pSync, pLen, tails,
                     pushed, cEvent, heads, popped>>
  BY DEF PopCheck, Visible, AcquireLoad, IsEmpty, slotVars, pVars
<1>2. head' = head /\ tail' = tail /\ Occupied' = Occupied
  BY <1>1 DEF head, tail, Occupied
<1>3. TypeOK'
  <2>1. SlotTypes'
    BY <1>1, IndexTypes, SizeAssumption DEF TypeOK, SlotTypes, ProducerTypes, ConsumerTypes
  <2>2. ProducerTypes'
    BY <1>1, IndexTypes, SizeAssumption DEF TypeOK, Positions, NoLen, ProducerTypes
  <2>3. ConsumerTypes'
    BY <1>1, IndexTypes, SizeAssumption DEF TypeOK, Positions, NoLen, ConsumerTypes
  <2> QED
    BY <2>1, <2>2, <2>3 DEF TypeOK
<1>4. ConsumerView'
  BY <1>1, <1>2, IndexTypes DEF ConsumerView
<1>5. InPop'
  <2>1. k - Len(heads) \in 0 .. Size - 1 /\ tails[k] = Wrap(head + (k - Len(heads)))
    BY <1>1 DEF ConsumerView
  <2>2. k = Len(heads) => tails[k] = head
    BY <2>1, IndexTypes, WrapSteps
  <2> QED
    BY <1>1, <2>1, <2>2, IndexTypes DEF InPop
<1>6. Histories' /\ ProducerView' /\ InPush' /\ TakenSlots'
  BY <1>1, <1>2 DEF Histories, ProducerView, InPush, TakenSlots
<1>7. WrittenSlots' /\ LenCalls'
  BY <1>1, <1>2 DEF WrittenSlots, LenCalls
<1> QED
  BY <1>3, <1>4, <1>5, <1>6, <1>7

\* The consumer is about to read an unread slot that it has synchronised with.
LEMMA ReadableSlot ==
  ASSUME IndInv, cPc = "read"
  PROVE  /\ written[head] = Len(heads) + 1 /\ written[head] <= cSync
         /\ slots[head] = pushed[Len(heads)]
<1>1. 0 < Occupied /\ Ahead(head, head) = 0
  BY IndexTypes, AheadSteps DEF IndInv, InPop, Occupied
<1> QED
  BY <1>1, IndexTypes DEF IndInv, WrittenSlots, InPop

\* Reading returns the oldest unread event.
LEMMA PopReadInv == ASSUME IndInv, PopRead PROVE IndInv'
<1> USE DEF IndInv
<1>1. /\ cPc = "read" /\ cPc' = "publish"
      /\ cEvent' \in ReadOutcomes(head)
      /\ taken' = [taken EXCEPT ![head] = Len(heads) + 1]
      /\ UNCHANGED <<slots, written, pPc, pEvent, pSeen, pSync, pLen, tails, pushed,
                     cSeen, cSync, cLen, heads, popped>>
  BY DEF PopRead, pVars
<1>2. head' = head /\ tail' = tail /\ Occupied' = Occupied
  BY <1>1 DEF head, tail, Occupied
<1>3. cEvent' = pushed[Len(heads)] /\ cEvent' = slots[head]
  <2>1. 0 < written[head] /\ written[head] <= cSync /\ slots[head] = pushed[Len(heads)]
    BY <1>1, ReadableSlot, IndexTypes
  <2> QED
    BY <1>1, <2>1 DEF ReadOutcomes
<1>4. TypeOK'
  <2>1. SlotTypes'
    <3>1. SlotTypes /\ Len(heads) + 1 \in Nat
      BY IndexTypes DEF TypeOK
    <3> HIDE DEF IndInv
    <3> QED
      BY <1>1, <3>1 DEF SlotTypes
  <2>2. ProducerTypes'
    BY <1>1, <1>3, IndexTypes DEF TypeOK, Positions, ProducerTypes
  <2>3. ConsumerTypes'
    <3>1. cEvent' \in Events \cup {Garbage}
      BY <1>3, IndexTypes DEF TypeOK, SlotTypes
    <3> QED
      BY <1>1, <3>1 DEF TypeOK, ConsumerTypes, Positions
  <2> QED
    BY <2>1, <2>2, <2>3 DEF TypeOK
<1>5. TakenSlots'
  <2>1. Occupied \in 1 .. Size - 1 /\ tail = Wrap(head + Occupied)
    BY <1>1, IndexTypes DEF InPop, ConsumerView, Occupied, tail
  <2>2. Ahead(tail, head) = Size - Occupied
    BY <2>1, IndexTypes, AheadSteps
  <2>3. taken'[head] = Len(heads) + 1
    BY <1>1, IndexTypes DEF TypeOK, SlotTypes
  <2>4. \A i \in Indices : i # head => taken'[i] = taken[i]
    BY <1>1 DEF TypeOK, SlotTypes
  <2>5. taken'[head] + Size <= Len(tails) + 1 + Ahead(tail, head)
    BY <2>1, <2>2, <2>3, IndexTypes, SizeAssumption DEF Occupied
  <2> QED
    BY <1>1, <1>2, <2>4, <2>5 DEF TakenSlots
<1>6. Histories' /\ ProducerView' /\ ConsumerView' /\ InPush' /\ InPop'
  BY <1>1, <1>2 DEF Histories, ProducerView, ConsumerView, InPush, InPop
<1>7. WrittenSlots' /\ LenCalls'
  BY <1>1, <1>2, <1>3 DEF WrittenSlots, LenCalls
<1> QED
  BY <1>4, <1>5, <1>6, <1>7

\* Storing the next head gives the slot just read back to the producer.
LEMMA PopPublishInv == ASSUME IndInv, PopPublish PROVE IndInv'
<1> USE DEF IndInv
<1>1. /\ cPc = "publish" /\ cPc' = "idle"
      /\ heads' = Append(heads, NextIndex(head))
      /\ popped' = Append(popped, cEvent)
      /\ UNCHANGED <<slots, written, taken, pPc, pEvent, pSeen, pSync, pLen, tails,
                     pushed, cEvent, cSeen, cSync, cLen>>
  BY DEF PopPublish, slotVars, pVars
<1> USE IndexTypes
<1>2. head \in Indices /\ NextIndex(head) = Wrap(head + 1) /\ Wrap(head + 1) \in Indices
  BY IndexArithmetic, WrapSteps
<1>3. /\ heads' \in Seq(Indices) /\ Len(heads') = Len(heads) + 1
      /\ \A j \in 1 .. Len(heads) : heads'[j] = heads[j]
      /\ heads'[Len(heads) + 1] = Wrap(head + 1)
  BY <1>1, <1>2, AppendSteps DEF TypeOK, ProducerTypes, ConsumerTypes
<1>4. tail' = tail /\ head' = Wrap(head + 1) /\ Occupied' = Occupied - 1
  BY <1>1, <1>3 DEF head, tail, Occupied
<1>5. popped' \in Seq(Events \cup {Garbage}) /\ Len(popped') = Len(heads)
  BY <1>1, AppendSteps DEF Histories, TypeOK, ConsumerTypes
<1>6. TypeOK'
  <2>1. SlotTypes'
    BY <1>1, <1>3, <1>5 DEF TypeOK, SlotTypes, ProducerTypes, ConsumerTypes
  <2>2. ProducerTypes'
    BY <1>1, <1>3, <1>5 DEF TypeOK, Positions, ProducerTypes
  <2>3. ConsumerTypes'
    BY <1>1, <1>3, <1>5 DEF TypeOK, Positions, ConsumerTypes
  <2> QED
    BY <2>1, <2>2, <2>3 DEF TypeOK
<1>7. Histories'
  BY <1>1, <1>3, <1>5 DEF Histories
<1>8. Occupied \in 1 .. Size - 1 /\ tail = Wrap(head + Occupied) /\ Len(heads) < cSeen
  BY <1>1 DEF InPop, ConsumerView, Occupied, tail
<1>9. ProducerView'
  <2> SUFFICES ASSUME NEW k \in pSeen .. Len(heads) + 1
               PROVE  /\ Len(tails) - k \in 0 .. Size - 1
                      /\ tail = Wrap(heads'[k] + (Len(tails) - k))
    BY <1>1, <1>3, <1>4 DEF ProducerView
  <2>1. CASE k = Len(heads) + 1
    <3>1. tail = Wrap(Wrap(head + 1) + (Occupied - 1))
      BY <1>8, WrapSteps
    <3>2. Len(tails) - k = Occupied - 1
      BY <2>1 DEF Occupied
    <3>3. heads'[k] = Wrap(head + 1)
      BY <2>1, <1>3
    <3>4. tail = Wrap(heads'[k] + (Len(tails) - k))
      <4> HIDE DEF IndInv
      <4> QED
        BY <3>1, <3>2, <3>3
    <3> QED
      BY <3>2, <3>4, <1>8, SizeAssumption
  <2>2. CASE k # Len(heads) + 1
    BY <2>2, <1>3 DEF ProducerView
  <2> QED
    BY <2>1, <2>2
<1>10. ConsumerView'
  <2> SUFFICES ASSUME NEW k \in cSeen .. Len(tails)
               PROVE  /\ k - (Len(heads) + 1) \in 0 .. Size - 1
                      /\ tails[k] = Wrap(Wrap(head + 1) + (k - (Len(heads) + 1)))
    BY <1>1, <1>3, <1>4 DEF ConsumerView
  <2>1. /\ k - Len(heads) \in 1 .. Size - 1
        /\ tails[k] = Wrap(head + (k - Len(heads)))
    BY <1>8 DEF ConsumerView
  <2>2. tails[k] = Wrap(Wrap(head + 1) + ((k - Len(heads)) - 1))
    BY <2>1, WrapSteps
  <2>3. k - (Len(heads) + 1) = (k - Len(heads)) - 1
    OBVIOUS
  <2>4. tails[k] = Wrap(Wrap(head + 1) + (k - (Len(heads) + 1)))
    <3> HIDE DEF IndInv
    <3> QED
      BY <2>2, <2>3
  <2> QED
    BY <2>1, <2>3, <2>4, SizeAssumption
<1>11. InPush' /\ InPop' /\ LenCalls'
  BY <1>1 DEF InPush, InPop, LenCalls
<1>12. TakenSlots'
  BY <1>1, <1>4 DEF TakenSlots
<1>13. WrittenSlots'
  <2>1. ASSUME NEW i \in Indices, Ahead(Wrap(head + 1), i) < Occupied - 1
        PROVE  /\ written[i] = Len(heads) + 1 + Ahead(Wrap(head + 1), i) + 1
               /\ slots[i] = pushed[Len(heads) + 1 + Ahead(Wrap(head + 1), i)]
    <3>1. i # head
      <4>1. Ahead(Wrap(head + 1), head) = Size - 1
        BY AheadSteps
      <4> QED
        BY <2>1, <4>1, <1>8, SizeAssumption
    <3>2. Ahead(Wrap(head + 1), i) = Ahead(head, i) - 1 /\ Ahead(head, i) \in 0 .. Size - 1
      BY <3>1, AheadSteps
    <3>3. Ahead(head, i) < Occupied
      BY <2>1, <3>2, <1>8
    <3>4. /\ written[i] = Len(heads) + Ahead(head, i) + 1
          /\ slots[i] = pushed[Len(heads) + Ahead(head, i)]
      BY <3>3 DEF WrittenSlots
    <3>5. Len(heads) + 1 + Ahead(Wrap(head + 1), i) = Len(heads) + Ahead(head, i)
      BY <3>2
    <3> QED
      BY <3>4, <3>5
  <2>2. pPc = "publish" => written[tail] = Len(tails) + 1 /\ slots[tail] = pEvent
    BY DEF WrittenSlots
  <2> QED
    BY <1>1, <1>3, <1>4, <2>1, <2>2 DEF WrittenSlots
<1> QED
  BY <1>6, <1>7, <1>9, <1>10, <1>11, <1>12, <1>13

\* The producer's len() counts the events pushed since the head it saw.
LEMMA ProducerLenInv ==
  ASSUME IndInv, NEW k \in Visible(pSeen, heads), ProducerLen(k)
  PROVE  IndInv'
<1> USE DEF IndInv
<1>1. /\ k \in pSeen .. Len(heads) /\ pSeen' = k /\ pLen' = Distance(heads[k], tail)
      /\ pPc = "idle"
      /\ UNCHANGED <<slots, written, taken, cPc, cEvent, cSeen, cSync, cLen, heads,
                     popped, pPc, pEvent, pSync, tails, pushed>>
  BY DEF ProducerLen, Visible, slotVars, cVars
<1>2. head' = head /\ tail' = tail /\ Occupied' = Occupied
  BY <1>1 DEF head, tail, Occupied
<1>3. pLen' = Len(tails) - k /\ Len(tails) - k \in 0 .. Size - 1
  <2>1. heads[k] \in Indices
    BY <1>1, IndexTypes DEF TypeOK, SlotTypes
  <2>2. tail = Wrap(heads[k] + (Len(tails) - k)) /\ Len(tails) - k \in 0 .. Size - 1
    BY <1>1 DEF ProducerView
  <2> QED
    BY <1>1, <2>1, <2>2, IndexTypes, IndexArithmetic, AheadSteps
<1>4. TypeOK'
  <2>1. SlotTypes'
    BY <1>1, <1>3, IndexTypes, SizeAssumption DEF TypeOK, SlotTypes, ProducerTypes, ConsumerTypes
  <2>2. ProducerTypes'
    BY <1>1, <1>3, IndexTypes, SizeAssumption DEF TypeOK, Positions, NoLen, ProducerTypes
  <2>3. ConsumerTypes'
    BY <1>1, <1>3, IndexTypes, SizeAssumption DEF TypeOK, Positions, NoLen, ConsumerTypes
  <2> QED
    BY <2>1, <2>2, <2>3 DEF TypeOK
<1>5. ProducerView'
  <2> SUFFICES ASSUME NEW j \in k .. Len(heads)
               PROVE  /\ Len(tails) - j \in 0 .. Size - 1
                      /\ tail = Wrap(heads[j] + (Len(tails) - j))
    BY <1>1, <1>2 DEF ProducerView
  <2>1. j \in pSeen .. Len(heads)
    BY <1>1, IndexTypes
  <2> QED
    BY <2>1 DEF ProducerView
<1>6. Histories' /\ ConsumerView' /\ InPush' /\ InPop' /\ TakenSlots' /\ WrittenSlots'
  BY <1>1, <1>2 DEF Histories, ConsumerView, InPush, InPop, TakenSlots, WrittenSlots
<1>7. LenCalls'
  BY <1>1, <1>3 DEF LenCalls
<1> QED
  BY <1>4, <1>5, <1>6, <1>7

\* The consumer's len() counts the events up to the tail it saw.
LEMMA ConsumerLenInv ==
  ASSUME IndInv, NEW k \in Visible(cSeen, tails), ConsumerLen(k)
  PROVE  IndInv'
<1> USE DEF IndInv
<1>1. /\ k \in cSeen .. Len(tails) /\ cSeen' = k /\ cLen' = Distance(head, tails[k])
      /\ cPc = "idle"
      /\ UNCHANGED <<slots, written, taken, pPc, pEvent, pSeen, pSync, pLen, tails,
                     pushed, cPc, cEvent, cSync, heads, popped>>
  BY DEF ConsumerLen, Visible, slotVars, pVars
<1>2. head' = head /\ tail' = tail /\ Occupied' = Occupied
  BY <1>1 DEF head, tail, Occupied
<1>3. cLen' = k - Len(heads) /\ k - Len(heads) \in 0 .. Size - 1
  <2>1. tails[k] \in Indices
    BY <1>1, IndexTypes DEF TypeOK, SlotTypes
  <2>2. tails[k] = Wrap(head + (k - Len(heads))) /\ k - Len(heads) \in 0 .. Size - 1
    BY <1>1 DEF ConsumerView
  <2> QED
    BY <1>1, <2>1, <2>2, IndexTypes, IndexArithmetic, AheadSteps
<1>4. TypeOK'
  <2>1. SlotTypes'
    BY <1>1, <1>3, IndexTypes, SizeAssumption DEF TypeOK, SlotTypes, ProducerTypes, ConsumerTypes
  <2>2. ProducerTypes'
    BY <1>1, <1>3, IndexTypes, SizeAssumption DEF TypeOK, Positions, NoLen, ProducerTypes
  <2>3. ConsumerTypes'
    BY <1>1, <1>3, IndexTypes, SizeAssumption DEF TypeOK, Positions, NoLen, ConsumerTypes
  <2> QED
    BY <2>1, <2>2, <2>3 DEF TypeOK
<1>5. ConsumerView'
  <2> SUFFICES ASSUME NEW j \in k .. Len(tails)
               PROVE  /\ j - Len(heads) \in 0 .. Size - 1
                      /\ tails[j] = Wrap(head + (j - Len(heads)))
    BY <1>1, <1>2 DEF ConsumerView
  <2>1. j \in cSeen .. Len(tails)
    BY <1>1, IndexTypes
  <2> QED
    BY <2>1 DEF ConsumerView
<1>6. Histories' /\ ProducerView' /\ InPush' /\ InPop' /\ TakenSlots' /\ WrittenSlots'
  BY <1>1, <1>2 DEF Histories, ProducerView, InPush, InPop, TakenSlots, WrittenSlots
<1>7. LenCalls'
  BY <1>1, <1>3 DEF LenCalls
<1> QED
  BY <1>4, <1>5, <1>6, <1>7

\* A step that changes nothing preserves the invariant.
LEMMA StutterInv == ASSUME IndInv, UNCHANGED vars PROVE IndInv'
  BY DEF IndInv, vars, slotVars, pVars, cVars, TypeOK, SlotTypes, ProducerTypes,
     ConsumerTypes, Positions, Histories, ProducerView,
     ConsumerView, InPush, InPop, TakenSlots, WrittenSlots, Occupied, head, tail, LenCalls

\* IndInv is an invariant of the specification.
THEOREM Invariance == Spec => []IndInv
<1>1. ASSUME IndInv, [Next]_vars PROVE IndInv'
  BY <1>1, PushCheckInv, PushWriteInv, PushPublishInv, PopCheckInv, PopReadInv,
     PopPublishInv, ProducerLenInv, ConsumerLenInv, StutterInv DEF Next, Push, Pop
<1> QED
  BY InitIndInv, <1>1, PTL DEF Spec

-------------------------------------------------------------------------------
(* The theorems *)

\* Indices, views and lengths of RingBuffer always have their types.
THEOREM TypeCorrectness == Spec => []TypeOK
<1>1. IndInv => TypeOK
  BY DEF IndInv
<1> QED
  BY Invariance, <1>1, PTL

\* Neither slot access of push and pop races with the other thread's, for every
\* buffer size and however stale the loads of head and tail are.
THEOREM RaceFreedom == Spec => []NoDataRace
<1>1. IndInv => NoDataRace
  <2> SUFFICES ASSUME IndInv PROVE NoDataRace
    OBVIOUS
  <2>1. pPc = "write" => taken[tail] <= pSync
    <3>1. taken[tail] \in Nat /\ Ahead(tail, tail) = 0
      BY IndexTypes, AheadSteps DEF IndInv, TypeOK, SlotTypes
    <3>2. taken[tail] = 0 \/ taken[tail] + Size <= Len(tails) + 1
      BY <3>1, IndexTypes DEF IndInv, TakenSlots
    <3> QED
      BY <3>1, <3>2, IndexTypes, SizeAssumption DEF IndInv, InPush
  <2>2. cPc = "read" => 0 < written[head] /\ written[head] <= cSync
    BY ReadableSlot, IndexTypes DEF IndInv
  <2> QED
    BY <2>1, <2>2 DEF NoDataRace
<1> QED
  BY Invariance, <1>1, PTL

\* A caller of len() may act on it: room seen by the producer and events seen by
\* the consumer do not go away.
THEOREM LenReliability == Spec => []LenIsReliable
<1>1. IndInv => LenIsReliable
  <2> SUFFICES ASSUME IndInv PROVE LenIsReliable
    OBVIOUS
  <2>1. ASSUME pLen < Capacity, NEW k \in Visible(pSeen, heads)
        PROVE  ~IsFull(tail, heads[k])
    <3>1. pLen = Len(tails) - pSeen
      BY <2>1, SizeAssumption DEF Capacity, NoLen, IndInv, LenCalls
    <3>2. /\ Len(tails) - k \in 0 .. Size - 2 /\ heads[k] \in Indices
          /\ tail = Wrap(heads[k] + (Len(tails) - k))
      BY <2>1, <3>1, IndexTypes, SizeAssumption
         DEF Visible, Capacity, IndInv, TypeOK, ProducerView
    <3> QED
      BY <3>2, IndexTypes, IndexArithmetic, WrapSteps, SizeAssumption DEF IsFull, IndInv
  <2>2. ASSUME cLen \in 1 .. Capacity, NEW k \in Visible(cSeen, tails)
        PROVE  ~IsEmpty(head, tails[k])
    <3>1. cLen = cSeen - Len(heads)
      BY <2>2, SizeAssumption DEF Capacity, NoLen, IndInv, LenCalls
    <3>2. /\ k - Len(heads) \in 1 .. Size - 1
          /\ tails[k] = Wrap(head + (k - Len(heads)))
      BY <2>2, <3>1, IndexTypes DEF Visible, IndInv, ConsumerView
    <3> QED
      BY <3>2, IndexTypes, WrapSteps DEF IsEmpty, IndInv
  <2> QED
    BY <2>1, <2>2 DEF LenIsReliable
<1> QED
  BY Invariance, <1>1, PTL

\* The ring buffer implements a FIFO of Size - 1 events: every step of push and
\* pop is an Enqueue, a Dequeue or invisible.
THEOREM QueueRefinement == Spec => ImplementsQueue
<1>1. Init => Queue!QueueInit
  BY DEF Init, Queue!QueueInit
<1>2. ASSUME IndInv, [Next]_vars PROVE [Queue!QueueNext]_(Queue!queueVars)
  <2>1. CASE PushPublish
    <3>1. pPc = "publish" /\ pushed' = Append(pushed, pEvent) /\ popped' = popped
      BY <2>1 DEF PushPublish, cVars
    <3>2. pEvent \in Events /\ Len(pushed) < Len(popped) + Capacity
      <4>1. pEvent \in Events /\ Len(tails) - pSeen < Size - 1
        BY <1>2, <3>1 DEF IndInv, InPush
      <4>2. Len(pushed) = Len(tails) - 1 /\ Len(popped) = Len(heads) - 1
        BY <1>2 DEF IndInv, Histories
      <4>3. pSeen \in 1 .. Len(heads) /\ Len(heads) \in Nat /\ Len(tails) \in Nat
        BY <1>2, IndexTypes DEF IndInv
      <4> QED
        BY <4>1, <4>2, <4>3, SizeAssumption DEF Capacity
    <3> QED
      BY <3>1, <3>2 DEF Queue!QueueNext, Queue!Enqueue
  <2>2. CASE PopPublish
    <3>1. cPc = "publish" /\ popped' = Append(popped, cEvent) /\ pushed' = pushed
      BY <2>2 DEF PopPublish, pVars
    <3>2. Len(popped) < Len(pushed) /\ cEvent = pushed[Len(popped) + 1]
      <4>1. Len(heads) < cSeen /\ cEvent = pushed[Len(heads)]
        BY <1>2, <3>1 DEF IndInv, InPop, WrittenSlots
      <4>2. Len(pushed) = Len(tails) - 1 /\ Len(popped) = Len(heads) - 1
        BY <1>2 DEF IndInv, Histories
      <4>3. cSeen \in 1 .. Len(tails) /\ Len(heads) \in Nat /\ Len(tails) \in Nat
        BY <1>2, IndexTypes DEF IndInv
      <4>4. Len(popped) + 1 = Len(heads)
        BY <4>2, <4>3
      <4> QED
        BY <4>1, <4>2, <4>3, <4>4
    <3> QED
      BY <3>1, <3>2 DEF Queue!QueueNext, Queue!Dequeue
  <2>3. CASE UNCHANGED <<pushed, popped>>
    BY <2>3 DEF Queue!queueVars
  <2>4. PushPublish \/ PopPublish \/ UNCHANGED <<pushed, popped>>
    BY <1>2 DEF Next, Push, Pop, PushCheck, PushWrite, PopCheck, PopRead, ProducerLen,
       ConsumerLen, vars, pVars, cVars
  <2> QED
    BY <2>1, <2>2, <2>3, <2>4
<1> QED
  BY Invariance, <1>1, <1>2, PTL DEF Spec, ImplementsQueue, Queue!QueueSpec
===============================================================================
