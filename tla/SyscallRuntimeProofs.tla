------------------------- MODULE SyscallRuntimeProofs -------------------------
(***************************************************************************)
(* SyscallHandler and TraceEmitter, for any number of callers, syscalls,   *)
(* calls and slots and every capacity of the channel: the counters agree   *)
(* with one another and with what was sent, at every moment between the    *)
(* steps of concurrent calls, and no caller's events go back in time.      *)
(*                                                                         *)
(* EventsAccounted and StatsFollowTotal are inductive once the counters    *)
(* are numbers. SlotsInCallOrder is not: the slot of an event is fixed     *)
(* before it is sent. The invariant adds that the slots held so far are 0, *)
(* 1, 2 and so on, that a caller about to send has in its event the slot   *)
(* it saw last, and that it sent none later than that.                     *)
(*                                                                         *)
(* The runtime binary ends with every event counted, for every number of   *)
(* events, every slot period and every capacity of the channel. Every step *)
(* of main or of the drain thread is a step of the handler, or touches     *)
(* only the ends of the channel, so HandlerInd survives it. What has to be *)
(* added is where main is, what it has counted there, and who still holds  *)
(* an end of the channel.                                                  *)
(*                                                                         *)
(* The theorems about the handler are about HandlerSpec and its callers;   *)
(* of the binary's constants they assume only that one of the callers is   *)
(* main.                                                                   *)
(***************************************************************************)
EXTENDS SyscallRuntime, FiniteFacts

Labels == {"idle", "emit", "drop", "total", "count"}

\* The n-th value of current_slot is n - 1.
SlotsCountUp == /\ Len(slots) <= MaxSlot + 1
                /\ \A k \in 1 .. Len(slots) : slots[k] = k - 1

\* A caller inside handle has made up its event.
EventsMade == /\ call = [c \in Callers |-> call[c]]
              /\ \A c \in Callers : pc[c] # "idle" => call[c] \in EventsOf(c)

\* What a caller has sent is of slots it has seen, and so is what it will send.
SentSlotsSeen ==
  /\ \A c \in Callers : pc[c] = "emit" => call[c].slot = slotSeen[c] - 1
  /\ \A n \in 1 .. Len(emitted) : emitted[n].slot < slotSeen[emitted[n].by]

HandlerTypes == HandlerTypeOK /\ SlotsCountUp /\ EventsMade

\* The inductive invariant.
HandlerInd == /\ HandlerTypes /\ SentSlotsSeen
              /\ EventsAccounted /\ StatsFollowTotal /\ SlotsInCallOrder

-------------------------------------------------------------------------------
\* Nothing is counted or sent in HandlerInit.
LEMMA HandlerInitInd == HandlerInit => HandlerInd
<1> SUFFICES ASSUME HandlerInit PROVE HandlerInd
  OBVIOUS
<1> USE DEF HandlerInit
<1>1. HandlerTypeOK
  BY BoundsAssumption, CapacityAssumption DEF HandlerTypeOK
<1>2. SlotsCountUp /\ EventsMade /\ SentSlotsSeen /\ SlotsInCallOrder
  BY BoundsAssumption DEF SlotsCountUp, EventsMade, SentSlotsSeen, SlotsInCallOrder
<1>3. EventsAccounted
  <2>1. Count(pc, Callers, "total") = 0
    BY CountNone
  <2> QED
    BY <2>1 DEF EventsAccounted, At, Count, Where
<1>4. StatsFollowTotal
  <2>1. Count(pc, Callers, "count") = 0
    BY CountNone
  <2>2. SumOver(callCounts, Ids) = 0
    BY SumOfZeros, CallersAssumption
  <2> QED
    BY <2>1, <2>2 DEF StatsFollowTotal, At, Count, Where, SumOver
<1> QED
  BY <1>1, <1>2, <1>3, <1>4 DEF HandlerInd, HandlerTypes

\* The types survive a step of a caller.
LEMMA CallerTypes ==
  ASSUME HandlerTypes, NEW c \in Callers, CallerStep(c)
  PROVE  HandlerTypes'
<1> USE DEF HandlerTypes
<1> USE BoundsAssumption, CapacityAssumption
<1>1. ASSUME NEW id \in Ids, HandleBegin(c, id) PROVE HandlerTypes'
  <2>1. PICK k \in slotSeen[c] .. Len(slots) :
          /\ call' = [call EXCEPT ![c] = [by |-> c, id |-> id, slot |-> slots[k]]]
          /\ slotSeen' = [slotSeen EXCEPT ![c] = k]
    BY <1>1 DEF HandleBegin
  <2>2. /\ pc[c] = "idle" /\ calls[c] < MaxCalls
        /\ calls' = [calls EXCEPT ![c] = @ + 1]
        /\ pc' = [pc EXCEPT ![c] = "emit"]
        /\ UNCHANGED <<slots, totalCalls, callCounts, dropped, channel, senderUp,
                       receiverUp, emitted, received, unheard, eligible>>
    BY <1>1 DEF HandleBegin, Goto, counterVars, channelVars
  <2>3. k \in 1 .. Len(slots) /\ slots[k] \in 0 .. MaxSlot
    <3>1. Len(slots) \in Nat /\ k \in 1 .. Len(slots)
      BY <2>1 DEF HandlerTypeOK
    <3>2. Len(slots) <= MaxSlot + 1 /\ slots[k] = k - 1
      BY <3>1 DEF SlotsCountUp
    <3> QED
      BY <3>1, <3>2, BoundsAssumption
  <2>4. [by |-> c, id |-> id, slot |-> slots[k]] \in EventsOf(c)
    BY <2>3 DEF EventsOf
  <2>5. EventsMade' /\ \A d \in Callers : call'[d] \in EventsOf(d) \cup {NoEvent}
    BY <2>1, <2>2, <2>4 DEF EventsMade, HandlerTypeOK
  <2>6. /\ slotSeen' \in [Callers -> 1 .. Len(slots')]
        /\ calls' \in [Callers -> 0 .. MaxCalls]
        /\ pc' \in [Callers -> Labels]
    <3>1. slotSeen' \in [Callers -> 1 .. Len(slots')]
      BY <2>1, <2>2, <2>3 DEF HandlerTypeOK
    <3>2. calls[c] + 1 \in 0 .. MaxCalls
      BY <2>2 DEF HandlerTypeOK
    <3>3. calls' \in [Callers -> 0 .. MaxCalls]
      BY <2>2, <3>2 DEF HandlerTypeOK
    <3>4. pc' \in [Callers -> Labels]
      BY <2>2 DEF HandlerTypeOK, Labels
    <3> QED
      BY <3>1, <3>3, <3>4
  <2>7. HandlerTypeOK'
    BY <2>2, <2>5, <2>6 DEF HandlerTypeOK, Labels
  <2>8. SlotsCountUp'
    BY <2>2 DEF SlotsCountUp
  <2> QED
    BY <2>5, <2>7, <2>8
<1>2. CASE EmitOk(c)
  <2>1. /\ pc[c] = "emit" /\ Len(channel) < ChannelCapacity
        /\ channel' = Append(channel, call[c]) /\ emitted' = Append(emitted, call[c])
        /\ pc' = [pc EXCEPT ![c] = "total"]
        /\ UNCHANGED <<slots, totalCalls, callCounts, dropped, senderUp, receiverUp,
                       received, unheard, call, slotSeen, calls, eligible>>
    BY <1>2 DEF EmitOk, TrySend, ChannelFull, Goto, counterVars, HandlerTypeOK
  <2>2. call[c] \in TraceEvents
    BY <2>1 DEF EventsMade, TraceEvents
  <2>3. /\ channel' \in Seq(TraceEvents) /\ Len(channel') <= ChannelCapacity
        /\ emitted' \in Seq(TraceEvents)
    BY <2>1, <2>2 DEF HandlerTypeOK
  <2>4. HandlerTypeOK'
    BY <2>1, <2>3 DEF HandlerTypeOK
  <2>5. SlotsCountUp' /\ EventsMade'
    BY <2>1 DEF SlotsCountUp, EventsMade
  <2> QED
    BY <2>4, <2>5
<1>3. CASE EmitFull(c) \/ EmitDisconnected(c) \/ CountDrop(c) \/ CountTotal(c)
  <2>1. /\ pc[c] # "idle"
        /\ \E l \in {"total", "drop", "count"} : pc' = [pc EXCEPT ![c] = l]
        /\ totalCalls' \in {totalCalls, totalCalls + 1}
        /\ dropped' \in {dropped, dropped + 1} /\ unheard' \in {unheard, unheard + 1}
        /\ UNCHANGED <<slots, callCounts, channel, senderUp, receiverUp, emitted,
                       received, call, slotSeen, calls, eligible>>
    BY <1>3 DEF EmitFull, EmitDisconnected, CountDrop, CountTotal, Goto, AfterFull,
       counterVars, channelVars
  <2>2. HandlerTypeOK'
    BY <2>1 DEF HandlerTypeOK
  <2>3. SlotsCountUp' /\ EventsMade'
    BY <2>1 DEF SlotsCountUp, EventsMade
  <2> QED
    BY <2>2, <2>3
<1>4. CASE CountCall(c)
  <2>1. /\ pc[c] = "count" /\ pc' = [pc EXCEPT ![c] = "idle"]
        /\ callCounts' = [callCounts EXCEPT ![call[c].id] = @ + 1]
        /\ eligible' = [eligible EXCEPT ![c] = registry_eligible(call[c].id)]
        /\ UNCHANGED <<slots, totalCalls, dropped, channel, senderUp, receiverUp,
                       emitted, received, unheard, call, slotSeen, calls>>
    BY <1>4 DEF CountCall, Incremented, Goto, channelVars
  <2>2. call[c].id \in Ids
    BY <2>1 DEF EventsMade, EventsOf
  <2>3. callCounts' \in [Ids -> Nat]
    BY <2>1, <2>2 DEF HandlerTypeOK
  <2>4. eligible' \in [Callers -> BOOLEAN]
    <3>1. registry_eligible(call[c].id) \in BOOLEAN
      BY DEF registry_eligible
    <3> QED
      BY <2>1, <3>1 DEF HandlerTypeOK
  <2>5. HandlerTypeOK'
    BY <2>1, <2>3, <2>4 DEF HandlerTypeOK
  <2>6. SlotsCountUp' /\ EventsMade'
    BY <2>1 DEF SlotsCountUp, EventsMade
  <2> QED
    BY <2>5, <2>6
<1>5. CASE AdvanceSlot(c)
  <2>1. /\ pc[c] = "idle" /\ Len(slots) <= MaxSlot
        /\ slots' = Append(slots, slots[Len(slots)] + 1)
        /\ slotSeen' = [slotSeen EXCEPT ![c] = Len(slots) + 1]
        /\ UNCHANGED <<totalCalls, callCounts, dropped, channel, senderUp, receiverUp,
                       emitted, received, unheard, pc, call, calls, eligible>>
    BY <1>5 DEF AdvanceSlot, SlotAfter, currentSlot, counterVars, channelVars
  <2>2. Len(slots) \in Nat \ {0} /\ slots[Len(slots)] + 1 = Len(slots)
    <3>1. Len(slots) \in Nat \ {0}
      BY DEF HandlerTypeOK
    <3> QED
      BY <3>1 DEF SlotsCountUp
  <2>3. /\ slots' \in Seq(0 .. MaxSlot) /\ Len(slots') = Len(slots) + 1
        /\ slots' # <<>> /\ SlotsCountUp'
    <3> DEFINE last == slots[Len(slots)] + 1
    <3>1. slots \in Seq(0 .. MaxSlot) /\ last \in 0 .. MaxSlot /\ last = Len(slots)
      BY <2>1, <2>2, BoundsAssumption DEF HandlerTypeOK
    <3>2. slots' = Append(slots, last)
      BY <2>1
    <3> HIDE DEF last
    <3>3. slots' \in Seq(0 .. MaxSlot) /\ Len(slots') = Len(slots) + 1
      BY <3>1, <3>2
    <3>4. slots' # <<>>
      BY <3>1, <3>2
    <3>5. /\ \A k \in 1 .. Len(slots) : slots'[k] = slots[k]
          /\ slots'[Len(slots) + 1] = last
      BY <3>1, <3>2
    <3>6. SlotsCountUp'
      BY <2>2, <3>1, <3>3, <3>5 DEF SlotsCountUp
    <3> QED
      BY <3>3, <3>4, <3>6
  <2>4. slotSeen' \in [Callers -> 1 .. Len(slots')]
    BY <2>1, <2>2, <2>3 DEF HandlerTypeOK
  <2>5. HandlerTypeOK'
    BY <2>1, <2>3, <2>4 DEF HandlerTypeOK
  <2>6. EventsMade'
    BY <2>1 DEF EventsMade
  <2> QED
    BY <2>3, <2>5, <2>6
<1> QED
  BY <1>1, <1>2, <1>3, <1>4, <1>5 DEF CallerStep, HandleStep

\* A caller's events carry its name, and only callers send.
LEMMA EventNames ==
  ASSUME HandlerTypes
  PROVE  /\ \A c \in Callers : pc[c] # "idle" => call[c].by = c /\ call[c].slot \in Nat
         /\ \A n \in 1 .. Len(emitted) : emitted[n].by \in Callers /\ emitted[n].slot \in Nat
<1>1. \A c \in Callers : \A e \in EventsOf(c) : e.by = c /\ e.slot \in Nat
  BY DEF EventsOf
<1>2. \A n \in 1 .. Len(emitted) : emitted[n] \in TraceEvents
  BY DEF HandlerTypes, HandlerTypeOK
<1> QED
  BY <1>1, <1>2 DEF HandlerTypes, EventsMade, TraceEvents

\* No step of a caller sends an event of an earlier slot than the same caller
\* sent before.
LEMMA CallerOrder ==
  ASSUME HandlerTypes, SentSlotsSeen, SlotsInCallOrder, NEW c \in Callers, CallerStep(c)
  PROVE  SentSlotsSeen' /\ SlotsInCallOrder'
<1>0. /\ emitted \in Seq(TraceEvents) /\ slots \in Seq(0 .. MaxSlot)
      /\ slotSeen \in [Callers -> 1 .. Len(slots)]
      /\ pc \in [Callers -> Labels]
      /\ call = [d \in Callers |-> call[d]]
  BY DEF HandlerTypes, HandlerTypeOK, EventsMade, Labels
<1>n. Len(emitted) \in Nat /\ Len(slots) \in Nat
  BY <1>0
<1>1. ASSUME NEW id \in Ids, HandleBegin(c, id) PROVE SentSlotsSeen' /\ SlotsInCallOrder'
  <2>1. PICK k \in slotSeen[c] .. Len(slots) :
          /\ call' = [call EXCEPT ![c] = [by |-> c, id |-> id, slot |-> slots[k]]]
          /\ slotSeen' = [slotSeen EXCEPT ![c] = k]
    BY <1>1 DEF HandleBegin
  <2>2. pc' = [pc EXCEPT ![c] = "emit"] /\ emitted' = emitted
    BY <1>1 DEF HandleBegin, Goto, channelVars
  <2>3. slotSeen[c] <= k /\ slots[k] = k - 1
    BY <1>0, <1>n, <2>1 DEF HandlerTypes, SlotsCountUp
  <2>4. \A d \in Callers : /\ slotSeen'[d] >= slotSeen[d] /\ slotSeen'[d] \in Nat
                           /\ d # c => /\ slotSeen'[d] = slotSeen[d]
                                       /\ call'[d] = call[d] /\ pc'[d] = pc[d]
    BY <1>0, <1>n, <2>1, <2>2, <2>3
  <2>5. call'[c].slot = slotSeen'[c] - 1
    BY <1>0, <2>1, <2>3
  <2>6. \A n \in 1 .. Len(emitted) : emitted[n].slot < slotSeen'[emitted[n].by]
    BY <1>0, <2>4, EventNames DEF SentSlotsSeen
  <2> QED
    BY <2>2, <2>4, <2>5, <2>6 DEF SentSlotsSeen, SlotsInCallOrder
<1>2. CASE EmitOk(c)
  <2>1. /\ pc[c] = "emit" /\ pc' = [pc EXCEPT ![c] = "total"]
        /\ emitted' = Append(emitted, call[c])
        /\ UNCHANGED <<call, slotSeen>>
    BY <1>2 DEF EmitOk, Goto
  <2>2. call[c].by = c /\ call[c].slot = slotSeen[c] - 1 /\ call[c].slot \in Nat
    BY <2>1, EventNames DEF SentSlotsSeen
  <2>3. /\ Len(emitted') = Len(emitted) + 1
        /\ emitted'[Len(emitted) + 1] = call[c]
        /\ \A n \in 1 .. Len(emitted) : emitted'[n] = emitted[n]
    BY <1>0, <2>1
  <2>4. SentSlotsSeen'
    <3>1. \A d \in Callers : pc'[d] = "emit" => pc[d] = "emit"
      BY <1>0, <2>1
    <3>2. slotSeen[c] \in Nat
      BY <1>0, <1>n
    <3>3. ASSUME NEW n \in 1 .. Len(emitted')
          PROVE  emitted'[n].slot < slotSeen'[emitted'[n].by]
      <4>1. CASE n \in 1 .. Len(emitted)
        BY <2>1, <2>3, <4>1 DEF SentSlotsSeen
      <4>2. CASE n = Len(emitted) + 1
        BY <2>1, <2>2, <2>3, <3>2, <4>2
      <4> QED
        BY <1>n, <2>3, <4>1, <4>2
    <3> QED
      BY <2>1, <3>1, <3>3 DEF SentSlotsSeen
  <2>5. SlotsInCallOrder'
    <3> SUFFICES ASSUME NEW n \in 1 .. Len(emitted'), NEW m \in 1 .. Len(emitted'),
                        n < m, emitted'[n].by = emitted'[m].by
                 PROVE  emitted'[n].slot <= emitted'[m].slot
      BY DEF SlotsInCallOrder
    <3>1. n \in 1 .. Len(emitted)
      BY <1>n, <2>3
    <3>2. CASE m \in 1 .. Len(emitted)
      BY <2>3, <3>1, <3>2 DEF SlotsInCallOrder
    <3>3. CASE m = Len(emitted) + 1
      <4>1. emitted[n].by = c /\ emitted[n].slot < slotSeen[c]
        BY <2>2, <2>3, <3>1, <3>3 DEF SentSlotsSeen
      <4>2. emitted[n].slot \in Nat /\ slotSeen[c] \in Nat
        BY <1>0, <1>n, <3>1, EventNames
      <4> QED
        BY <2>2, <2>3, <3>1, <3>3, <4>1, <4>2
    <3> QED
      BY <1>n, <2>3, <3>2, <3>3
  <2> QED
    BY <2>4, <2>5
<1>3. CASE EmitFull(c) \/ EmitDisconnected(c) \/ CountDrop(c) \/ CountTotal(c) \/ CountCall(c)
  <2>1. /\ \E l \in Labels \ {"emit"} : pc' = [pc EXCEPT ![c] = l]
        /\ UNCHANGED <<call, slotSeen, emitted>>
    BY <1>3 DEF EmitFull, EmitDisconnected, CountDrop, CountTotal, CountCall, Goto,
       AfterFull, channelVars, Labels
  <2>2. \A d \in Callers : pc'[d] = "emit" => pc[d] = "emit"
    BY <1>0, <2>1
  <2> QED
    BY <2>1, <2>2 DEF SentSlotsSeen, SlotsInCallOrder
<1>4. CASE AdvanceSlot(c)
  <2>1. /\ pc[c] = "idle" /\ slotSeen' = [slotSeen EXCEPT ![c] = Len(slots) + 1]
        /\ UNCHANGED <<pc, call, emitted>>
    BY <1>4 DEF AdvanceSlot, channelVars
  <2>2. \A d \in Callers : /\ slotSeen'[d] >= slotSeen[d] /\ slotSeen'[d] \in Nat
                           /\ slotSeen[d] \in Nat
                           /\ d # c => slotSeen'[d] = slotSeen[d]
    BY <1>0, <1>n, <2>1
  <2>3. \A n \in 1 .. Len(emitted) : emitted[n].slot < slotSeen'[emitted[n].by]
    BY <2>2, EventNames DEF SentSlotsSeen
  <2> QED
    BY <2>1, <2>2, <2>3 DEF SentSlotsSeen, SlotsInCallOrder
<1> QED
  BY <1>1, <1>2, <1>3, <1>4 DEF CallerStep, HandleStep

\* EventsAccounted and StatsFollowTotal, in terms of Count and SumOver.
LEMMA CountersRestated ==
  /\ EventsAccounted <=>
       Len(emitted) + dropped + unheard = totalCalls + Count(pc, Callers, "total")
  /\ StatsFollowTotal <=>
       totalCalls = SumOver(callCounts, Ids) + Count(pc, Callers, "count")
  BY DEF EventsAccounted, StatsFollowTotal, At, Count, Where, SumOver

\* Each step of a caller moves it from one counter's debt to the next one's.
LEMMA CallerCounts ==
  ASSUME HandlerTypes, EventsAccounted, StatsFollowTotal, NEW c \in Callers, CallerStep(c)
  PROVE  EventsAccounted' /\ StatsFollowTotal'
<1> DEFINE T == Count(pc, Callers, "total")
           C == Count(pc, Callers, "count")
           T1 == Count(pc', Callers, "total")
           C1 == Count(pc', Callers, "count")
           S == SumOver(callCounts, Ids)
           S1 == SumOver(callCounts', Ids)
<1>0. /\ totalCalls \in Nat /\ dropped \in Nat /\ unheard \in Nat
      /\ callCounts \in [Ids -> Nat] /\ emitted \in Seq(TraceEvents)
      /\ pc \in [Callers -> Labels] /\ Len(emitted) \in Nat
  BY DEF HandlerTypes, HandlerTypeOK, Labels
<1>1. Len(emitted) + dropped + unheard = totalCalls + T /\ totalCalls = S + C
  BY CountersRestated
<1> SUFFICES Len(emitted') + dropped' + unheard' = totalCalls' + T1 /\ totalCalls' = S1 + C1
  <2>1. (EventsAccounted /\ StatsFollowTotal)' <=>
          Len(emitted') + dropped' + unheard' = totalCalls' + T1 /\ totalCalls' = S1 + C1
    BY Zenon DEF EventsAccounted, StatsFollowTotal, At, Count, Where, SumOver,
       MapThenSumSet, MapThenFoldSet
  <2> QED
    BY <2>1
<1>2. T \in Nat /\ C \in Nat
  <2>1. SameBut(pc, pc, Callers, c)
    BY DEF SameBut
  <2> QED
    BY <2>1, CallersAssumption, CountMoves
<1>3. ASSUME NEW l \in Labels, pc' = [pc EXCEPT ![c] = l]
      PROVE  /\ T1 = T + (IF l = "total" THEN 1 ELSE 0) - (IF pc[c] = "total" THEN 1 ELSE 0)
             /\ C1 = C + (IF l = "count" THEN 1 ELSE 0) - (IF pc[c] = "count" THEN 1 ELSE 0)
  <2>1. pc'[c] = l /\ SameBut(pc, pc', Callers, c)
    BY <1>0, <1>3 DEF SameBut
  <2>2. /\ pc[c] = "total" /\ pc'[c] # "total" => T1 = T - 1
        /\ pc[c] # "total" /\ pc'[c] = "total" => T1 = T + 1
        /\ (pc[c] = "total" <=> pc'[c] = "total") => T1 = T
    BY <2>1, CallersAssumption, CountMoves
  <2>3. /\ pc[c] = "count" /\ pc'[c] # "count" => C1 = C - 1
        /\ pc[c] # "count" /\ pc'[c] = "count" => C1 = C + 1
        /\ (pc[c] = "count" <=> pc'[c] = "count") => C1 = C
    BY <2>1, CallersAssumption, CountMoves
  <2> HIDE DEF T, C, T1, C1
  <2> QED
    BY <1>2, <2>1, <2>2, <2>3
<1> HIDE DEF T, C, T1, C1
<1>4. UNCHANGED callCounts => S1 = S
  OBVIOUS
<1>5. ASSUME NEW x \in Ids, callCounts' = [callCounts EXCEPT ![x] = @ + 1]
      PROVE  S \in Nat /\ S1 = S + 1
  BY <1>0, <1>5, SumChanges, CallersAssumption
<1> HIDE DEF S, S1
<1>6. ASSUME NEW id \in Ids, HandleBegin(c, id)
      PROVE  Len(emitted') + dropped' + unheard' = totalCalls' + T1 /\ totalCalls' = S1 + C1
  <2>1. /\ pc[c] = "idle" /\ pc' = [pc EXCEPT ![c] = "emit"]
        /\ UNCHANGED <<totalCalls, callCounts, dropped, unheard, emitted>>
    BY <1>6 DEF HandleBegin, Goto, counterVars, channelVars
  <2>2. T1 = T /\ C1 = C
    BY <1>2, <1>3, <2>1 DEF Labels
  <2> QED
    BY <1>1, <1>4, <2>1, <2>2
<1>7. CASE EmitOk(c)
  <2>1. /\ pc[c] = "emit" /\ pc' = [pc EXCEPT ![c] = "total"]
        /\ emitted' = Append(emitted, call[c])
        /\ UNCHANGED <<totalCalls, callCounts, dropped, unheard>>
    BY <1>7 DEF EmitOk, Goto, counterVars
  <2>2. T1 = T + 1 /\ C1 = C
    BY <1>2, <1>3, <2>1 DEF Labels
  <2>3. Len(emitted') = Len(emitted) + 1
    BY <1>0, <2>1
  <2> QED
    BY <1>0, <1>1, <1>2, <1>4, <2>1, <2>2, <2>3
<1>8. CASE EmitFull(c)
  <2>1. /\ pc[c] = "emit" /\ pc' = [pc EXCEPT ![c] = "drop"]
        /\ UNCHANGED <<totalCalls, callCounts, dropped, unheard, emitted>>
    BY <1>8 DEF EmitFull, Goto, AfterFull, counterVars, channelVars
  <2>2. T1 = T /\ C1 = C
    BY <1>2, <1>3, <2>1 DEF Labels
  <2> QED
    BY <1>1, <1>4, <2>1, <2>2
<1>9. CASE EmitDisconnected(c) \/ CountDrop(c)
  <2>1. /\ pc[c] \in {"emit", "drop"} /\ pc' = [pc EXCEPT ![c] = "total"]
        /\ \/ dropped' = dropped /\ unheard' = unheard + 1
           \/ dropped' = dropped + 1 /\ unheard' = unheard
        /\ UNCHANGED <<totalCalls, callCounts, emitted>>
    BY <1>9 DEF EmitDisconnected, CountDrop, Goto, counterVars, channelVars
  <2>2. T1 = T + 1 /\ C1 = C
    BY <1>2, <1>3, <2>1 DEF Labels
  <2>3. Len(emitted) + dropped' + unheard' = totalCalls + T + 1
    <3>1. Len(emitted) \in Nat /\ totalCalls \in Nat /\ dropped \in Nat /\ unheard \in Nat
      BY <1>0
    <3>2. Len(emitted) + dropped + unheard = totalCalls + T
      BY <1>1
    <3>3. \/ dropped' = dropped /\ unheard' = unheard + 1
          \/ dropped' = dropped + 1 /\ unheard' = unheard
      BY <2>1
    <3> QED
      BY <1>2, <3>1, <3>2, <3>3
  <2> QED
    BY <1>0, <1>1, <1>2, <1>4, <2>1, <2>2, <2>3
<1>10. CASE CountTotal(c)
  <2>1. /\ pc[c] = "total" /\ pc' = [pc EXCEPT ![c] = "count"]
        /\ totalCalls' = totalCalls + 1
        /\ UNCHANGED <<callCounts, dropped, unheard, emitted>>
    BY <1>10 DEF CountTotal, Goto, channelVars
  <2>2. T1 = T - 1 /\ C1 = C + 1
    BY <1>2, <1>3, <2>1 DEF Labels
  <2>3. S + C + 1 = S + (C + 1)
    <3>1. S \in Nat
      <4>1. SumOver(callCounts, Ids) \in Nat
        BY <1>0, CallersAssumption, SumIsNat
      <4> QED
        BY <4>1 DEF S
    <3> QED
      BY <1>2, <3>1
  <2> QED
    BY <1>0, <1>1, <1>2, <1>4, <2>1, <2>2, <2>3
<1>11. CASE CountCall(c)
  <2>1. /\ pc[c] = "count" /\ pc' = [pc EXCEPT ![c] = "idle"]
        /\ callCounts' = [callCounts EXCEPT ![call[c].id] = @ + 1]
        /\ UNCHANGED <<totalCalls, dropped, unheard, emitted>>
    BY <1>11 DEF CountCall, Goto, Incremented, channelVars
  <2>2. call[c].id \in Ids
    BY <2>1 DEF HandlerTypes, EventsMade, EventsOf
  <2>3. T1 = T /\ C1 = C - 1
    BY <1>2, <1>3, <2>1 DEF Labels
  <2>4. S \in Nat /\ S1 = S + 1
    BY <1>5, <2>1, <2>2
  <2> QED
    BY <1>0, <1>1, <1>2, <2>1, <2>3, <2>4
<1>12. CASE AdvanceSlot(c)
  <2>1. UNCHANGED <<totalCalls, callCounts, dropped, unheard, emitted, pc>>
    BY <1>12 DEF AdvanceSlot, counterVars, channelVars
  <2> QED
    BY <1>1, <1>4, <2>1 DEF T, C, T1, C1
<1> QED
  BY <1>6, <1>7, <1>8, <1>9, <1>10, <1>11, <1>12 DEF CallerStep, HandleStep

\* A caller's step keeps the invariant.
LEMMA CallerInd ==
  ASSUME HandlerInd, NEW c \in Callers, CallerStep(c)
  PROVE  HandlerInd'
  BY CallerTypes, CallerOrder, CallerCounts DEF HandlerInd

\* So does whatever touches only the channel and its ends and keeps its type.
LEMMA ChannelInd ==
  ASSUME HandlerInd, channel' \in Seq(TraceEvents), Len(channel') <= ChannelCapacity,
         received' \in Seq(TraceEvents), senderUp' \in BOOLEAN, receiverUp' \in BOOLEAN,
         UNCHANGED <<slots, counterVars, emitted, unheard, callerVars>>
  PROVE  HandlerInd'
<1>1. UNCHANGED <<slots, totalCalls, callCounts, dropped, emitted, unheard,
                  pc, call, slotSeen, calls, eligible>>
  BY DEF counterVars, callerVars
<1>2. HandlerTypeOK'
  BY <1>1 DEF HandlerInd, HandlerTypes, HandlerTypeOK
<1>3. SlotsCountUp' /\ EventsMade' /\ SentSlotsSeen' /\ SlotsInCallOrder'
  BY <1>1 DEF HandlerInd, HandlerTypes, SlotsCountUp, EventsMade, SentSlotsSeen, SlotsInCallOrder
<1>4. EventsAccounted' /\ StatsFollowTotal'
  BY <1>1, Zenon DEF HandlerInd, EventsAccounted, StatsFollowTotal, At,
     MapThenSumSet, MapThenFoldSet
<1> QED
  BY <1>2, <1>3, <1>4 DEF HandlerInd, HandlerTypes

\* Receiving takes one event out of the channel.
LEMMA ReceiveInd == HandlerInd /\ Receive => HandlerInd'
<1> SUFFICES ASSUME HandlerInd, Receive PROVE HandlerInd'
  OBVIOUS
<1>1. /\ channel \in Seq(TraceEvents) /\ Len(channel) <= ChannelCapacity
      /\ received \in Seq(TraceEvents) /\ senderUp \in BOOLEAN /\ receiverUp \in BOOLEAN
  BY DEF HandlerInd, HandlerTypes, HandlerTypeOK
<1>2. Tail(channel) \in Seq(TraceEvents) /\ Len(Tail(channel)) <= ChannelCapacity
      /\ Head(channel) \in TraceEvents
  BY <1>1, CapacityAssumption DEF Receive
<1>3. channel' \in Seq(TraceEvents) /\ Len(channel') <= ChannelCapacity
      /\ received' \in Seq(TraceEvents)
  BY <1>1, <1>2 DEF Receive
<1> QED
  BY <1>1, <1>3, ChannelInd DEF Receive

\* A dropped receiver takes the channel with it.
LEMMA QuitInd == HandlerInd /\ ReceiverQuits => HandlerInd'
<1> SUFFICES ASSUME HandlerInd, ReceiverQuits PROVE HandlerInd'
  OBVIOUS
<1>1. received \in Seq(TraceEvents) /\ senderUp \in BOOLEAN
  BY DEF HandlerInd, HandlerTypes, HandlerTypeOK
<1>2. channel' \in Seq(TraceEvents) /\ Len(channel') <= ChannelCapacity
  BY CapacityAssumption DEF ReceiverQuits
<1> QED
  BY <1>1, <1>2, ChannelInd DEF ReceiverQuits

\* The invariant holds of every reachable state.
THEOREM HandlerIndHolds == HandlerSpec => []HandlerInd
<1>1. HandlerInd /\ [HandlerNext]_handlerVars => HandlerInd'
  <2> SUFFICES ASSUME HandlerInd, [HandlerNext]_handlerVars PROVE HandlerInd'
    OBVIOUS
  <2>1. CASE UNCHANGED handlerVars
    <3>1. /\ UNCHANGED <<slots, counterVars, emitted, unheard, callerVars>>
          /\ UNCHANGED <<channel, received, senderUp, receiverUp>>
      BY <2>1 DEF handlerVars, channelVars
    <3>2. /\ channel' \in Seq(TraceEvents) /\ Len(channel') <= ChannelCapacity
          /\ received' \in Seq(TraceEvents)
          /\ senderUp' \in BOOLEAN /\ receiverUp' \in BOOLEAN
      BY <3>1 DEF HandlerInd, HandlerTypes, HandlerTypeOK
    <3> QED
      BY <3>1, <3>2, ChannelInd
  <2> QED
    BY <2>1, CallerInd, ReceiveInd, QuitInd DEF HandlerNext
<1> QED
  BY <1>1, HandlerInitInd, PTL DEF HandlerSpec

-------------------------------------------------------------------------------
\* The handler's fields keep their types, and the channel never holds more than
\* its capacity, however many threads emit at once.
THEOREM HandlerTypeOKHolds == HandlerSpec => []HandlerTypeOK
<1>1. HandlerInd => HandlerTypeOK
  BY DEF HandlerInd, HandlerTypes
<1> QED
  BY <1>1, HandlerIndHolds, PTL

\* No event is lost silently: sent, counted as dropped or refused by a closed
\* channel, for any number of concurrent calls of emit.
THEOREM EventsAccountedHolds == HandlerSpec => []EventsAccounted
<1>1. HandlerInd => EventsAccounted
  BY DEF HandlerInd
<1> QED
  BY <1>1, HandlerIndHolds, PTL

\* total_calls() is what stats() adds up to, and the calls between the two
\* counters.
THEOREM StatsFollowTotalHolds == HandlerSpec => []StatsFollowTotal
<1>1. HandlerInd => StatsFollowTotal
  BY DEF HandlerInd
<1> QED
  BY <1>1, HandlerIndHolds, PTL

\* The slots of one caller's events never go back, whoever calls advance_slot
\* while they are on their way.
THEOREM SlotsInCallOrderHolds == HandlerSpec => []SlotsInCallOrder
<1>1. HandlerInd => SlotsInCallOrder
  BY DEF HandlerInd
<1> QED
  BY <1>1, HandlerIndHolds, PTL

-------------------------------------------------------------------------------
(* The runtime binary *)

\* Main has counted the calls of the iterations it has completed, and the call
\* of the current one once handle has counted it.
MainCounts ==
  /\ i \in 0 .. TotalEvents
  /\ mainPc \in {"loop", "call", "slot", "join", "done"}
  /\ mainPc = "loop" => pc[main] = "idle" /\ totalCalls = i
  /\ mainPc = "call" => /\ pc[main] # "idle" /\ i < TotalEvents
                        /\ totalCalls = IF pc[main] = "count" THEN i + 1 ELSE i
  /\ mainPc = "slot" => pc[main] = "idle" /\ totalCalls = i + 1 /\ i < TotalEvents
  /\ mainPc \in {"join", "done"} => /\ pc[main] = "idle"
                                    /\ totalCalls = TotalEvents

\* The channel holds what was sent and not yet received, and each end is up for
\* as long as its thread uses it.
ChannelKept ==
  /\ emitted = received \o channel /\ unheard = 0
  /\ count = Len(received)
  /\ drainPc \in {"recv", "exited"}
  /\ mainPc \in {"loop", "call", "slot"} => senderUp /\ drainPc = "recv"
  /\ drainPc = "recv" => receiverUp
  /\ drainPc = "exited" => channel = <<>>
  /\ mainPc = "done" => drainPc = "exited" /\ processed = count

\* Nobody but main is inside handle.
OthersIdle == \A c \in Callers : c # main => pc[c] = "idle"

RuntimeInd == HandlerInd /\ MainCounts /\ ChannelKept /\ OthersIdle

-------------------------------------------------------------------------------
\* Steps that leave the handler's fields and the channel alone keep HandlerInd.
LEMMA HandlerStutter == HandlerInd /\ UNCHANGED handlerVars => HandlerInd'
<1> SUFFICES ASSUME HandlerInd, UNCHANGED handlerVars PROVE HandlerInd'
  OBVIOUS
<1>1. /\ UNCHANGED <<slots, counterVars, emitted, unheard, callerVars>>
      /\ UNCHANGED <<channel, received, senderUp, receiverUp>>
  BY DEF handlerVars, channelVars
<1>2. /\ channel' \in Seq(TraceEvents) /\ Len(channel') <= ChannelCapacity
      /\ received' \in Seq(TraceEvents)
      /\ senderUp' \in BOOLEAN /\ receiverUp' \in BOOLEAN
  BY <1>1 DEF HandlerInd, HandlerTypes, HandlerTypeOK
<1> QED
  BY <1>1, <1>2, ChannelInd

\* Every step of the binary keeps the handler's invariant.
LEMMA RuntimeHandlerInd ==
  ASSUME HandlerInd, RuntimeNext
  PROVE  HandlerInd'
<1>0. main \in Callers
  BY RuntimeAssumption
<1>t. /\ channel \in Seq(TraceEvents) /\ Len(channel) <= ChannelCapacity
      /\ received \in Seq(TraceEvents)
      /\ senderUp \in BOOLEAN /\ receiverUp \in BOOLEAN
  BY DEF HandlerInd, HandlerTypes, HandlerTypeOK
<1>1. ASSUME NEW id \in Ids, MainCall(id) PROVE HandlerInd'
  BY <1>0, <1>1, CallerInd DEF MainCall, CallerStep
<1>2. CASE MainInHandle
  BY <1>0, <1>2, CallerInd DEF MainInHandle, CallerStep
<1>3. CASE MainSlot
  BY <1>0, <1>3, CallerInd, HandlerStutter DEF MainSlot, CallerStep
<1>4. CASE MainDropHandler
  BY <1>t, <1>4, ChannelInd DEF MainDropHandler, SenderAfterDrop
<1>5. CASE MainJoin
  BY <1>5, HandlerStutter DEF MainJoin
<1>6. CASE DrainReceives
  BY <1>6, ReceiveInd DEF DrainReceives
<1>7. CASE DrainExits
  BY <1>t, <1>7, ChannelInd DEF DrainExits
<1> QED
  BY <1>1, <1>2, <1>3, <1>4, <1>5, <1>6, <1>7 DEF RuntimeNext, Main, Drain

\* Main's place and its count of calls advance together.
LEMMA RuntimeMainCounts ==
  ASSUME RuntimeInd, RuntimeNext
  PROVE  MainCounts'
<1> USE DEF RuntimeInd, MainCounts
<1>0. TotalEvents \in Nat /\ main \in Callers
  BY RuntimeAssumption
<1>p. pc \in [Callers -> Labels] /\ totalCalls \in Nat
  BY DEF HandlerInd, HandlerTypes, HandlerTypeOK, Labels
<1>1. ASSUME NEW id \in Ids, MainCall(id) PROVE MainCounts'
  BY <1>0, <1>p, <1>1 DEF MainCall, HandleBegin, Goto, counterVars
<1>2. CASE MainInHandle
  <2>1. \/ /\ pc[main] \in {"emit", "drop"} /\ totalCalls' = totalCalls
           /\ \E l \in {"drop", "total"} : pc' = [pc EXCEPT ![main] = l]
        \/ /\ pc[main] = "total" /\ totalCalls' = totalCalls + 1
           /\ pc' = [pc EXCEPT ![main] = "count"]
        \/ /\ pc[main] = "count" /\ totalCalls' = totalCalls
           /\ pc' = [pc EXCEPT ![main] = "idle"]
    BY <1>2 DEF MainInHandle, HandleStep, EmitOk, EmitFull, EmitDisconnected, CountDrop,
       CountTotal, CountCall, Goto, AfterFull, counterVars
  <2>2. /\ mainPc = "call" /\ mainPc' = IF pc'[main] = "idle" THEN "slot" ELSE "call"
        /\ i' = i
    BY <1>2 DEF MainInHandle
  <2> QED
    BY <1>0, <1>p, <2>1, <2>2
<1>3. CASE MainSlot
  <2>1. pc' = pc /\ totalCalls' = totalCalls
    BY <1>3 DEF MainSlot, AdvanceSlot, handlerVars, counterVars, callerVars
  <2> QED
    BY <1>0, <1>p, <1>3, <2>1 DEF MainSlot
<1>4. CASE MainDropHandler
  BY <1>0, <1>p, <1>4 DEF MainDropHandler, counterVars, callerVars
<1>5. CASE MainJoin
  BY <1>0, <1>p, <1>5 DEF MainJoin, handlerVars, counterVars, callerVars
<1>6. CASE DrainReceives
  BY <1>0, <1>p, <1>6 DEF DrainReceives, Receive, mainVars, counterVars, callerVars
<1>7. CASE DrainExits
  BY <1>0, <1>p, <1>7 DEF DrainExits, mainVars, counterVars, callerVars
<1> QED
  BY <1>1, <1>2, <1>3, <1>4, <1>5, <1>6, <1>7 DEF RuntimeNext, Main, Drain

\* Nothing is lost between the emitter and the drain thread.
LEMMA RuntimeChannelKept ==
  ASSUME RuntimeInd, RuntimeNext
  PROVE  ChannelKept'
<1> USE DEF RuntimeInd, ChannelKept
<1>t. /\ channel \in Seq(TraceEvents) /\ received \in Seq(TraceEvents)
      /\ emitted \in Seq(TraceEvents)
  BY DEF HandlerInd, HandlerTypes, HandlerTypeOK
<1>1. ASSUME NEW id \in Ids, MainCall(id) PROVE ChannelKept'
  BY <1>1 DEF MainCall, HandleBegin, channelVars, drainVars
<1>2. CASE MainInHandle
  <2>1. /\ mainPc = "call" /\ mainPc' \in {"call", "slot"}
        /\ UNCHANGED <<processed, drainPc, count>>
    BY <1>2 DEF MainInHandle, drainVars
  <2>2. receiverUp
    BY <2>1
  <2>3. CASE EmitOk(main)
    <3>1. /\ channel' = Append(channel, call[main]) /\ emitted' = Append(emitted, call[main])
          /\ UNCHANGED <<senderUp, receiverUp, received, unheard>>
      BY <2>3 DEF EmitOk
    <3>2. call[main] \in TraceEvents
      <4>1. main \in Callers /\ pc[main] # "idle"
        BY <2>3, RuntimeAssumption DEF EmitOk
      <4> QED
        BY <4>1 DEF HandlerInd, HandlerTypes, EventsMade, TraceEvents
    <3>3. emitted' = received' \o channel'
      <4>1. received' \o channel' = Append(received \o channel, call[main])
        BY <1>t, <3>1, <3>2, AppendedLast
      <4> QED
        BY <3>1, <4>1
    <3> QED
      BY <2>1, <3>1, <3>3
  <2>4. CASE ~EmitOk(main)
    <3>1. UNCHANGED <<channel, senderUp, receiverUp, emitted, received, unheard>>
      BY <1>2, <2>2, <2>4 DEF MainInHandle, HandleStep, EmitFull, EmitDisconnected,
         TrySend, CountDrop, CountTotal, CountCall, channelVars
    <3> QED
      BY <2>1, <3>1
  <2> QED
    BY <2>3, <2>4
<1>3. CASE MainSlot
  <2>1. UNCHANGED <<channel, senderUp, receiverUp, emitted, received, unheard>>
    BY <1>3 DEF MainSlot, AdvanceSlot, handlerVars, channelVars
  <2> QED
    BY <1>3, <2>1 DEF MainSlot, drainVars
<1>4. CASE MainDropHandler
  BY <1>4 DEF MainDropHandler, drainVars
<1>5. CASE MainJoin
  BY <1>5 DEF MainJoin, handlerVars, channelVars, drainVars
<1>6. CASE DrainReceives
  <2>1. /\ drainPc = "recv" /\ channel # <<>>
        /\ received' = Append(received, Head(channel)) /\ channel' = Tail(channel)
        /\ count' = count + 1
        /\ UNCHANGED <<senderUp, receiverUp, emitted, unheard, mainPc, processed, drainPc>>
    BY <1>6 DEF DrainReceives, Receive, mainVars
  <2>2. received' \o channel' = received \o channel
    BY <1>t, <2>1, HeadMoved
  <2>3. Len(received') = Len(received) + 1
    BY <1>t, <2>1
  <2> QED
    BY <2>1, <2>2, <2>3
<1>7. CASE DrainExits
  BY <1>7 DEF DrainExits, RecvFails, mainVars, MainCounts
<1> QED
  BY <1>1, <1>2, <1>3, <1>4, <1>5, <1>6, <1>7 DEF RuntimeNext, Main, Drain

\* The steps of the two threads move no caller but main.
LEMMA RuntimeOthersIdle ==
  ASSUME RuntimeInd, RuntimeNext
  PROVE  OthersIdle'
<1>0. OthersIdle /\ pc \in [Callers -> Labels]
  BY DEF RuntimeInd, HandlerInd, HandlerTypes, HandlerTypeOK, Labels
<1> SUFFICES pc' = pc \/ \E l : pc' = [pc EXCEPT ![main] = l]
  BY <1>0 DEF OthersIdle
<1>1. ASSUME NEW id \in Ids, MainCall(id) PROVE \E l : pc' = [pc EXCEPT ![main] = l]
  BY <1>1 DEF MainCall, HandleBegin, Goto
<1>2. CASE MainInHandle
  BY <1>2 DEF MainInHandle, HandleStep, EmitOk, EmitFull, EmitDisconnected, CountDrop,
     CountTotal, CountCall, Goto
<1>3. CASE MainSlot
  BY <1>3 DEF MainSlot, AdvanceSlot, handlerVars, callerVars
<1>4. CASE MainDropHandler
  BY <1>4 DEF MainDropHandler, callerVars
<1>5. CASE MainJoin
  BY <1>5 DEF MainJoin, handlerVars, callerVars
<1>6. CASE DrainReceives
  BY <1>6 DEF DrainReceives, Receive, callerVars
<1>7. CASE DrainExits
  BY <1>7 DEF DrainExits, callerVars
<1> QED
  BY <1>1, <1>2, <1>3, <1>4, <1>5, <1>6, <1>7 DEF RuntimeNext, Main, Drain

\* When main is done nobody is between the counters and the channel is empty.
LEMMA RuntimeIndReports == RuntimeInd => ReportComplete
<1> SUFFICES ASSUME RuntimeInd, mainPc = "done" PROVE processed + dropped = TotalEvents
      /\ received = emitted /\ unheard = 0
  BY DEF ReportComplete
<1>1. /\ unheard = 0 /\ emitted = received \o <<>> /\ processed = Len(received)
      /\ totalCalls = TotalEvents
  BY DEF RuntimeInd, ChannelKept, MainCounts
<1>t. received \in Seq(TraceEvents) /\ dropped \in Nat
  BY DEF RuntimeInd, HandlerInd, HandlerTypes, HandlerTypeOK
<1>2. received = emitted
  BY <1>1, <1>t
<1>3. \A c \in Callers : pc[c] # "total"
  BY DEF RuntimeInd, MainCounts, OthersIdle
<1>4. Len(emitted) + dropped + unheard = totalCalls + 0
  BY <1>3, CountNone, CountersRestated DEF RuntimeInd, HandlerInd
<1> QED
  BY <1>1, <1>t, <1>2, <1>4, RuntimeAssumption

\* When the program ends, every event of the simulation was processed by the drain
\* thread or counted as dropped, and none met a closed channel or was left behind
\* in it.
THEOREM ReportCompleteHolds == RuntimeSpec => []ReportComplete
<1>1. RuntimeInit => RuntimeInd
  <2> SUFFICES ASSUME RuntimeInit PROVE RuntimeInd
    OBVIOUS
  <2>1. HandlerInd
    BY HandlerInitInd DEF RuntimeInit
  <2> QED
    BY <2>1, RuntimeAssumption DEF RuntimeInd, MainCounts, ChannelKept, OthersIdle, RuntimeInit,
       HandlerInit
<1>2. RuntimeInd /\ [RuntimeNext]_runtimeVars => RuntimeInd'
  <2> SUFFICES ASSUME RuntimeInd, [RuntimeNext]_runtimeVars PROVE RuntimeInd'
    OBVIOUS
  <2>1. CASE RuntimeNext
    BY <2>1, RuntimeHandlerInd, RuntimeMainCounts, RuntimeChannelKept, RuntimeOthersIdle DEF RuntimeInd
  <2>2. CASE UNCHANGED runtimeVars
    <3>1. HandlerInd'
      BY <2>2, HandlerStutter DEF RuntimeInd, runtimeVars
    <3>2. MainCounts' /\ ChannelKept' /\ OthersIdle'
      BY <2>2 DEF RuntimeInd, MainCounts, ChannelKept, OthersIdle, runtimeVars, handlerVars, counterVars,
         channelVars, callerVars, mainVars, drainVars
    <3> QED
      BY <3>1, <3>2 DEF RuntimeInd
  <2> QED
    BY <2>1, <2>2
<1> QED
  BY <1>1, <1>2, RuntimeIndReports, PTL DEF RuntimeSpec
===============================================================================
