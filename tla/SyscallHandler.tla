---------------------------- MODULE SyscallHandler ----------------------------
(***************************************************************************)
(* The synchronous half of the runtime crate: SyscallHandler::handle       *)
(* (runtime/src/syscall_handler.rs) called by several threads, the         *)
(* TraceEmitter it sends through (runtime/src/trace_emitter.rs) and the    *)
(* bounded channel between the emitter and whoever holds the receiver.     *)
(*                                                                         *)
(* handle is not atomic: it loads the slot, sends the event, counts the    *)
(* call and counts it per syscall in four steps, between which the other   *)
(* callers, advance_slot and the receiver run.  current_slot is loaded     *)
(* Relaxed, so a caller may see any of the slots stored since the one it   *)
(* last saw: slots is the sequence of all the values it ever held.         *)
(***************************************************************************)
EXTENDS SyscallTable, Sequences, FiniteSets, FiniteSetsExt, TLC

CONSTANTS Callers,          \* threads that call handle
          Ids,              \* the syscalls they make
          ChannelCapacity,  \* CHANNEL_CAPACITY
          MaxCalls,         \* bound: calls of handle by each caller
          MaxSlot           \* bound: last slot reached

ASSUME CapacityAssumption == ChannelCapacity \in Nat \ {0}
ASSUME BoundsAssumption == MaxCalls \in Nat /\ MaxSlot \in Nat
ASSUME CallersAssumption == IsFiniteSet(Callers) /\ IsFiniteSet(Ids) /\ Ids \subseteq Nat

VARIABLES
  slots,                     \* current_slot: every value stored, the last one held
  totalCalls, callCounts,    \* total_calls, call_counts
  dropped,                   \* TraceEmitter.dropped
  channel,                   \* the events in the bounded channel
  senderUp, receiverUp,      \* ends of the channel not yet dropped
  pc, call, slotSeen, calls, \* per caller: place in handle, its event, views, calls begun
  eligible,                  \* per caller: what its last call of handle returned
  emitted, received, unheard \* history: events sent, taken out, refused as disconnected

channelVars == <<channel, senderUp, receiverUp, emitted, received, unheard>>
callerVars == <<pc, call, slotSeen, calls, eligible>>
counterVars == <<totalCalls, callCounts, dropped>>
handlerVars == <<slots, counterVars, channelVars, callerVars>>

currentSlot == slots[Len(slots)]

EventsOf(c) == [by : {c}, id : Ids, slot : 0 .. MaxSlot]
TraceEvents == UNION {EventsOf(c) : c \in Callers}
NoEvent == [by |-> "none", id |-> 0, slot |-> 0]

HandlerInit ==
  /\ slots = <<0>>
  /\ totalCalls = 0 /\ callCounts = [id \in Ids |-> 0]
  /\ dropped = 0
  /\ channel = <<>> /\ senderUp = TRUE /\ receiverUp = TRUE
  /\ pc = [c \in Callers |-> "idle"]
  /\ call = [c \in Callers |-> NoEvent]
  /\ slotSeen = [c \in Callers |-> 1]
  /\ calls = [c \in Callers |-> 0]
  /\ eligible = [c \in Callers |-> FALSE]
  /\ emitted = <<>> /\ received = <<>> /\ unheard = 0

-------------------------------------------------------------------------------
(* handle *)

Goto(c, label) == pc' = [pc EXCEPT ![c] = label]

\* The event is made up: its slot is what a Relaxed load of current_slot sees.
HandleBegin(c, id) ==
  /\ pc[c] = "idle" /\ calls[c] < MaxCalls
  /\ \E k \in slotSeen[c] .. Len(slots) :
       /\ call' = [call EXCEPT ![c] = [by |-> c, id |-> id, slot |-> slots[k]]]
       /\ slotSeen' = [slotSeen EXCEPT ![c] = k]
  /\ calls' = [calls EXCEPT ![c] = @ + 1]
  /\ Goto(c, "emit")
  /\ UNCHANGED <<slots, counterVars, channelVars, eligible>>

\* bounded(CHANNEL_CAPACITY), and unbounded() in its place.
ChannelFull_Mut == FALSE
ChannelFull == Len(channel) >= ChannelCapacity

\* What try_send answers, in the order in which it looks; a send in its place
\* waits for room instead.
TrySend_Mut == IF ~receiverUp THEN "disconnected"
               ELSE IF ChannelFull THEN "wait" ELSE "ok"
TrySend == IF ~receiverUp THEN "disconnected"
           ELSE IF ChannelFull THEN "full" ELSE "ok"

\* emit: a full channel drops the event and counts it in a second step; a
\* disconnected one drops it and counts nothing.
EmitOk(c) ==
  /\ pc[c] = "emit" /\ TrySend = "ok"
  /\ channel' = Append(channel, call[c])
  /\ emitted' = Append(emitted, call[c])
  /\ Goto(c, "total")
  /\ UNCHANGED <<slots, counterVars, senderUp, receiverUp, received, unheard,
                 call, slotSeen, calls, eligible>>

AfterFull_Mut == "total"
AfterFull == "drop"

EmitFull(c) ==
  /\ pc[c] = "emit" /\ TrySend = "full"
  /\ Goto(c, AfterFull)
  /\ UNCHANGED <<slots, counterVars, channelVars, call, slotSeen, calls, eligible>>

EmitDisconnected(c) ==
  /\ pc[c] = "emit" /\ TrySend = "disconnected"
  /\ unheard' = unheard + 1
  /\ Goto(c, "total")
  /\ UNCHANGED <<slots, counterVars, channel, senderUp, receiverUp, emitted,
                 received, call, slotSeen, calls, eligible>>

CountDrop(c) ==
  /\ pc[c] = "drop"
  /\ dropped' = dropped + 1
  /\ Goto(c, "total")
  /\ UNCHANGED <<slots, totalCalls, callCounts, channelVars, call, slotSeen, calls, eligible>>

CountTotal(c) ==
  /\ pc[c] = "total"
  /\ totalCalls' = totalCalls + 1
  /\ Goto(c, "count")
  /\ UNCHANGED <<slots, callCounts, dropped, channelVars, call, slotSeen, calls, eligible>>

\* *counts.entry(syscall_id).or_insert(0) += 1
Incremented_Mut(counts, id) == [counts EXCEPT ![id] = IF @ = 0 THEN 1 ELSE @]
Incremented(counts, id) == [counts EXCEPT ![id] = @ + 1]

\* The critical section of call_counts, and the return.
CountCall(c) ==
  /\ pc[c] = "count"
  /\ callCounts' = Incremented(callCounts, call[c].id)
  /\ eligible' = [eligible EXCEPT ![c] = registry_eligible(call[c].id)]
  /\ Goto(c, "idle")
  /\ UNCHANGED <<slots, totalCalls, dropped, channelVars, call, slotSeen, calls>>

HandleStep(c) == \/ EmitOk(c) \/ EmitFull(c) \/ EmitDisconnected(c)
                 \/ CountDrop(c) \/ CountTotal(c) \/ CountCall(c)

-------------------------------------------------------------------------------
\* fetch_add on current_slot, by a caller between two calls: it adds to the
\* slot held, not to the slot the caller last saw.
SlotAfter_Mut(c) == slots[slotSeen[c]] + 1
SlotAfter(c) == currentSlot + 1

AdvanceSlot(c) ==
  /\ pc[c] = "idle"
  /\ Len(slots) <= MaxSlot
  /\ slots' = Append(slots, SlotAfter(c))
  /\ slotSeen' = [slotSeen EXCEPT ![c] = Len(slots) + 1]
  /\ UNCHANGED <<counterVars, channelVars, pc, call, calls, eligible>>

\* The other end of the channel: one event is received, or the receiver is
\* dropped, and with it the events it has not taken.
Receive ==
  /\ receiverUp /\ channel # <<>>
  /\ received' = Append(received, Head(channel))
  /\ channel' = Tail(channel)
  /\ UNCHANGED <<slots, counterVars, senderUp, receiverUp, emitted, unheard, callerVars>>

ReceiverQuits ==
  /\ receiverUp
  /\ receiverUp' = FALSE /\ channel' = <<>>
  /\ UNCHANGED <<slots, counterVars, senderUp, emitted, received, unheard, callerVars>>

-------------------------------------------------------------------------------
CallerStep(c) == \/ \E id \in Ids : HandleBegin(c, id)
                 \/ HandleStep(c)
                 \/ AdvanceSlot(c)

HandlerNext == \/ \E c \in Callers : CallerStep(c)
               \/ Receive
               \/ ReceiverQuits

HandlerSpec == HandlerInit /\ [][HandlerNext]_handlerVars

\* A thread inside handle runs on.  Nothing is assumed of the receiver.
HandlerFairness == \A c \in Callers : WF_handlerVars(HandleStep(c))

FairHandlerSpec == HandlerSpec /\ HandlerFairness

-------------------------------------------------------------------------------
(* Properties *)

At(label) == Cardinality({c \in Callers : pc[c] = label})

\* Values of the handler's fields and of each caller's locals.
HandlerTypeOK ==
  /\ slots \in Seq(0 .. MaxSlot) /\ slots # <<>>
  /\ totalCalls \in Nat /\ dropped \in Nat /\ unheard \in Nat
  /\ callCounts \in [Ids -> Nat]
  /\ channel \in Seq(TraceEvents) /\ Len(channel) <= ChannelCapacity
  /\ emitted \in Seq(TraceEvents) /\ received \in Seq(TraceEvents)
  /\ senderUp \in BOOLEAN /\ receiverUp \in BOOLEAN
  /\ pc \in [Callers -> {"idle", "emit", "drop", "total", "count"}]
  /\ \A c \in Callers : call[c] \in EventsOf(c) \cup {NoEvent}
  /\ slotSeen \in [Callers -> 1 .. Len(slots)]
  /\ calls \in [Callers -> 0 .. MaxCalls]
  /\ eligible \in [Callers -> BOOLEAN]

\* emit loses no event silently while somebody listens: every call counted in
\* total_calls, or about to be, was sent, was counted as dropped, or found the
\* receiver gone.  dropped_count() and total_calls() can be compared only so.
EventsAccounted ==
  Len(emitted) + dropped + unheard = totalCalls + At("total")

\* stats() never runs ahead of total_calls(), and lags it by exactly the calls
\* that are between the two counters.
StatsFollowTotal ==
  totalCalls = MapThenSumSet(LAMBDA id : callCounts[id], Ids) + At("count")

\* The slots of one caller's events never go back, in the order in which they
\* enter the channel, whoever advances the slot meanwhile.
SlotsInCallOrder ==
  \A i, j \in 1 .. Len(emitted) :
    i < j /\ emitted[i].by = emitted[j].by => emitted[i].slot <= emitted[j].slot

\* emit is "Non-blocking": every call of handle returns, even if the receiver
\* never takes an event out again.
HandleReturns ==
  \A c \in Callers : pc[c] # "idle" ~> pc[c] = "idle"
===============================================================================
