------------------------------ MODULE RingBuffer ------------------------------
(***************************************************************************)
(* pipeline/src/ring_buffer.rs: the lock-free single-producer,             *)
(* single-consumer ring buffer, at the level of its atomic accesses and    *)
(* under the memory model the code is written for.                         *)
(*                                                                         *)
(* head and tail are atomics.  A thread that loads an atomic need not see  *)
(* the last value stored: it may see any value from the one it has already *)
(* seen onwards.  So each atomic is modelled by its modification order,    *)
(* the sequence of all the values ever stored in it (heads, tails), and    *)
(* each thread by the positions in it that it has seen (pSeen, cSeen) and  *)
(* that it has synchronised with through an Acquire load (pSync, cSync).   *)
(*                                                                         *)
(* The slots are plain memory.  written[i] is the position in tails of the *)
(* Release store that publishes the last write of slot i, taken[i] the     *)
(* position in heads of the Release store that follows the last read of    *)
(* it.  Two accesses of a slot do not race iff the later one's thread has  *)
(* synchronised with that store.  A racy read returns an arbitrary value.  *)
(***************************************************************************)
EXTENDS Naturals, Sequences

CONSTANTS Size,       \* RING_BUFFER_SIZE
          Events,     \* the events that can be pushed
          Garbage,    \* what an uninitialised or torn slot may read as
          MaxPushes   \* bound: how many pushes are accepted in a behaviour

ASSUME SizeAssumption == Size \in Nat \ {0}
ASSUME MaxPushesAssumption == MaxPushes \in Nat
ASSUME GarbageAssumption == Garbage \notin Events

VARIABLES
  slots, written, taken,     \* the slots and the accesses made to each
  heads, tails,              \* modification orders of head and tail
  pPc, pEvent, pSeen, pSync, \* the producer inside push
  cPc, cEvent, cSeen, cSync, \* the consumer inside pop
  pLen, cLen,                \* last len() of each thread, until its next operation
  pushed, popped             \* history: events accepted by push, returned by pop

slotVars == <<slots, written, taken>>
pVars == <<pPc, pEvent, pSeen, pSync, pLen, tails, pushed>>
cVars == <<cPc, cEvent, cSeen, cSync, cLen, heads, popped>>
vars == <<slotVars, pVars, cVars>>

Indices == 0 .. Size - 1
NoLen == Size               \* len() was not called since the last operation

Capacity == Size - 1

\* The values the two atomics really hold.
head == heads[Len(heads)]
tail == tails[Len(tails)]

-------------------------------------------------------------------------------
Init == /\ slots = [i \in Indices |-> Garbage]
        /\ written = [i \in Indices |-> 0]
        /\ taken = [i \in Indices |-> 0]
        /\ heads = <<0>> /\ tails = <<0>>
        /\ pPc = "idle" /\ pEvent = Garbage /\ pSeen = 1 /\ pSync = 1
        /\ cPc = "idle" /\ cEvent = Garbage /\ cSeen = 1 /\ cSync = 1
        /\ pLen = NoLen /\ cLen = NoLen
        /\ pushed = <<>> /\ popped = <<>>

\* The definitions named ..._Mut are the code with one mistake made in it; the
\* mutation checks put each in the place of the definition that follows it and
\* expect a property to fail.
NextIndex_Mut(i) == i + 1
NextIndex(i) == (i + 1) % Size

Distance_Mut(h, t) == (h + Size - t) % Size
Distance(h, t) == (t + Size - h) % Size

\* push compares the next tail with the head it loaded: one slot stays free.
IsFull_Mut(t, h) == FALSE
IsFull(t, h) == NextIndex(t) = h

IsEmpty_Mut(h, t) == FALSE
IsEmpty(h, t) == h = t

\* Positions of a modification order that a load may see, having seen "seen".
Visible(seen, order) == seen .. Len(order)

\* What an Acquire load of position k synchronises with; a Relaxed one gains
\* nothing.
AcquireLoad_Mut(sync, k) == sync
AcquireLoad(sync, k) == k

-------------------------------------------------------------------------------
(* push *)

\* The Relaxed load of its own tail and the Acquire load of head, up to the test.
PushCheck(e, k) ==
  /\ pPc = "idle"
  /\ Len(pushed) < MaxPushes
  /\ k \in Visible(pSeen, heads)
  /\ pSeen' = k
  /\ pSync' = AcquireLoad(pSync, k)
  /\ pLen' = NoLen
  /\ \/ IsFull(tail, heads[k]) /\ UNCHANGED <<pPc, pEvent>>      \* return false
     \/ ~IsFull(tail, heads[k]) /\ pPc' = "write" /\ pEvent' = e
  /\ UNCHANGED <<slotVars, cVars, tails, pushed>>

PushWrite ==
  /\ pPc = "write"
  /\ slots' = [slots EXCEPT ![tail] = pEvent]
  /\ written' = [written EXCEPT ![tail] = Len(tails) + 1]
  /\ pPc' = "publish"
  /\ UNCHANGED <<taken, cVars, pEvent, pSeen, pSync, pLen, tails, pushed>>

\* tail.store(next_tail, Release); return true
PushPublish ==
  /\ pPc = "publish"
  /\ tails' = Append(tails, NextIndex(tail))
  /\ pushed' = Append(pushed, pEvent)
  /\ pPc' = "idle"
  /\ UNCHANGED <<slotVars, cVars, pEvent, pSeen, pSync, pLen>>

-------------------------------------------------------------------------------
(* pop *)

PopCheck(k) ==
  /\ cPc = "idle"
  /\ k \in Visible(cSeen, tails)
  /\ cSeen' = k
  /\ cSync' = AcquireLoad(cSync, k)
  /\ cLen' = NoLen
  /\ \/ IsEmpty(head, tails[k]) /\ UNCHANGED cPc                 \* return None
     \/ ~IsEmpty(head, tails[k]) /\ cPc' = "read"
  /\ UNCHANGED <<slotVars, pVars, cEvent, heads, popped>>

\* assume_init_read of slots[head]: defined only if the slot was written and the
\* consumer has synchronised with that write.
ReadOutcomes(i) ==
  IF 0 < written[i] /\ written[i] <= cSync THEN {slots[i]} ELSE Events \cup {Garbage}

PopRead ==
  /\ cPc = "read"
  /\ cEvent' \in ReadOutcomes(head)
  /\ taken' = [taken EXCEPT ![head] = Len(heads) + 1]
  /\ cPc' = "publish"
  /\ UNCHANGED <<slots, written, pVars, cSeen, cSync, cLen, heads, popped>>

\* head.store((head + 1) % RING_BUFFER_SIZE, Release); return Some(event)
PopPublish ==
  /\ cPc = "publish"
  /\ heads' = Append(heads, NextIndex(head))
  /\ popped' = Append(popped, cEvent)
  /\ cPc' = "idle"
  /\ UNCHANGED <<slotVars, pVars, cEvent, cSeen, cSync, cLen>>

-------------------------------------------------------------------------------
(* len and is_empty, called between its operations by either thread: two     *)
(* Relaxed loads, exact for the index the thread owns.                       *)

ProducerLen(k) ==
  /\ pPc = "idle"
  /\ k \in Visible(pSeen, heads)
  /\ pSeen' = k
  /\ pLen' = Distance(heads[k], tail)
  /\ UNCHANGED <<slotVars, cVars, pPc, pEvent, pSync, tails, pushed>>

ConsumerLen(k) ==
  /\ cPc = "idle"
  /\ k \in Visible(cSeen, tails)
  /\ cSeen' = k
  /\ cLen' = Distance(head, tails[k])
  /\ UNCHANGED <<slotVars, pVars, cPc, cEvent, cSync, heads, popped>>

-------------------------------------------------------------------------------
Push == \/ \E e \in Events, k \in Visible(pSeen, heads) : PushCheck(e, k)
        \/ PushWrite
        \/ PushPublish

Pop == \/ \E k \in Visible(cSeen, tails) : PopCheck(k)
       \/ PopRead
       \/ PopPublish

Next == \/ Push
        \/ Pop
        \/ \E k \in Visible(pSeen, heads) : ProducerLen(k)
        \/ \E k \in Visible(cSeen, tails) : ConsumerLen(k)

Spec == Init /\ [][Next]_vars

(***************************************************************************)
(* Fairness: a thread that is inside push or pop runs on; the consumer     *)
(* polls (nothing makes the producer push); and a store becomes visible to *)
(* the other thread in finite time, so a polling load is not stale for     *)
(* ever.                                                                   *)
(***************************************************************************)
FreshPop == PopCheck(Len(tails))

Fairness == /\ WF_vars(PushWrite) /\ WF_vars(PushPublish)
            /\ WF_vars(FreshPop) /\ WF_vars(PopRead) /\ WF_vars(PopPublish)

FairSpec == Spec /\ Fairness

-------------------------------------------------------------------------------
(* Properties *)

Positions(order) == 1 .. Len(order)

SlotTypes == /\ slots \in [Indices -> Events \cup {Garbage}]
             /\ written \in [Indices -> Nat]
             /\ taken \in [Indices -> Nat]

ProducerTypes == /\ tails \in Seq(Indices) /\ Len(tails) >= 1
                 /\ pPc \in {"idle", "write", "publish"}
                 /\ pEvent \in Events \cup {Garbage}
                 /\ pSeen \in Positions(heads) /\ pSync \in 1 .. pSeen
                 /\ pLen \in 0 .. NoLen
                 /\ pushed \in Seq(Events \cup {Garbage})

ConsumerTypes == /\ heads \in Seq(Indices) /\ Len(heads) >= 1
                 /\ cPc \in {"idle", "read", "publish"}
                 /\ cEvent \in Events \cup {Garbage}
                 /\ cSeen \in Positions(tails) /\ cSync \in 1 .. cSeen
                 /\ cLen \in 0 .. NoLen
                 /\ popped \in Seq(Events \cup {Garbage})

\* The values of the fields of RingBuffer, and of the locals of push and pop:
\* indices stay in bounds of the slots array, views within the stores made.
TypeOK == SlotTypes /\ ProducerTypes /\ ConsumerTypes

\* The SAFETY comments of push and pop: "slots are accessed at disjoint
\* indices" and "head index was fully written by push before tail advanced".
\* Whenever the producer is about to write a slot it has synchronised with the
\* consumer's last read of it, and whenever the consumer is about to read a slot
\* it has synchronised with the producer's write of it.
NoDataRace ==
  /\ pPc = "write" => taken[tail] <= pSync
  /\ cPc = "read" => 0 < written[head] /\ written[head] <= cSync

\* len() is stale in a safe direction for its caller, however far the other
\* thread runs on before the caller acts on it: a producer told there is room
\* is not refused by its next push, and a consumer told the buffer is not empty
\* gets an event from its next pop.
LenIsReliable ==
  /\ pPc = "idle" /\ pLen < Capacity =>
       \A k \in Visible(pSeen, heads) : ~IsFull(tail, heads[k])
  /\ cPc = "idle" /\ cLen \in 1 .. Capacity =>
       \A k \in Visible(cSeen, tails) : ~IsEmpty(head, tails[k])

\* The ring buffer is a FIFO of Capacity events: what pop returns is what push
\* accepted, in order, once, across every wrap of the indices.
Queue == INSTANCE TraceQueue WITH accepted <- pushed, delivered <- popped
ImplementsQueue == Queue!QueueSpec

\* Every event push accepted is popped by a consumer that keeps polling.
Delivered ==
  \A n \in 1 .. MaxPushes : Len(pushed) >= n ~> Len(popped) >= n
===============================================================================
