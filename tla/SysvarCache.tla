----------------------------- MODULE SysvarCache ------------------------------
(***************************************************************************)
(* optimizer/src/cache.rs: the LRU cache of syscall results, with its      *)
(* three invalidation policies, between a runtime that advances the epoch  *)
(* and the slot on its own and clients that fill the cache on a miss.      *)
(*                                                                         *)
(* get, insert and the invalidations take &mut self, so one of them runs   *)
(* at a time and each is one action.  What they read besides the cache is  *)
(* current_epoch and current_slot, by Relaxed loads: each load sees any    *)
(* value since the last one seen (epochSeen, slotSeen: whoever holds the   *)
(* cache next has seen what the holder before had).                        *)
(*                                                                         *)
(* A client that misses notes the epoch and the slot, executes the syscall *)
(* and inserts its result; the three are separate steps, in which the      *)
(* epoch, the slot and the other clients move on.  What the result depends *)
(* on is the epoch and the slot at the moment of execution, so these stand *)
(* for its data.                                                           *)
(***************************************************************************)
EXTENDS SyscallTable, Integers, Sequences, FiniteSets

CONSTANTS Ids,        \* the syscalls whose results are cached, one key each
          Clients,    \* threads that share the cache
          capacity,   \* as given to new
          MaxEpoch, MaxSlot,  \* bounds: last epoch and last slot reached
          MaxGets     \* bound: calls of get

ASSUME CacheAssumption ==
  /\ Ids \subseteq Nat /\ IsFiniteSet(Ids) /\ capacity \in Nat
  /\ MaxEpoch \in Nat /\ MaxSlot \in Nat /\ MaxGets \in Nat

Absent == [epoch |-> "none"]          \* a key the cache does not hold
NoStamp == [epoch |-> 0, slot |-> 0]

Moments == [epoch : 0 .. MaxEpoch, slot : 0 .. MaxSlot]
Results == [data : Moments, epoch : 0 .. MaxEpoch, cached_at_slot : 0 .. MaxSlot]

VARIABLES
  epoch, slot,           \* current_epoch, current_slot
  epochSeen, slotSeen,   \* the last values of them that were loaded
  inner,                 \* key -> CachedResult or Absent
  recency,               \* keys held, most recently used first
  hits, misses,
  pc, want, stamp, data, \* clients: place, key missed, stamps noted, result
  usedSince              \* history: per key, the keys used since its own last use

clockVars == <<epoch, slot>>
viewVars == <<epochSeen, slotSeen>>
lruVars == <<inner, recency, usedSince>>
statVars == <<hits, misses>>
clientVars == <<pc, want, stamp, data>>
vars == <<clockVars, viewVars, lruVars, statVars, clientVars>>

Init == /\ epoch = 0 /\ slot = 0 /\ epochSeen = 0 /\ slotSeen = 0
        /\ inner = [k \in Ids |-> Absent] /\ recency = <<>>
        /\ usedSince = [k \in Ids |-> {}]
        /\ hits = 0 /\ misses = 0
        /\ pc = [c \in Clients |-> "idle"]
        /\ want = [c \in Clients |-> 0]
        /\ stamp = [c \in Clients |-> NoStamp]
        /\ data = [c \in Clients |-> NoStamp]

-------------------------------------------------------------------------------
(* The LruCache of the lru crate, of capacity.max(1) entries *)

Cap == IF capacity = 0 THEN 1 ELSE capacity

Held == {k \in Ids : inner[k] # Absent}
Without(keys) ==
  LET kept[n \in 0 .. Len(recency)] ==
        IF n = 0 THEN <<>>
        ELSE IF recency[n] \in keys THEN kept[n - 1] ELSE Append(kept[n - 1], recency[n])
  IN  kept[Len(recency)]

\* A use of k, by a hit or an insertion.
Used(k) == usedSince' = [j \in Ids |-> IF j = k THEN {} ELSE usedSince[j] \cup {k}]

\* put: the key becomes the most recent one; a new key in a full cache evicts
\* the least recent one.  LruCache::unbounded() would evict nothing.
Evicted_Mut(k) == {}
Evicted(k) == IF inner[k] = Absent /\ Len(recency) >= Cap
              THEN {recency[Len(recency)]} ELSE {}
LruPut(k, result) ==
  /\ inner' = [j \in Ids |-> IF j = k THEN result
                             ELSE IF j \in Evicted(k) THEN Absent ELSE inner[j]]
  /\ recency' = <<k>> \o Without(Evicted(k) \cup {k})
  /\ Used(k)

\* get promotes the key it serves; peek in its place would not.
LruGet_Mut(k) == Used(k) /\ UNCHANGED <<inner, recency>>
LruGet(k) == Used(k) /\ recency' = <<k>> \o Without({k}) /\ UNCHANGED inner

LruPop(keys) == /\ inner' = [j \in Ids |-> IF j \in keys THEN Absent ELSE inner[j]]
                /\ recency' = Without(keys)
                /\ UNCHANGED usedSince

-------------------------------------------------------------------------------
(* Invalidation policies *)

EpochBoundIds == {CLOCK, RENT, EPOCH_SCHEDULE, FEES}
SlotIds == {SLOT_HASHES}
PermanentIds == CryptoIds

invalidation_map == [id \in EpochBoundIds \cup SlotIds \cup PermanentIds |->
                       IF id \in EpochBoundIds THEN "EpochBound"
                       ELSE IF id \in SlotIds THEN "Slot" ELSE "Permanent"]

PolicyOf(id) == IF id \in DOMAIN invalidation_map THEN invalidation_map[id]
                ELSE "EpochBound"

Valid_Mut(k, e, s) == CASE PolicyOf(k) = "Permanent"  -> TRUE
                        [] PolicyOf(k) = "EpochBound" -> inner[k].epoch <= e
                        [] PolicyOf(k) = "Slot"       -> inner[k].cached_at_slot = s
Valid(k, e, s) == CASE PolicyOf(k) = "Permanent"  -> TRUE
                    [] PolicyOf(k) = "EpochBound" -> inner[k].epoch = e
                    [] PolicyOf(k) = "Slot"       -> inner[k].cached_at_slot = s

\* Two Relaxed loads, of the epoch and of the slot.
Load(e, s) == /\ e \in epochSeen .. epoch /\ epochSeen' = e
              /\ s \in slotSeen .. slot /\ slotSeen' = s

-------------------------------------------------------------------------------
(* Operations of the cache *)

Hit(c, k, e, s) ==
  /\ k \in Held /\ Valid(k, e, s)
  /\ hits' = hits + 1
  /\ LruGet(k)
  /\ UNCHANGED <<misses, clientVars>>

MissCount_Mut == misses - 1
MissCount == misses + 1

\* A key that is held but stale is popped.
Miss(c, k, e, s) ==
  /\ ~(k \in Held /\ Valid(k, e, s))
  /\ misses' = MissCount
  /\ LruPop({k})
  /\ pc' = [pc EXCEPT ![c] = "missed"]
  /\ want' = [want EXCEPT ![c] = k]
  /\ UNCHANGED <<hits, stamp, data>>

Get(c, k) ==
  /\ pc[c] = "idle" /\ hits + misses < MaxGets
  /\ \E e \in epochSeen .. epoch, s \in slotSeen .. slot :
       /\ Load(e, s)
       /\ Hit(c, k, e, s) \/ Miss(c, k, e, s)
  /\ UNCHANGED clockVars

Insert(c) ==
  /\ pc[c] = "executed"
  /\ LruPut(want[c], [data |-> data[c], epoch |-> stamp[c].epoch,
                      cached_at_slot |-> stamp[c].slot])
  /\ pc' = [pc EXCEPT ![c] = "idle"]
  /\ UNCHANGED <<clockVars, viewVars, statVars, want, stamp, data>>

StaleSlotKeys(s) ==
  {k \in Held : /\ k \in DOMAIN invalidation_map /\ invalidation_map[k] = "Slot"
                /\ inner[k].cached_at_slot # s}

InvalidateSlot ==
  /\ \E s \in slotSeen .. slot : slotSeen' = s /\ LruPop(StaleSlotKeys(s))
  /\ UNCHANGED <<clockVars, epochSeen, statVars, clientVars>>

StaleEpochKeys_Mut(e) == {k \in Held : inner[k].epoch # e}
StaleEpochKeys(e) ==
  {k \in Held : /\ k \in DOMAIN invalidation_map /\ invalidation_map[k] = "EpochBound"
                /\ inner[k].epoch # e}

InvalidateEpoch ==
  /\ \E e \in epochSeen .. epoch : epochSeen' = e /\ LruPop(StaleEpochKeys(e))
  /\ UNCHANGED <<clockVars, slotSeen, statVars, clientVars>>

-------------------------------------------------------------------------------
(* The runtime around the cache *)

AdvanceEpoch == /\ epoch < MaxEpoch /\ epoch' = epoch + 1
                /\ UNCHANGED <<slot, viewVars, lruVars, statVars, clientVars>>

AdvanceSlot == /\ slot < MaxSlot /\ slot' = slot + 1
               /\ UNCHANGED <<epoch, viewVars, lruVars, statVars, clientVars>>

\* After a miss: note epoch and slot, then execute the syscall.
Note(c) == /\ pc[c] = "missed"
           /\ \E e \in epochSeen .. epoch, s \in slotSeen .. slot :
                Load(e, s) /\ stamp' = [stamp EXCEPT ![c] = [epoch |-> e, slot |-> s]]
           /\ pc' = [pc EXCEPT ![c] = "noted"]
           /\ UNCHANGED <<clockVars, lruVars, statVars, want, data>>

Execute(c) == /\ pc[c] = "noted"
              /\ data' = [data EXCEPT ![c] = [epoch |-> epoch, slot |-> slot]]
              /\ pc' = [pc EXCEPT ![c] = "executed"]
              /\ UNCHANGED <<clockVars, viewVars, lruVars, statVars, want, stamp>>

Next == \/ \E c \in Clients : \/ \E k \in Ids : Get(c, k)
                              \/ Note(c) \/ Execute(c) \/ Insert(c)
        \/ InvalidateSlot \/ InvalidateEpoch
        \/ AdvanceEpoch \/ AdvanceSlot

Spec == Init /\ [][Next]_vars

-------------------------------------------------------------------------------
(* Properties *)

\* Values of the cache's fields and the clients' locals.
TypeOK ==
  /\ epoch \in 0 .. MaxEpoch /\ slot \in 0 .. MaxSlot
  /\ epochSeen \in 0 .. epoch /\ slotSeen \in 0 .. slot
  /\ inner \in [Ids -> Results \cup {Absent}]
  /\ recency \in Seq(Ids) /\ usedSince \in [Ids -> SUBSET Ids]
  /\ hits \in Nat /\ misses \in Nat
  /\ pc \in [Clients -> {"idle", "missed", "noted", "executed"}]
  /\ want \in [Clients -> Ids \cup {0}]
  /\ stamp \in [Clients -> Moments] /\ data \in [Clients -> Moments]

\* The keys that the LRU list orders are those the cache holds, each once, and
\* they are never more than the capacity, which is at least one.
WithinCapacity ==
  /\ Len(recency) <= IF capacity = 0 THEN 1 ELSE capacity
  /\ Held = {recency[n] : n \in 1 .. Len(recency)}
  /\ Cardinality(Held) = Len(recency)

\* Whatever get serves is as fresh as its policy promises: an EpochBound result
\* was produced no earlier than the epoch that get read, a Slot result no
\* earlier than the slot it read, also if the epoch or the slot advanced while
\* a client was executing the syscall, and in whatever order clients insert.
HitFresh ==
  \A k \in Held, e \in epochSeen .. epoch, s \in slotSeen .. slot :
    Valid(k, e, s) =>
      /\ PolicyOf(k) = "EpochBound" => inner[k].data.epoch >= e
      /\ PolicyOf(k) = "Slot" => inner[k].data.slot >= s

\* "Deterministic result - never auto-invalidate": a Permanent result leaves
\* the cache only when an insertion finds the cache full.
PermanentKept ==
  [][\A k \in Held : PolicyOf(k) = "Permanent" /\ inner'[k] = Absent =>
       /\ Len(recency) >= Cap
       /\ \E c \in Clients : pc[c] = "executed" /\ pc'[c] = "idle"]_vars

\* get promotes what it serves, so a result is evicted only after as many other
\* keys as the cache has entries were used since its own last use.
HotKept ==
  [][\A k \in Held :
       /\ inner'[k] = Absent
       /\ \E c \in Clients : pc[c] = "executed" /\ pc'[c] = "idle"
       => Cardinality(usedSince'[k]) >= Cap]_vars

\* "Clock/slot-hashes use Slot (stale every slot)": a clock that get serves was
\* read no earlier than the slot that get saw.
ClockStaleEverySlot ==
  \A e \in epochSeen .. epoch, s \in slotSeen .. slot :
    CLOCK \in Held /\ Valid(CLOCK, e, s) => inner[CLOCK].data.slot >= s
===============================================================================
