--------------------------- MODULE SysvarCacheProofs --------------------------
(***************************************************************************)
(* For every set of syscalls, every number of clients, every capacity and  *)
(* however far epoch and slot advance: what SysvarCache serves is as fresh *)
(* as its policy promises, and Permanent results leave it only by          *)
(* eviction.                                                               *)
(*                                                                         *)
(* HitFresh is not inductive: it speaks of the results in the cache, but   *)
(* those come from clients that are still executing.  The invariant adds   *)
(* that a client's stamps are not in the future when it has noted them,    *)
(* and not later than its data once it has executed.                       *)
(*                                                                         *)
(* The size of the cache and what it evicts rest on a second invariant,    *)
(* CacheInd: the recency list has each key held exactly once, and whatever *)
(* stands before a key in the list was used since that key was. Each of    *)
(* the others was therefore used since the last of a full list was.        *)
(***************************************************************************)
EXTENDS SysvarCache, FiniteFacts

Clock == /\ epoch \in Nat /\ slot \in Nat
         /\ epochSeen \in 0 .. epoch /\ slotSeen \in 0 .. slot

Moment == [epoch : Nat, slot : Nat]
Result == [data : Moment, epoch : Nat, cached_at_slot : Nat]

Places == {"idle", "missed", "noted", "executed"}

\* a is not later than b.
NotAfter(a, b) == a.epoch <= b.epoch /\ a.slot <= b.slot

Clientele ==
  /\ pc \in [Clients -> Places]
  /\ stamp \in [Clients -> Moment] /\ data \in [Clients -> Moment]
  /\ \A c \in Clients :
       /\ pc[c] = "noted" => stamp[c].epoch <= epoch /\ stamp[c].slot <= slot
       /\ pc[c] = "executed" => NotAfter(stamp[c], data[c])

\* The stamps of a result never claim it to be fresher than it is.
HonestStamps ==
  \A k \in Ids : inner[k] # Absent =>
    /\ inner[k] \in Result
    /\ inner[k].epoch <= inner[k].data.epoch
    /\ inner[k].cached_at_slot <= inner[k].data.slot

\* The inductive invariant.
IndInv == Clock /\ Clientele /\ HonestStamps /\ inner = [k \in Ids |-> inner[k]]

-------------------------------------------------------------------------------
\* Init has an empty cache and idle clients.
LEMMA InitIndInv == Init => IndInv
<1> SUFFICES ASSUME Init PROVE IndInv
  OBVIOUS
<1>1. Clock
  BY DEF Init, Clock
<1>2. Clientele
  BY DEF Init, Clientele, NoStamp, Moment, Places
<1>3. HonestStamps /\ inner = [k \in Ids |-> inner[k]]
  BY DEF Init, HonestStamps
<1> QED
  BY <1>1, <1>2, <1>3 DEF IndInv

\* Taking results out of the cache keeps the others as they are.
LEMMA PopHonest ==
  ASSUME IndInv, NEW keys, LruPop(keys)
  PROVE  HonestStamps' /\ inner' = [k \in Ids |-> inner'[k]]
  BY DEF IndInv, HonestStamps, LruPop

\* A Relaxed load leaves the view between the last one and the present.
LEMMA LoadClock ==
  ASSUME IndInv, UNCHANGED clockVars,
         NEW e, NEW s, e \in epochSeen .. epoch, s \in slotSeen .. slot,
         epochSeen' \in {e, epochSeen}, slotSeen' \in {s, slotSeen}
  PROVE  Clock'
  BY DEF IndInv, Clock, clockVars

\* get, whether it hits, misses, or pops a stale result.
LEMMA GetInv ==
  ASSUME IndInv, NEW c \in Clients, NEW k \in Ids, Get(c, k)
  PROVE  IndInv'
<1>1. PICK e \in epochSeen .. epoch, s \in slotSeen .. slot :
        /\ epochSeen' = e /\ slotSeen' = s /\ UNCHANGED clockVars
        /\ Hit(c, k, e, s) \/ Miss(c, k, e, s)
  BY DEF Get, Load
<1>2. Clock'
  BY <1>1, LoadClock
<1>3. CASE Hit(c, k, e, s)
  <2>1. UNCHANGED <<inner, pc, want, stamp, data>>
    BY <1>3 DEF Hit, LruGet, clientVars
  <2> QED
    BY <1>1, <1>2, <2>1 DEF IndInv, Clientele, HonestStamps, clockVars
<1>4. CASE Miss(c, k, e, s)
  <2>1. Clientele'
    BY <1>1, <1>4 DEF Miss, IndInv, Clientele, Places, clockVars
  <2>2. HonestStamps' /\ inner' = [j \in Ids |-> inner'[j]]
    BY <1>4, PopHonest DEF Miss
  <2> QED
    BY <1>2, <2>1, <2>2 DEF IndInv
<1> QED
  BY <1>1, <1>3, <1>4

\* A client notes an epoch and a slot that are not in the future.
LEMMA NoteInv == ASSUME IndInv, NEW c \in Clients, Note(c) PROVE IndInv'
<1>1. PICK e \in epochSeen .. epoch, s \in slotSeen .. slot :
        /\ epochSeen' = e /\ slotSeen' = s
        /\ stamp' = [stamp EXCEPT ![c] = [epoch |-> e, slot |-> s]]
  BY DEF Note, Load
<1>2. /\ pc' = [pc EXCEPT ![c] = "noted"]
      /\ UNCHANGED <<epoch, slot, inner, want, data>>
  BY DEF Note, clockVars, lruVars
<1>3. Clock'
  BY <1>1, <1>2, LoadClock DEF clockVars
<1>4. Clientele'
  <2>1. e \in Nat /\ s \in Nat /\ e <= epoch /\ s <= slot
    BY <1>1 DEF IndInv, Clock
  <2>2. [epoch |-> e, slot |-> s] \in Moment
    BY <2>1 DEF Moment
  <2>3. stamp' \in [Clients -> Moment] /\ pc' \in [Clients -> Places]
    BY <1>1, <1>2, <2>2 DEF IndInv, Clientele, Places
  <2>4. stamp'[c] = [epoch |-> e, slot |-> s] /\ pc'[c] = "noted"
    BY <1>1, <1>2 DEF IndInv, Clientele
  <2>5. \A d \in Clients \ {c} : stamp'[d] = stamp[d] /\ pc'[d] = pc[d]
    BY <1>1, <1>2 DEF IndInv, Clientele
  <2> QED
    BY <1>2, <2>1, <2>3, <2>4, <2>5 DEF IndInv, Clientele
<1> QED
  BY <1>2, <1>3, <1>4 DEF IndInv, HonestStamps

\* The data of an execution is of the present, hence not before the stamps.
LEMMA ExecuteInv == ASSUME IndInv, NEW c \in Clients, Execute(c) PROVE IndInv'
<1>1. /\ pc[c] = "noted" /\ pc' = [pc EXCEPT ![c] = "executed"]
      /\ data' = [data EXCEPT ![c] = [epoch |-> epoch, slot |-> slot]]
      /\ UNCHANGED <<epoch, slot, epochSeen, slotSeen, inner, want, stamp>>
  BY DEF Execute, clockVars, viewVars, lruVars
<1>2. Clientele'
  <2>1. [epoch |-> epoch, slot |-> slot] \in Moment
    BY DEF IndInv, Clock, Moment
  <2>2. data' \in [Clients -> Moment] /\ pc' \in [Clients -> Places]
    BY <1>1, <2>1 DEF IndInv, Clientele, Places
  <2>3. data'[c] = [epoch |-> epoch, slot |-> slot] /\ pc'[c] = "executed"
    BY <1>1 DEF IndInv, Clientele
  <2>4. NotAfter(stamp[c], data'[c])
    BY <1>1, <2>3 DEF IndInv, Clientele, NotAfter
  <2>5. \A d \in Clients \ {c} : data'[d] = data[d] /\ pc'[d] = pc[d]
    BY <1>1 DEF IndInv, Clientele
  <2> QED
    BY <1>1, <2>2, <2>3, <2>4, <2>5 DEF IndInv, Clientele, NotAfter
<1> QED
  BY <1>1, <1>2 DEF IndInv, Clock, HonestStamps

\* A result goes into the cache with the stamps noted before it was produced.
LEMMA InsertInv == ASSUME IndInv, NEW c \in Clients, Insert(c) PROVE IndInv'
<1> DEFINE r == [data |-> data[c], epoch |-> stamp[c].epoch,
                 cached_at_slot |-> stamp[c].slot]
<1>1. /\ pc[c] = "executed" /\ pc' = [pc EXCEPT ![c] = "idle"]
      /\ inner' = [j \in Ids |-> IF j = want[c] THEN r
                                 ELSE IF j \in Evicted(want[c]) THEN Absent ELSE inner[j]]
      /\ UNCHANGED <<epoch, slot, epochSeen, slotSeen, want, stamp, data>>
  BY DEF Insert, LruPut, clockVars, viewVars
<1>2. stamp[c] \in Moment /\ data[c] \in Moment /\ NotAfter(stamp[c], data[c])
  BY <1>1 DEF IndInv, Clientele
<1>3. /\ r \in Result /\ r.epoch <= r.data.epoch /\ r.cached_at_slot <= r.data.slot
  BY <1>2 DEF Moment, Result, NotAfter
<1> HIDE DEF r
<1>4. HonestStamps' /\ inner' = [k \in Ids |-> inner'[k]]
  BY <1>1, <1>3 DEF IndInv, HonestStamps
<1>5. Clientele'
  BY <1>1 DEF IndInv, Clientele, Places
<1>6. Clock'
  BY <1>1 DEF IndInv, Clock
<1> QED
  BY <1>4, <1>5, <1>6 DEF IndInv

\* Invalidation only removes results.
LEMMA InvalidateInv == ASSUME IndInv, InvalidateSlot \/ InvalidateEpoch PROVE IndInv'
<1>1. UNCHANGED <<epoch, slot, pc, want, stamp, data>>
  BY DEF InvalidateSlot, InvalidateEpoch, clockVars, clientVars
<1>2. Clock'
  <2>1. CASE InvalidateSlot
    BY <1>1, <2>1 DEF InvalidateSlot, IndInv, Clock
  <2>2. CASE InvalidateEpoch
    BY <1>1, <2>2 DEF InvalidateEpoch, IndInv, Clock
  <2> QED
    BY <2>1, <2>2
<1>3. \E keys : LruPop(keys)
  BY DEF InvalidateSlot, InvalidateEpoch
<1>4. HonestStamps' /\ inner' = [k \in Ids |-> inner'[k]]
  BY <1>3, PopHonest
<1>5. Clientele'
  BY <1>1 DEF IndInv, Clientele
<1> QED
  BY <1>2, <1>4, <1>5 DEF IndInv

\* Time passing keeps noted stamps in the past.
LEMMA AdvanceInv == ASSUME IndInv, AdvanceEpoch \/ AdvanceSlot PROVE IndInv'
<1>1. /\ epoch' \in {epoch, epoch + 1} /\ slot' \in {slot, slot + 1}
      /\ UNCHANGED <<epochSeen, slotSeen, inner, pc, want, stamp, data>>
  BY DEF AdvanceEpoch, AdvanceSlot, viewVars, lruVars, clientVars
<1>2. Clock'
  BY <1>1 DEF IndInv, Clock
<1>3. Clientele'
  <2>1. \A c \in Clients : stamp[c].epoch \in Nat /\ stamp[c].slot \in Nat
    BY DEF IndInv, Clientele, Moment
  <2>2. \A c \in Clients : pc[c] = "noted" =>
                             stamp[c].epoch <= epoch' /\ stamp[c].slot <= slot'
    BY <1>1, <2>1 DEF IndInv, Clientele, Clock
  <2> QED
    BY <1>1, <2>2 DEF IndInv, Clientele, NotAfter
<1> QED
  BY <1>1, <1>2, <1>3 DEF IndInv, HonestStamps

\* IndInv is an invariant of the specification.
THEOREM Invariance == Spec => []IndInv
<1>1. ASSUME IndInv, [Next]_vars PROVE IndInv'
  <2>1. CASE Next
    BY <1>1, <2>1, GetInv, NoteInv, ExecuteInv, InsertInv, InvalidateInv, AdvanceInv
       DEF Next
  <2>2. CASE UNCHANGED vars
    BY <1>1, <2>2 DEF IndInv, Clock, Clientele, HonestStamps, vars, clockVars, viewVars,
       lruVars, clientVars
  <2> QED
    BY <1>1, <2>1, <2>2
<1> QED
  BY InitIndInv, <1>1, PTL DEF Spec

-------------------------------------------------------------------------------
(* The theorems *)

\* No get of SysvarCache serves a result older than the epoch, or the slot, that
\* it compared the result's stamp with.
THEOREM Freshness == Spec => []HitFresh
<1>1. IndInv => HitFresh
  <2> SUFFICES ASSUME IndInv,
                      NEW k \in Held, NEW e \in epochSeen .. epoch,
                      NEW s \in slotSeen .. slot, Valid(k, e, s)
               PROVE  /\ PolicyOf(k) = "EpochBound" => inner[k].data.epoch >= e
                      /\ PolicyOf(k) = "Slot" => inner[k].data.slot >= s
    BY DEF HitFresh
  <2>1. /\ inner[k].epoch <= inner[k].data.epoch
        /\ inner[k].cached_at_slot <= inner[k].data.slot
        /\ inner[k] \in Result
    BY DEF IndInv, HonestStamps, Held
  <2>2. PolicyOf(k) = "EpochBound" => inner[k].epoch = e
    BY DEF Valid
  <2>3. PolicyOf(k) = "Slot" => inner[k].cached_at_slot = s
    BY DEF Valid
  <2>4. /\ inner[k].data.epoch \in Nat /\ inner[k].data.slot \in Nat
        /\ e \in Int /\ s \in Int
    BY <2>1 DEF Result, Moment, IndInv, Clock
  <2> QED
    BY <2>1, <2>2, <2>3, <2>4
<1> QED
  BY Invariance, <1>1, PTL

\* A Permanent result is removed only by the insertion of another key into a
\* full cache: neither get nor an invalidation touches it.
THEOREM PermanentStays == Spec => PermanentKept
<1>1. ASSUME IndInv, [Next]_vars,
             NEW k \in Held, PolicyOf(k) = "Permanent", inner'[k] = Absent
      PROVE  /\ Len(recency) >= Cap
             /\ \E c \in Clients : pc[c] = "executed" /\ pc'[c] = "idle"
  <2>1. k \in Ids /\ inner[k] # Absent
    BY DEF Held
  <2>2. ASSUME NEW keys, LruPop(keys) PROVE k \in keys
    BY <1>1, <2>1, <2>2 DEF LruPop
  <2>3. CASE \E c \in Clients, j \in Ids : Get(c, j)
    <3>1. PICK c \in Clients, j \in Ids, e \in epochSeen .. epoch, s \in slotSeen .. slot :
            Hit(c, j, e, s) \/ Miss(c, j, e, s)
      BY <2>3 DEF Get
    <3>2. Valid(k, e, s)
      BY <1>1 DEF Valid
    <3>3. ~Hit(c, j, e, s)
      BY <1>1, <2>1 DEF Hit, LruGet
    <3>4. ~Miss(c, j, e, s)
      BY <1>1, <2>2, <3>2 DEF Miss
    <3> QED
      BY <3>1, <3>3, <3>4
  <2>4. CASE \E c \in Clients : Insert(c)
    <3>1. PICK c \in Clients : Insert(c)
      BY <2>4
    <3> DEFINE r == [data |-> data[c], epoch |-> stamp[c].epoch,
                     cached_at_slot |-> stamp[c].slot]
    <3>2. /\ pc[c] = "executed" /\ pc' = [pc EXCEPT ![c] = "idle"]
          /\ inner'[k] = IF k = want[c] THEN r
                         ELSE IF k \in Evicted(want[c]) THEN Absent ELSE inner[k]
      BY <2>1, <3>1 DEF Insert, LruPut
    <3>3. r # Absent
      <4>1. "data" \in DOMAIN r /\ "data" \notin DOMAIN Absent
        BY DEF Absent
      <4> QED
        BY <4>1
    <3> HIDE DEF r
    <3>4. k \in Evicted(want[c])
      BY <1>1, <2>1, <3>2, <3>3
    <3>5. Len(recency) >= Cap
      BY <3>4 DEF Evicted
    <3> QED
      BY <1>1, <3>2, <3>5 DEF IndInv, Clientele
  <2>5. CASE InvalidateSlot \/ InvalidateEpoch
    BY <1>1, <2>2, <2>5 DEF InvalidateSlot, InvalidateEpoch, StaleSlotKeys,
       StaleEpochKeys, PolicyOf
  <2>6. CASE UNCHANGED inner
    BY <1>1, <2>1, <2>6
  <2>7. \/ \E c \in Clients, j \in Ids : Get(c, j)
        \/ \E c \in Clients : Insert(c)
        \/ InvalidateSlot \/ InvalidateEpoch
        \/ UNCHANGED inner
    BY <1>1 DEF Next, Note, Execute, AdvanceEpoch, AdvanceSlot, vars, lruVars
  <2> QED
    BY <2>3, <2>4, <2>5, <2>6, <2>7
<1> DEFINE Keeps == \A k \in Held : PolicyOf(k) = "Permanent" /\ inner'[k] = Absent =>
                      /\ Len(recency) >= Cap
                      /\ \E c \in Clients : pc[c] = "executed" /\ pc'[c] = "idle"
<1>2. ASSUME IndInv, [Next]_vars PROVE [Keeps]_vars
  BY <1>1, <1>2
<1> QED
  BY Invariance, <1>2, PTL DEF Spec, PermanentKept

-------------------------------------------------------------------------------
(* The LRU list *)

\* A client that has missed knows the key it missed.
Requested == \A c \in Clients : pc[c] # "idle" => want[c] \in Ids

\* What stands before a key in the list was used after it.
ListedByUse ==
  \A m, n \in 1 .. Len(recency) : m < n => recency[m] \in usedSince[recency[n]]

LruKept ==
  /\ recency \in Seq(Ids) /\ usedSince \in [Ids -> SUBSET Ids]
  /\ Len(recency) <= Cap /\ Distinct(recency)
  /\ \A k \in Ids : k \in Held <=> \E n \in 1 .. Len(recency) : recency[n] = k
  /\ ListedByUse

\* The inductive invariant of the list.
CacheInd == TypeOK /\ Requested /\ LruKept

\* A cache of capacity zero is given one entry.
LEMMA CapPositive == Cap \in Nat /\ Cap >= 1
  BY CacheAssumption DEF Cap

\* Without leaves out the keys given and keeps the others in order.
LEMMA WithoutPart ==
  ASSUME recency \in Seq(Ids), NEW keys
  PROVE  Without(keys) \in Seq(Ids) /\ PartOf(Without(keys), recency, Len(recency), keys)
<1>1. Without(keys) = Filtered(recency, keys)
  BY Zenon DEF Without, Filtered, KeptOf, KeptStep
<1> QED
  BY <1>1, FilteredPart

\* Any part of the list that keeps its order is without repetitions and in the
\* order of use.
LEMMA PartInOrder ==
  ASSUME LruKept, NEW w, NEW keys, PartOf(w, recency, Len(recency), keys),
         NEW b \in 1 .. Len(w), NEW c \in 1 .. Len(w), b < c
  PROVE  w[b] # w[c] /\ w[b] \in usedSince[w[c]]
<1>1. PICK a \in 1 .. Len(recency), d \in 1 .. Len(recency) :
        a < d /\ w[b] = recency[a] /\ w[c] = recency[d]
  BY DEF PartOf
<1>2. recency[a] # recency[d] /\ recency[a] \in usedSince[recency[d]]
  BY <1>1 DEF LruKept, Distinct, ListedByUse
<1> QED
  BY <1>1, <1>2

\* The keys of the part are those held that were not left out.
LEMMA PartHolds ==
  ASSUME LruKept, NEW w, NEW keys, PartOf(w, recency, Len(recency), keys), NEW j \in Ids
  PROVE  j \in Held /\ j \notin keys <=> \E n \in 1 .. Len(w) : w[n] = j
<1>1. j \in Held <=> \E n \in 1 .. Len(recency) : recency[n] = j
  BY DEF LruKept
<1>2. ASSUME j \in Held, j \notin keys PROVE \E n \in 1 .. Len(w) : w[n] = j
  <2>1. PICK a \in 1 .. Len(recency) : recency[a] = j
    BY <1>1, <1>2
  <2> QED
    BY <1>2, <2>1 DEF PartOf
<1>3. ASSUME NEW n \in 1 .. Len(w), w[n] = j PROVE j \in Held /\ j \notin keys
  <2>1. w[n] \notin keys /\ \E a \in 1 .. Len(recency) : w[n] = recency[a]
    BY DEF PartOf
  <2> QED
    BY <1>1, <1>3, <2>1
<1> QED
  BY <1>2, <1>3

\* Popping keys leaves the list of the keys that stay.
LEMMA PopKept ==
  ASSUME LruKept, NEW keys, LruPop(keys)
  PROVE  LruKept'
<1> DEFINE w == Without(keys)
<1>1. /\ inner' = [j \in Ids |-> IF j \in keys THEN Absent ELSE inner[j]]
      /\ recency' = w /\ usedSince' = usedSince
  BY DEF LruPop
<1>2. w \in Seq(Ids) /\ PartOf(w, recency, Len(recency), keys)
  BY WithoutPart DEF LruKept
<1> HIDE DEF w
<1>3. Len(w) \in Nat /\ Len(recency) \in Nat
  BY <1>2 DEF LruKept
<1>4. Len(w) <= Cap
  BY <1>2, <1>3, CapPositive DEF PartOf, LruKept
<1>5. \A b, c \in 1 .. Len(w) : b < c => w[b] # w[c] /\ w[b] \in usedSince[w[c]]
  BY <1>2, PartInOrder
<1>6. ASSUME NEW k \in Ids
      PROVE  k \in Held' <=> \E n \in 1 .. Len(w) : w[n] = k
  <2>1. k \in Held' <=> k \in Held /\ k \notin keys
    BY <1>1 DEF Held
  <2> QED
    BY <1>2, <2>1, PartHolds
<1> QED
  BY <1>1, <1>2, <1>4, <1>5, <1>6 DEF LruKept, Distinct, ListedByUse, Cap

\* Moving k to the front, after taking out k and what it evicts, leaves room for
\* k and the list in order of use.
LEMMA FrontKept ==
  ASSUME LruKept, NEW k \in Ids, NEW keys, k \in keys,
         recency' = <<k>> \o Without(keys), Used(k),
         \A j \in Ids : j \in Held' <=> j = k \/ (j \in Held /\ j \notin keys),
         Len(recency) < Cap \/ \E m \in 1 .. Len(recency) : recency[m] \in keys
  PROVE  LruKept'
<1> DEFINE w == Without(keys)
           r == recency'
<1>1. usedSince' = [j \in Ids |-> IF j = k THEN {} ELSE usedSince[j] \cup {k}]
  BY DEF Used
<1>2. w \in Seq(Ids) /\ PartOf(w, recency, Len(recency), keys) /\ r = <<k>> \o w
  BY WithoutPart DEF LruKept
<1> HIDE DEF w, r
<1>3. /\ r \in Seq(Ids) /\ Len(r) = Len(w) + 1 /\ r[1] = k
      /\ \A n \in 1 .. Len(w) : r[n + 1] = w[n]
      /\ \A n \in 2 .. Len(r) : r[n] = w[n - 1] /\ n - 1 \in 1 .. Len(w)
      /\ Len(w) \in Nat /\ Len(recency) \in Nat
  BY <1>2 DEF LruKept
<1>4. Len(r) <= Cap
  <2>1. Len(w) < Len(recency) \/ (Len(w) <= Len(recency) /\ Len(recency) < Cap)
    <3>1. CASE Len(recency) < Cap
      BY <1>2, <3>1 DEF PartOf
    <3>2. CASE \E m \in 1 .. Len(recency) : recency[m] \in keys
      <4>1. PICK m \in 1 .. Len(recency) : recency[m] \in keys
        BY <3>2
      <4>2. \A a \in 1 .. Len(recency) : recency[a] \in keys => Len(w) < Len(recency)
        BY <1>2 DEF PartOf
      <4> QED
        BY <4>1, <4>2
    <3> QED
      BY <3>1, <3>2
  <2> QED
    BY <1>3, <2>1, CapPositive DEF LruKept
<1>5. \A n \in 1 .. Len(w) : w[n] # k /\ w[n] \in Ids
  BY <1>2 DEF PartOf
<1>6. \A b, c \in 1 .. Len(w) : b < c => w[b] # w[c] /\ w[b] \in usedSince[w[c]]
  BY <1>2, PartInOrder
<1>7. ASSUME NEW m \in 1 .. Len(r), NEW n \in 1 .. Len(r), m < n
      PROVE  r[m] # r[n] /\ r[m] \in usedSince'[r[n]]
  <2>1. n \in 2 .. Len(r) /\ r[n] = w[n - 1] /\ n - 1 \in 1 .. Len(w)
    BY <1>3, <1>7
  <2>2. usedSince'[r[n]] = usedSince[r[n]] \cup {k} /\ r[n] # k
    BY <1>1, <1>5, <2>1
  <2>3. CASE m = 1
    BY <1>3, <2>2, <2>3
  <2>4. CASE m # 1
    <3>1. m \in 2 .. Len(r) /\ r[m] = w[m - 1] /\ m - 1 \in 1 .. Len(w) /\ m - 1 < n - 1
      BY <1>3, <1>7, <2>4
    <3> QED
      BY <1>6, <2>1, <2>2, <3>1
  <2> QED
    BY <2>3, <2>4
<1>8. ASSUME NEW j \in Ids PROVE j \in Held' <=> \E n \in 1 .. Len(r) : r[n] = j
  <2>1. j \in Held /\ j \notin keys <=> \E n \in 1 .. Len(w) : w[n] = j
    BY <1>2, PartHolds
  <2>2. (\E n \in 1 .. Len(r) : r[n] = j) <=> j = k \/ \E n \in 1 .. Len(w) : w[n] = j
    <3>1. ASSUME NEW n \in 1 .. Len(r), r[n] = j
          PROVE  j = k \/ \E a \in 1 .. Len(w) : w[a] = j
      BY <1>3, <3>1
    <3>2. ASSUME NEW n \in 1 .. Len(w), w[n] = j PROVE \E a \in 1 .. Len(r) : r[a] = j
      <4>1. n + 1 \in 1 .. Len(r) /\ r[n + 1] = j
        BY <1>3, <3>2
      <4> QED
        BY <4>1
    <3>3. j = k => \E n \in 1 .. Len(r) : r[n] = j
      BY <1>3
    <3> QED
      BY <3>1, <3>2, <3>3
  <2> QED
    BY <2>1, <2>2
<1>9. usedSince' \in [Ids -> SUBSET Ids]
  BY <1>1 DEF LruKept
<1> QED
  BY <1>3, <1>4, <1>7, <1>8, <1>9 DEF LruKept, Distinct, ListedByUse, Cap, r

\* A result is not Absent: it has data.
LEMMA ResultNotAbsent == \A d, e, t : [data |-> d, epoch |-> e, cached_at_slot |-> t] # Absent
<1> SUFFICES ASSUME NEW d, NEW e, NEW t
             PROVE  [data |-> d, epoch |-> e, cached_at_slot |-> t] # Absent
  OBVIOUS
<1> DEFINE r == [data |-> d, epoch |-> e, cached_at_slot |-> t]
<1>1. "data" \in DOMAIN r /\ "data" \notin DOMAIN Absent
  BY DEF Absent
<1> QED
  BY <1>1

\* Init has an empty list.
LEMMA CacheInitInd == Init => CacheInd
<1> SUFFICES ASSUME Init PROVE CacheInd
  OBVIOUS
<1>1. TypeOK
  <2>1. NoStamp \in Moments
    BY CacheAssumption DEF NoStamp, Moments
  <2> QED
    BY <2>1, CacheAssumption DEF Init, TypeOK
<1>2. Requested
  BY DEF Init, Requested
<1>3. LruKept
  <2>1. recency = <<>> /\ Len(recency) = 0 /\ recency \in Seq(Ids)
    BY DEF Init
  <2>2. Held = {} /\ usedSince \in [Ids -> SUBSET Ids]
    BY DEF Init, Held
  <2> QED
    BY <2>1, <2>2, CapPositive DEF LruKept, Distinct, ListedByUse
<1> QED
  BY <1>1, <1>2, <1>3 DEF CacheInd

\* The list does not change when neither inner nor recency nor usedSince do.
LEMMA LruStutter == LruKept /\ UNCHANGED lruVars => LruKept'
  BY DEF LruKept, Held, Distinct, ListedByUse, Cap, lruVars

\* Popping leaves results or Absent in inner.
LEMMA PopTypes ==
  ASSUME TypeOK, NEW keys, LruPop(keys)
  PROVE  /\ inner' \in [Ids -> Results \cup {Absent}] /\ recency' \in Seq(Ids)
         /\ usedSince' \in [Ids -> SUBSET Ids]
<1>1. Without(keys) \in Seq(Ids)
  BY WithoutPart DEF TypeOK
<1> QED
  BY <1>1 DEF TypeOK, LruPop

\* get keeps the list, whether it hits, misses, or pops a stale result.
LEMMA GetCache == ASSUME CacheInd, NEW c \in Clients, NEW k \in Ids, Get(c, k) PROVE CacheInd'
<1>1. PICK e \in epochSeen .. epoch, s \in slotSeen .. slot :
        /\ epochSeen' = e /\ slotSeen' = s
        /\ Hit(c, k, e, s) \/ Miss(c, k, e, s)
  BY DEF Get, Load
<1>2. UNCHANGED <<epoch, slot>>
  BY DEF Get, clockVars
<1>3. /\ epoch' \in 0 .. MaxEpoch /\ slot' \in 0 .. MaxSlot
      /\ epochSeen' \in 0 .. epoch' /\ slotSeen' \in 0 .. slot'
  BY <1>1, <1>2 DEF CacheInd, TypeOK
<1>4. CASE Hit(c, k, e, s)
  <2>1. /\ k \in Held /\ hits' = hits + 1 /\ Used(k)
        /\ recency' = <<k>> \o Without({k})
        /\ UNCHANGED <<inner, misses, pc, want, stamp, data>>
    BY <1>4 DEF Hit, LruGet, clientVars
  <2>2. \A j \in Ids : j \in Held' <=> j = k \/ (j \in Held /\ j \notin {k})
    BY <2>1 DEF Held
  <2>3. \E m \in 1 .. Len(recency) : recency[m] \in {k}
    BY <2>1 DEF CacheInd, LruKept
  <2>4. LruKept'
    BY <2>1, <2>2, <2>3, FrontKept DEF CacheInd
  <2>5. TypeOK'
    BY <1>3, <2>1, <2>4 DEF CacheInd, TypeOK, LruKept
  <2>6. Requested'
    BY <2>1 DEF CacheInd, Requested
  <2> QED
    BY <2>4, <2>5, <2>6 DEF CacheInd
<1>5. CASE Miss(c, k, e, s)
  <2>1. /\ misses' = misses + 1 /\ LruPop({k})
        /\ pc' = [pc EXCEPT ![c] = "missed"] /\ want' = [want EXCEPT ![c] = k]
        /\ UNCHANGED <<hits, stamp, data>>
    BY <1>5 DEF Miss, MissCount
  <2>2. LruKept'
    BY <2>1, PopKept DEF CacheInd
  <2>3. TypeOK'
    <3>1. /\ inner' \in [Ids -> Results \cup {Absent}] /\ recency' \in Seq(Ids)
          /\ usedSince' \in [Ids -> SUBSET Ids]
      BY <2>1, PopTypes DEF CacheInd
    <3>2. /\ pc' \in [Clients -> {"idle", "missed", "noted", "executed"}]
          /\ want' \in [Clients -> Ids \cup {0}]
      BY <2>1 DEF CacheInd, TypeOK
    <3> QED
      BY <1>3, <2>1, <3>1, <3>2 DEF CacheInd, TypeOK
  <2>4. Requested'
    BY <2>1 DEF CacheInd, TypeOK, Requested
  <2> QED
    BY <2>2, <2>3, <2>4 DEF CacheInd
<1> QED
  BY <1>1, <1>4, <1>5

\* What insert evicts makes room for its key.
LEMMA InsertCache == ASSUME CacheInd, NEW c \in Clients, Insert(c) PROVE CacheInd'
<1> DEFINE r == [data |-> data[c], epoch |-> stamp[c].epoch, cached_at_slot |-> stamp[c].slot]
           k == want[c]
           gone == Evicted(k) \cup {k}
<1>1. /\ pc[c] = "executed" /\ pc' = [pc EXCEPT ![c] = "idle"]
      /\ inner' = [j \in Ids |-> IF j = k THEN r
                                 ELSE IF j \in Evicted(k) THEN Absent ELSE inner[j]]
      /\ recency' = <<k>> \o Without(gone) /\ Used(k)
      /\ UNCHANGED <<epoch, slot, epochSeen, slotSeen, hits, misses, want, stamp, data>>
  BY DEF Insert, LruPut, clockVars, viewVars, statVars
<1>2. k \in Ids
  BY <1>1 DEF CacheInd, Requested
<1>3. r \in Results /\ r # Absent
  <2>1. stamp[c] \in Moments /\ data[c] \in Moments
    BY DEF CacheInd, TypeOK
  <2> QED
    BY <2>1, ResultNotAbsent DEF Results, Moments
<1> HIDE DEF r, k
<1>4. \A j \in Ids : j \in Held' <=> j = k \/ (j \in Held /\ j \notin gone)
  BY <1>1, <1>2, <1>3 DEF Held
<1>5. Len(recency) < Cap \/ \E m \in 1 .. Len(recency) : recency[m] \in gone
  <2>1. recency \in Seq(Ids) /\ Len(recency) \in Nat
    BY DEF CacheInd, TypeOK
  <2>2. CASE k \in Held
    BY <1>2, <2>2 DEF CacheInd, LruKept
  <2>3. CASE k \notin Held /\ Len(recency) >= Cap
    <3>1. Evicted(k) = {recency[Len(recency)]}
      BY <1>2, <2>3 DEF Evicted, Held
    <3>2. Len(recency) \in 1 .. Len(recency)
      BY <2>1, <2>3, CapPositive
    <3> QED
      BY <3>1, <3>2
  <2> QED
    BY <2>1, <2>2, <2>3, CapPositive
<1>6. LruKept'
  BY <1>1, <1>2, <1>4, <1>5, FrontKept DEF CacheInd
<1>7. TypeOK'
  <2>1. inner' \in [Ids -> Results \cup {Absent}]
    BY <1>1, <1>3 DEF CacheInd, TypeOK
  <2>2. pc' \in [Clients -> {"idle", "missed", "noted", "executed"}]
    BY <1>1 DEF CacheInd, TypeOK
  <2> QED
    BY <1>1, <1>6, <2>1, <2>2 DEF CacheInd, TypeOK, LruKept
<1>8. Requested'
  BY <1>1 DEF CacheInd, TypeOK, Requested
<1> QED
  BY <1>6, <1>7, <1>8 DEF CacheInd

\* Noting and executing do not touch the cache.
LEMMA ClientCache ==
  ASSUME CacheInd, NEW c \in Clients, Note(c) \/ Execute(c)
  PROVE  CacheInd'
<1>1. UNCHANGED <<epoch, slot, lruVars, hits, misses, want>>
  BY DEF Note, Execute, clockVars, statVars
<1>2. LruKept'
  BY <1>1, LruStutter DEF CacheInd
<1>3. /\ pc[c] # "idle"
      /\ \E l \in {"noted", "executed"} : pc' = [pc EXCEPT ![c] = l]
  BY DEF Note, Execute
<1>4. pc' \in [Clients -> {"idle", "missed", "noted", "executed"}]
  BY <1>3 DEF CacheInd, TypeOK
<1>5. Requested'
  BY <1>1, <1>3 DEF CacheInd, TypeOK, Requested
<1>6. /\ epochSeen' \in 0 .. epoch /\ slotSeen' \in 0 .. slot
      /\ stamp' \in [Clients -> Moments] /\ data' \in [Clients -> Moments]
  <2>1. CASE Note(c)
    <3>1. PICK e \in epochSeen .. epoch, s \in slotSeen .. slot :
            /\ epochSeen' = e /\ slotSeen' = s
            /\ stamp' = [stamp EXCEPT ![c] = [epoch |-> e, slot |-> s]]
      BY <2>1 DEF Note, Load
    <3>2. e \in 0 .. epoch /\ s \in 0 .. slot /\ e \in 0 .. MaxEpoch /\ s \in 0 .. MaxSlot
      <4>1. /\ epoch \in 0 .. MaxEpoch /\ slot \in 0 .. MaxSlot
            /\ epochSeen \in 0 .. epoch /\ slotSeen \in 0 .. slot
        BY DEF CacheInd, TypeOK
      <4> QED
        BY <3>1, <4>1, CacheAssumption
    <3>3. [epoch |-> e, slot |-> s] \in Moments
      BY <3>2 DEF Moments
    <3>4. data' = data
      BY <2>1 DEF Note
    <3> QED
      BY <3>1, <3>2, <3>3, <3>4 DEF CacheInd, TypeOK
  <2>2. CASE Execute(c)
    <3>1. /\ data' = [data EXCEPT ![c] = [epoch |-> epoch, slot |-> slot]]
          /\ UNCHANGED <<epochSeen, slotSeen, stamp>>
      BY <2>2 DEF Execute, viewVars
    <3>2. [epoch |-> epoch, slot |-> slot] \in Moments
      BY DEF CacheInd, TypeOK, Moments
    <3> QED
      BY <3>1, <3>2 DEF CacheInd, TypeOK
  <2> QED
    BY <2>1, <2>2
<1>7. TypeOK'
  BY <1>1, <1>4, <1>6 DEF CacheInd, TypeOK, lruVars
<1> QED
  BY <1>2, <1>5, <1>7 DEF CacheInd

\* Invalidation takes keys out of the list and out of the map alike.
LEMMA InvalidateCache ==
  ASSUME CacheInd, InvalidateSlot \/ InvalidateEpoch
  PROVE  CacheInd'
<1>1. UNCHANGED <<epoch, slot, hits, misses, pc, want, stamp, data>>
  BY DEF InvalidateSlot, InvalidateEpoch, clockVars, statVars, clientVars
<1>2. epochSeen' \in 0 .. epoch /\ slotSeen' \in 0 .. slot
  <2>1. CASE InvalidateSlot
    BY <2>1 DEF InvalidateSlot, CacheInd, TypeOK
  <2>2. CASE InvalidateEpoch
    BY <2>2 DEF InvalidateEpoch, CacheInd, TypeOK
  <2> QED
    BY <2>1, <2>2
<1>3. PICK keys : LruPop(keys)
  BY DEF InvalidateSlot, InvalidateEpoch
<1>4. LruKept'
  BY <1>3, PopKept DEF CacheInd
<1>5. /\ inner' \in [Ids -> Results \cup {Absent}] /\ recency' \in Seq(Ids)
      /\ usedSince' \in [Ids -> SUBSET Ids]
  BY <1>3, PopTypes DEF CacheInd
<1>6. TypeOK'
  BY <1>1, <1>2, <1>5 DEF CacheInd, TypeOK
<1>7. Requested'
  BY <1>1 DEF CacheInd, Requested
<1> QED
  BY <1>4, <1>6, <1>7 DEF CacheInd

\* Nor does the passing of time touch it.
LEMMA AdvanceCache == ASSUME CacheInd, AdvanceEpoch \/ AdvanceSlot PROVE CacheInd'
<1>1. /\ \/ epoch < MaxEpoch /\ epoch' = epoch + 1 /\ slot' = slot
         \/ slot < MaxSlot /\ slot' = slot + 1 /\ epoch' = epoch
      /\ UNCHANGED <<epochSeen, slotSeen, lruVars, hits, misses, pc, want, stamp, data>>
  BY DEF AdvanceEpoch, AdvanceSlot, viewVars, statVars, clientVars
<1>2. LruKept'
  BY <1>1, LruStutter DEF CacheInd
<1>3. /\ epoch' \in 0 .. MaxEpoch /\ slot' \in 0 .. MaxSlot
      /\ epochSeen' \in 0 .. epoch' /\ slotSeen' \in 0 .. slot'
  BY <1>1, CacheAssumption DEF CacheInd, TypeOK
<1>4. TypeOK'
  BY <1>1, <1>3 DEF CacheInd, TypeOK, lruVars
<1>5. Requested'
  BY <1>1 DEF CacheInd, Requested
<1> QED
  BY <1>2, <1>4, <1>5 DEF CacheInd

\* CacheInd is an invariant of the specification.
THEOREM CacheIndHolds == Spec => []CacheInd
<1>1. ASSUME CacheInd, [Next]_vars PROVE CacheInd'
  <2>1. CASE Next
    BY <1>1, <2>1, GetCache, InsertCache, ClientCache, InvalidateCache, AdvanceCache DEF Next
  <2>2. CASE UNCHANGED vars
    <3>1. LruKept'
      BY <1>1, <2>2, LruStutter DEF CacheInd, vars
    <3>2. TypeOK' /\ Requested'
      BY <1>1, <2>2 DEF CacheInd, TypeOK, Requested, vars, clockVars, viewVars,
         lruVars, statVars, clientVars
    <3> QED
      BY <3>1, <3>2 DEF CacheInd
  <2> QED
    BY <1>1, <2>1, <2>2
<1> QED
  BY CacheInitInd, <1>1, PTL DEF Spec

\* The cache's fields and the clients' locals keep their types.
THEOREM TypeOKHolds == Spec => []TypeOK
<1>1. CacheInd => TypeOK
  BY DEF CacheInd
<1> QED
  BY CacheIndHolds, <1>1, PTL

\* The cache never holds more than capacity.max(1) results, and its list orders
\* exactly the keys it holds, each once.
THEOREM WithinCapacityHolds == Spec => []WithinCapacity
<1>1. CacheInd => WithinCapacity
  <2> SUFFICES ASSUME CacheInd PROVE WithinCapacity
    OBVIOUS
  <2>1. recency \in Seq(Ids) /\ Distinct(recency) /\ Len(recency) \in 0 .. Len(recency)
    BY DEF CacheInd, LruKept
  <2>2. Held = {recency[n] : n \in 1 .. Len(recency)}
    BY <2>1 DEF CacheInd, LruKept, Held
  <2>3. Cardinality(Held) = Len(recency)
    BY <2>1, <2>2, DistinctCount
  <2> QED
    BY <2>2, <2>3 DEF WithinCapacity, CacheInd, LruKept, Cap
<1> QED
  BY CacheIndHolds, <1>1, PTL

\* get promotes what it serves: insert evicts a key only after as many other keys
\* as the cache has entries were used since that key was.
THEOREM HotKeptHolds == Spec => HotKept
<1>1. ASSUME CacheInd, [Next]_vars, NEW k \in Held, inner'[k] = Absent,
             \E c \in Clients : pc[c] = "executed" /\ pc'[c] = "idle"
      PROVE  Cardinality(usedSince'[k]) >= Cap
  <2>1. k \in Ids /\ inner[k] # Absent
    BY DEF Held
  <2>2. PICK c \in Clients : Insert(c)
    <3>1. pc \in [Clients -> {"idle", "missed", "noted", "executed"}]
      BY <1>1 DEF CacheInd, TypeOK
    <3>2. ASSUME NEW d \in Clients, NEW j \in Ids, Get(d, j) PROVE FALSE
      <4>1. \/ pc' = pc
            \/ pc' = [pc EXCEPT ![d] = "missed"]
        BY <3>2 DEF Get, Hit, Miss, clientVars
      <4> QED
        BY <1>1, <3>1, <4>1
    <3>3. ASSUME NEW d \in Clients, Note(d) \/ Execute(d) PROVE FALSE
      <4>1. \E l \in {"noted", "executed"} : pc' = [pc EXCEPT ![d] = l]
        BY <3>3 DEF Note, Execute
      <4> QED
        BY <1>1, <3>1, <4>1
    <3>4. ASSUME pc' = pc PROVE FALSE
      BY <1>1, <3>4
    <3>5. ~InvalidateSlot /\ ~InvalidateEpoch /\ ~AdvanceEpoch /\ ~AdvanceSlot
          /\ ~(UNCHANGED vars)
      BY <3>4 DEF InvalidateSlot, InvalidateEpoch, AdvanceEpoch, AdvanceSlot, vars, clientVars
    <3> QED
      BY <1>1, <3>2, <3>3, <3>5 DEF Next
  <2> DEFINE j == want[c]
             n == Len(recency)
             before == {recency[m] : m \in 1 .. n - 1}
  <2>3. k \in Evicted(j) /\ j # k /\ j \in Ids
    <3>1. /\ pc[c] = "executed"
          /\ inner' = [i \in Ids |->
               IF i = j THEN [data |-> data[c], epoch |-> stamp[c].epoch,
                              cached_at_slot |-> stamp[c].slot]
               ELSE IF i \in Evicted(j) THEN Absent ELSE inner[i]]
      BY <2>2 DEF Insert, LruPut
    <3>2. j # k
      BY <1>1, <2>1, <3>1, ResultNotAbsent
    <3>3. j \in Ids
      BY <1>1, <3>1 DEF CacheInd, Requested
    <3> QED
      BY <1>1, <2>1, <3>1, <3>2, <3>3
  <2>4. n >= Cap /\ k = recency[n] /\ j \notin Held
    BY <2>3 DEF Evicted, Held
  <2>5. n \in Nat /\ n >= 1 /\ recency \in Seq(Ids) /\ Distinct(recency) /\ n - 1 \in 0 .. n
    BY <1>1, <2>4, CapPositive DEF CacheInd, LruKept
  <2>6. IsFiniteSet(before) /\ Cardinality(before) = n - 1
    BY <2>5, DistinctCount
  <2>7. before \subseteq usedSince[k] /\ before \subseteq Held
    <3>1. \A m \in 1 .. n - 1 : m \in 1 .. n /\ n \in 1 .. n /\ m < n /\ recency[m] \in Ids
      BY <2>5
    <3>2. \A m \in 1 .. n - 1 : recency[m] \in usedSince[recency[n]]
      BY <1>1, <3>1 DEF CacheInd, LruKept, ListedByUse
    <3>3. \A m \in 1 .. n - 1 : recency[m] \in Held
      BY <1>1, <3>1 DEF CacheInd, LruKept
    <3> QED
      BY <2>4, <3>2, <3>3
  <2>8. usedSince'[k] = usedSince[k] \cup {j}
    BY <2>1, <2>2, <2>3 DEF Insert, LruPut, Used
  <2>9. IsFiniteSet(usedSince'[k])
    <3>1. usedSince'[k] \subseteq Ids
      BY <1>1, <2>1, <2>3, <2>8 DEF CacheInd, LruKept
    <3> QED
      BY <3>1, CacheAssumption, FS_Subset
  <2> HIDE DEF before
  <2>10. before \cup {j} \subseteq usedSince'[k] /\ j \notin before
    BY <2>4, <2>7, <2>8
  <2>11. Cardinality(before \cup {j}) = n
    <3>1. Cardinality(before \cup {j}) = IF j \in before THEN Cardinality(before)
                                        ELSE Cardinality(before) + 1
      BY <2>6, FS_AddElement
    <3> QED
      BY <2>5, <2>6, <2>10, <3>1
  <2>12. Cardinality(usedSince'[k]) >= n /\ Cardinality(usedSince'[k]) \in Nat
    BY <2>5, <2>9, <2>10, <2>11, FS_Subset, FS_CardinalityType
  <2> QED
    BY <2>4, <2>5, <2>12, CapPositive
<1> DEFINE Keeps == \A k \in Held :
                      /\ inner'[k] = Absent
                      /\ \E c \in Clients : pc[c] = "executed" /\ pc'[c] = "idle"
                      => Cardinality(usedSince'[k]) >= Cap
<1>2. ASSUME CacheInd, [Next]_vars PROVE [Keeps]_vars
  BY <1>1, <1>2
<1> QED
  BY CacheIndHolds, <1>2, PTL DEF Spec, HotKept
===============================================================================
