---------------------------- MODULE WindowLogProofs ---------------------------
(***************************************************************************)
(* The window builder and the two programs around it, for any number of    *)
(* transactions, events, late events, finalizations and drains, any window *)
(* size and any faults of the serializer.                                  *)
(*                                                                         *)
(* Both finalize and drain_all close some open windows: they give them out *)
(* one after the other, which the invariants are preserved by without      *)
(* regard to which transactions are closed and in which order.             *)
(*                                                                         *)
(* The replay: between two lines no window is open, so every line gives    *)
(* the window of its own events (ReplayInd), and what a generator wrote is *)
(* never longer than a window (GenInd).                                    *)
(*                                                                         *)
(* The log: a file is its whole lines and a tip.  LogInd speaks of every   *)
(* prefix of what is in the file and the BufWriter that a fault may leave. *)
(***************************************************************************)
EXTENDS WindowLog, ReplayHarness, FiniteFacts

Records == [tx : Txs, slot : Slots, events : Seq(Events), start_ts : Nat, end_ts : Nat]

OpenTypes ==
  /\ DOMAIN pending \subseteq Txs /\ IsFiniteSet(DOMAIN pending)
  /\ \A tx \in DOMAIN pending :
       /\ pending[tx] \in Seq(Events) /\ Len(pending[tx]) <= max_window_size
       /\ \A i \in 1 .. Len(pending[tx]) : pending[tx][i].tx = tx

BuilderTypes ==
  /\ OpenTypes
  /\ windows \in Seq(Records)
  /\ ingested \in Seq(Events) /\ \A n \in 1 .. Len(ingested) : ingested[n].ts = n

\* The windows of a transaction hold events that arrived, in the order they did.
HeldIn(events, tx, w) ==
  /\ w \in Seq(Events)
  /\ \A i \in 1 .. Len(w) : /\ w[i].ts \in 1 .. Len(events)
                            /\ w[i] = events[w[i].ts] /\ w[i].tx = tx
  /\ \A i, j \in 1 .. Len(w) : i < j => w[i].ts < w[j].ts

Held(tx, w) == HeldIn(ingested, tx, w)

TxOrder(tx) ==
  /\ Held(tx, Entry(pending, tx))
  /\ \A a \in GivenOf(tx) :
       /\ Held(tx, windows[a].events)
       /\ Earlier(windows[a].events, Entry(pending, tx))
       /\ \A b \in GivenOf(tx) : a < b => Earlier(windows[a].events, windows[b].events)

\* The inductive invariant of the window builder.
BuilderInd == BuilderTypes /\ \A tx \in Txs : TxOrder(tx)

-------------------------------------------------------------------------------
(* Closing windows *)

WindowsFrom(order) == [i \in 1 .. Len(order) |-> WindowFrom(pending, order[i])]

Closed(order, tx) == \E i \in 1 .. Len(order) : order[i] = tx

\* The windows of the transactions in order are given out.
Closes(order) ==
  /\ order \in Seq({tx \in DOMAIN pending : pending[tx] # <<>>})
  /\ \A i, j \in 1 .. Len(order) : order[i] = order[j] => i = j
  /\ windows' = windows \o WindowsFrom(order)
  /\ \A tx : Entry(pending', tx) = IF Closed(order, tx) THEN <<>> ELSE Entry(pending, tx)
  /\ OpenTypes'
  /\ ingested' = ingested

\* A sequence of all the members of a finite set has each of them.
LEMMA AllOrdered ==
  ASSUME NEW S, IsFiniteSet(S), NEW order \in SetToSeqs(S)
  PROVE  /\ order \in Seq(S)
         /\ \A i, j \in 1 .. Len(order) : order[i] = order[j] => i = j
         /\ \A x \in S : \E i \in 1 .. Len(order) : order[i] = x
<1> DEFINE D == 1 .. Cardinality(S)
<1>0. Cardinality(S) \in Nat
  BY FS_CardinalityType
<1>1. order \in [D -> S] /\ \A i, j \in D : i # j => order[i] # order[j]
  BY DEF SetToSeqs
<1>2. order \in Seq(S) /\ Len(order) = Cardinality(S)
  BY <1>0, <1>1
<1>3. IsFiniteSet(D) /\ Cardinality(D) = Cardinality(S)
  BY <1>0, FS_Interval
<1>4. order \in Injection(D, S)
  BY <1>1 DEF Injection, IsInjective
<1>5. order \in Surjection(D, S)
  BY <1>3, <1>4, FS_Injection
<1> QED
  BY <1>1, <1>2, <1>5 DEF Surjection

\* drain_all closes all the windows that are not empty.
LEMMA DrainCloses ==
  ASSUME BuilderInd, DrainAll
  PROVE  \E order : Closes(order)
<1> DEFINE S == {tx \in DOMAIN pending : pending[tx] # <<>>}
<1>0. OpenTypes
  BY DEF BuilderInd, BuilderTypes
<1>1. IsFiniteSet(S)
  BY <1>0, FS_Subset DEF OpenTypes
<1>2. PICK order \in SetToSeqs(S) : windows' = windows \o Drained(pending, order)
  BY DEF DrainAll, DrainOrders
<1>3. /\ order \in Seq(S)
      /\ \A i, j \in 1 .. Len(order) : order[i] = order[j] => i = j
      /\ \A x \in S : \E i \in 1 .. Len(order) : order[i] = x
  <2> HIDE DEF S
  <2>1. order \in SetToSeqs(S)
    BY <1>2
  <2> QED
    BY <1>1, <2>1, AllOrdered
<1>4. DOMAIN pending' = {} /\ ingested' = ingested
  BY DEF DrainAll
<1>5. OpenTypes'
  BY <1>4, FS_EmptySet DEF OpenTypes
<1>6. \A tx : Entry(pending', tx) = <<>>
  BY <1>4 DEF Entry
<1>7. \A tx : ~Closed(order, tx) => Entry(pending, tx) = <<>>
  BY <1>3 DEF Closed, Entry
<1>8. windows' = windows \o WindowsFrom(order)
  BY <1>2 DEF Drained, WindowsFrom
<1> QED
  BY <1>3, <1>4, <1>5, <1>6, <1>7, <1>8 DEF Closes

\* finalize closes one window, or none.
LEMMA FinalizeCloses ==
  ASSUME BuilderInd, NEW tx \in Txs, Finalize(tx)
  PROVE  \E order : Closes(order)
<1>0. OpenTypes /\ windows \in Seq(Records)
  BY DEF BuilderInd, BuilderTypes
<1>1. /\ DOMAIN pending' = DOMAIN pending \ {tx} /\ ingested' = ingested
      /\ \A t \in DOMAIN pending' : pending'[t] = pending[t]
      /\ windows' = windows \o Finalized(pending, tx)
  BY DEF Finalize, AfterRemove
<1>2. OpenTypes'
  <2>1. IsFiniteSet(DOMAIN pending \ {tx})
    BY <1>0, FS_RemoveElement DEF OpenTypes
  <2> QED
    BY <1>0, <1>1, <2>1 DEF OpenTypes
<1>3. \A t : Entry(pending', t) = IF t = tx THEN <<>> ELSE Entry(pending, t)
  BY <1>1 DEF Entry
<1>4. CASE Entry(pending, tx) = <<>>
  <2>1. WindowsFrom(<<>>) = <<>> /\ \A t : ~Closed(<<>>, t)
    BY DEF WindowsFrom, Closed
  <2>2. windows' = windows \o <<>>
    BY <1>1, <1>4 DEF Finalized
  <2>3. /\ <<>> \in Seq({t \in DOMAIN pending : pending[t] # <<>>})
        /\ \A i, j \in 1 .. Len(<<>>) : <<>>[i] = <<>>[j] => i = j
    OBVIOUS
  <2>4. \A t : Entry(pending', t) = IF Closed(<<>>, t) THEN <<>> ELSE Entry(pending, t)
    BY <1>3, <1>4, <2>1
  <2>5. Closes(<<>>)
    BY <1>1, <1>2, <2>1, <2>2, <2>3, <2>4, Zenon DEF Closes
  <2> QED
    BY <2>5
<1>5. CASE Entry(pending, tx) # <<>>
  <2>1. tx \in DOMAIN pending /\ pending[tx] # <<>>
    BY <1>5 DEF Entry
  <2>2. WindowsFrom(<<tx>>) = <<WindowFrom(pending, tx)>> /\ \A t : Closed(<<tx>>, t) <=> t = tx
    BY DEF WindowsFrom, Closed
  <2>3. windows' = windows \o <<WindowFrom(pending, tx)>>
    BY <1>1, <1>5 DEF Finalized
  <2>4. /\ <<tx>> \in Seq({t \in DOMAIN pending : pending[t] # <<>>})
        /\ \A i, j \in 1 .. Len(<<tx>>) : <<tx>>[i] = <<tx>>[j] => i = j
    BY <2>1
  <2>5. \A t : Entry(pending', t) = IF Closed(<<tx>>, t) THEN <<>> ELSE Entry(pending, t)
    BY <1>3, <2>2
  <2>6. Closes(<<tx>>)
    BY <1>1, <1>2, <2>2, <2>3, <2>4, <2>5, Zenon DEF Closes
  <2> QED
    BY <2>6
<1> QED
  BY <1>4, <1>5

\* What closing does to the windows given out.
LEMMA ClosedWindows ==
  ASSUME BuilderInd, NEW order, Closes(order)
  PROVE  /\ windows' \in Seq(Records) /\ Len(order) \in Nat /\ Len(windows) \in Nat
         /\ Len(windows') = Len(windows) + Len(order)
         /\ \A a \in 1 .. Len(windows) : windows'[a] = windows[a]
         /\ \A i \in 1 .. Len(order) :
              /\ windows'[Len(windows) + i].tx = order[i]
              /\ windows'[Len(windows) + i].events = pending[order[i]]
<1> DEFINE out == WindowsFrom(order)
           S == {tx \in DOMAIN pending : pending[tx] # <<>>}
<1>0. OpenTypes /\ windows \in Seq(Records)
  BY DEF BuilderInd, BuilderTypes
<1>1. order \in Seq(S) /\ Len(order) \in Nat /\ \A i \in 1 .. Len(order) : order[i] \in S
  BY DEF Closes
<1>2. ASSUME NEW tx \in S PROVE WindowFrom(pending, tx) \in Records
  <2> DEFINE w == pending[tx]
  <2>1. tx \in Txs /\ w \in Seq(Events) /\ w # <<>>
    BY <1>0 DEF OpenTypes
  <2> HIDE DEF w
  <2>2. Len(w) \in Nat /\ Len(w) >= 1 /\ Head(w) = w[1] /\ Last(w) = w[Len(w)]
    BY <2>1 DEF Last
  <2>3. Head(w) \in Events /\ Last(w) \in Events
    BY <2>1, <2>2
  <2>4. Head(w).slot \in Slots /\ Head(w).ts \in Nat /\ Last(w).ts \in Nat
    BY <2>3, WindowAssumption DEF Events
  <2>5. WindowFrom(pending, tx) = [tx |-> tx, slot |-> Head(w).slot, events |-> w,
                                   start_ts |-> Head(w).ts, end_ts |-> Last(w).ts]
    BY DEF WindowFrom, w
  <2> QED
    BY <2>1, <2>4, <2>5 DEF Records
<1>3. /\ out \in Seq(Records) /\ Len(out) = Len(order)
      /\ \A i \in 1 .. Len(order) : out[i] = WindowFrom(pending, order[i])
  BY <1>1, <1>2 DEF WindowsFrom
<1>4. windows' = windows \o out
  BY DEF Closes
<1> HIDE DEF out
<1>5. /\ windows' \in Seq(Records) /\ Len(windows') = Len(windows) + Len(order)
      /\ Len(windows) \in Nat
      /\ \A a \in 1 .. Len(windows) : windows'[a] = windows[a]
      /\ \A i \in 1 .. Len(order) : windows'[Len(windows) + i] = out[i]
  <2> DEFINE all == windows \o out
  <2>1. /\ all \in Seq(Records) /\ Len(all) = Len(windows) + Len(out) /\ Len(windows) \in Nat
        /\ \A a \in 1 .. Len(windows) : all[a] = windows[a]
        /\ \A i \in 1 .. Len(out) : all[Len(windows) + i] = out[i]
    <3>1. windows \in Seq(Records) /\ out \in Seq(Records)
      BY <1>0, <1>3
    <3> QED
      BY <3>1
  <2>2. windows' = all
    BY <1>4
  <2> HIDE DEF all
  <2> QED
    BY <1>3, <2>1, <2>2
<1>6. \A i \in 1 .. Len(order) : /\ WindowFrom(pending, order[i]).tx = order[i]
                                /\ WindowFrom(pending, order[i]).events = pending[order[i]]
  BY DEF WindowFrom
<1> QED
  BY <1>1, <1>3, <1>5, <1>6

\* A transaction that is not closed keeps its windows; one that is closed has its
\* open window given out last.
LEMMA ClosedPlaces ==
  ASSUME BuilderInd, NEW order, Closes(order), NEW tx
  PROVE  /\ \A a \in GivenOf(tx) : a \in GivenOf(tx)' /\ windows'[a] = windows[a]
         /\ ~Closed(order, tx) => GivenOf(tx)' = GivenOf(tx) /\ Entry(pending', tx) = Entry(pending, tx)
         /\ Closed(order, tx) =>
              /\ Entry(pending', tx) = <<>>
              /\ \E m : /\ GivenOf(tx)' = GivenOf(tx) \cup {m}
                        /\ windows'[m].events = Entry(pending, tx)
                        /\ m \in Nat /\ \A a \in GivenOf(tx) : a \in Nat /\ a < m
<1> DEFINE n == Len(windows)
<1>1. /\ Len(order) \in Nat /\ n \in Nat /\ Len(windows') = n + Len(order)
      /\ \A a \in 1 .. n : windows'[a] = windows[a]
      /\ \A i \in 1 .. Len(order) : /\ windows'[n + i].tx = order[i]
                                    /\ windows'[n + i].events = pending[order[i]]
  BY ClosedWindows
<1> HIDE DEF n
<1>2. \A a \in GivenOf(tx) : a \in 1 .. n /\ windows[a].tx = tx
  BY DEF GivenOf, n
<1>3. \A a \in GivenOf(tx) : a \in GivenOf(tx)' /\ windows'[a] = windows[a]
  BY <1>1, <1>2 DEF GivenOf
<1>4. ASSUME NEW a \in GivenOf(tx)', a \notin GivenOf(tx)
      PROVE  \E i \in 1 .. Len(order) : a = n + i /\ order[i] = tx
  <2>1. a \in 1 .. n + Len(order) /\ windows'[a].tx = tx
    BY <1>1 DEF GivenOf
  <2>2. a \notin 1 .. n
    BY <1>1, <1>4, <2>1 DEF GivenOf, n
  <2>3. a - n \in 1 .. Len(order) /\ a = n + (a - n)
    BY <1>1, <2>1, <2>2
  <2> QED
    BY <1>1, <2>1, <2>3
<1>5. CASE ~Closed(order, tx)
  BY <1>3, <1>4, <1>5 DEF Closed, Closes
<1>6. CASE Closed(order, tx)
  <2>1. PICK i \in 1 .. Len(order) : order[i] = tx
    BY <1>6 DEF Closed
  <2>2. \A j \in 1 .. Len(order) : order[j] = tx => j = i
    BY <2>1 DEF Closes
  <2>3. n + i \in 1 .. n + Len(order) /\ windows'[n + i].tx = tx
    BY <1>1, <2>1
  <2>4. n + i \in GivenOf(tx)'
    BY <1>1, <2>3 DEF GivenOf
  <2>5. GivenOf(tx)' = GivenOf(tx) \cup {n + i}
    BY <1>3, <1>4, <2>2, <2>4
  <2>6. tx \in DOMAIN pending
    <3>1. order \in Seq({t \in DOMAIN pending : pending[t] # <<>>})
      BY DEF Closes
    <3>2. order[i] \in {t \in DOMAIN pending : pending[t] # <<>>}
      BY <2>1, <3>1
    <3> QED
      BY <2>1, <3>2
  <2>7. windows'[n + i].events = Entry(pending, tx)
    BY <1>1, <2>1, <2>6 DEF Entry
  <2>8. n + i \in Nat /\ \A a \in GivenOf(tx) : a \in Nat /\ a < n + i
    BY <1>1, <1>2, <2>1
  <2>9. Entry(pending', tx) = <<>>
    BY <1>6 DEF Closes
  <2> QED
    BY <1>3, <1>6, <2>5, <2>7, <2>8, <2>9
<1> QED
  BY <1>3, <1>5, <1>6

\* Closing windows keeps the order.
LEMMA ClosesInd ==
  ASSUME BuilderInd, NEW order, Closes(order)
  PROVE  BuilderInd'
<1>0. BuilderTypes /\ ingested' = ingested
  BY DEF BuilderInd, Closes
<1>1. BuilderTypes'
  BY <1>0, ClosedWindows DEF BuilderTypes, Closes
<1>3. ASSUME NEW tx \in Txs PROVE TxOrder(tx)'
  <2>0. TxOrder(tx)
    BY DEF BuilderInd
  <2>1. \A a \in GivenOf(tx) : a \in GivenOf(tx)' /\ windows'[a] = windows[a]
    BY ClosedPlaces
  <2>2. Held(tx, <<>>) /\ \A v : Earlier(v, <<>>)
    BY DEF Held, HeldIn, Earlier
  <2>3. CASE ~Closed(order, tx)
    <3>1. GivenOf(tx)' = GivenOf(tx) /\ Entry(pending', tx) = Entry(pending, tx)
      BY <2>3, ClosedPlaces
    <3>2. /\ Held(tx, Entry(pending', tx))
          /\ \A a \in GivenOf(tx)' :
               /\ Held(tx, windows'[a].events)
               /\ Earlier(windows'[a].events, Entry(pending', tx))
               /\ \A b \in GivenOf(tx)' :
                    a < b => Earlier(windows'[a].events, windows'[b].events)
      BY <2>0, <2>1, <3>1 DEF TxOrder
    <3> QED
      BY <1>0, <3>2 DEF TxOrder, Held
  <2>4. CASE Closed(order, tx)
    <3>1. Entry(pending', tx) = <<>>
      BY <2>4, ClosedPlaces
    <3>2. PICK m : /\ GivenOf(tx)' = GivenOf(tx) \cup {m}
                   /\ windows'[m].events = Entry(pending, tx)
                   /\ m \in Nat /\ \A a \in GivenOf(tx) : a \in Nat /\ a < m
      BY <2>4, ClosedPlaces
    <3>3. ASSUME NEW a \in GivenOf(tx)'
          PROVE  Held(tx, windows'[a].events)
      BY <2>0, <2>1, <3>2 DEF TxOrder
    <3>4. ASSUME NEW a \in GivenOf(tx)', NEW b \in GivenOf(tx)', a < b
          PROVE  Earlier(windows'[a].events, windows'[b].events)
      <4>1. a \in GivenOf(tx)
        BY <3>2, <3>4
      <4>2. CASE b = m
        BY <2>0, <2>1, <3>2, <4>1, <4>2 DEF TxOrder
      <4>3. CASE b \in GivenOf(tx)
        BY <2>0, <2>1, <3>4, <4>1, <4>3 DEF TxOrder
      <4> QED
        BY <3>2, <4>2, <4>3
    <3>5. /\ Held(tx, Entry(pending', tx))
          /\ \A a \in GivenOf(tx)' : Earlier(windows'[a].events, Entry(pending', tx))
      BY <2>2, <3>1
    <3> QED
      BY <1>0, <3>3, <3>4, <3>5 DEF TxOrder, Held
  <2> QED
    BY <2>3, <2>4
<1> QED
  BY <1>1, <1>3 DEF BuilderInd

-------------------------------------------------------------------------------
(* Ingesting an event *)

\* What ingest does to the open windows.
LEMMA IngestOpens ==
  ASSUME BuilderInd, NEW event \in Events, Ingest(event)
  PROVE  LET w == Entry(pending, event.tx)
         IN  /\ event.tx \in Txs /\ w \in Seq(Events) /\ Len(w) <= max_window_size /\ Len(w) \in Nat
             /\ DOMAIN pending' = DOMAIN pending \cup {event.tx}
             /\ Entry(pending', event.tx)
                  = IF Len(w) < max_window_size THEN Append(w, event) ELSE w
             /\ \A tx : tx # event.tx => Entry(pending', tx) = Entry(pending, tx)
             /\ \A i \in 1 .. Len(w) : w[i].tx = event.tx
<1> DEFINE w == Entry(pending, event.tx)
<1>0. OpenTypes
  BY DEF BuilderInd, BuilderTypes
<1>1. event.tx \in Txs
  BY DEF Events
<1>2. /\ w \in Seq(Events) /\ Len(w) <= max_window_size /\ Len(w) \in Nat
      /\ \A i \in 1 .. Len(w) : w[i].tx = event.tx
  <2>1. CASE event.tx \in DOMAIN pending
    BY <1>0, <2>1 DEF OpenTypes, Entry
  <2>2. CASE event.tx \notin DOMAIN pending
    <3>1. w = <<>>
      BY <2>2 DEF Entry
    <3> QED
      BY <3>1, WindowAssumption
  <2> QED
    BY <2>1, <2>2
<1>3. /\ DOMAIN pending' = DOMAIN pending \cup {event.tx}
      /\ \A tx \in DOMAIN pending' :
           pending'[tx] = IF tx = event.tx /\ HasRoom(Entry(pending, tx))
                          THEN Append(Entry(pending, tx), event) ELSE Entry(pending, tx)
  BY DEF Ingest, AfterIngest
<1>4. Entry(pending', event.tx) = IF Len(w) < max_window_size THEN Append(w, event) ELSE w
  BY <1>3 DEF Entry, HasRoom
<1>5. \A tx : tx # event.tx => Entry(pending', tx) = Entry(pending, tx)
  BY <1>3 DEF Entry
<1> QED
  BY <1>1, <1>2, <1>3, <1>4, <1>5

\* Every open window holds events, and the open windows are the entries.
LEMMA EntryTypes ==
  OpenTypes <=> /\ DOMAIN pending \subseteq Txs /\ IsFiniteSet(DOMAIN pending)
                /\ \A tx \in DOMAIN pending :
                     /\ Entry(pending, tx) \in Seq(Events)
                     /\ Len(Entry(pending, tx)) <= max_window_size
                     /\ \A i \in 1 .. Len(Entry(pending, tx)) : Entry(pending, tx)[i].tx = tx
  BY DEF OpenTypes, Entry

\* What an appended event makes of a window.
LEMMA Pushed ==
  ASSUME NEW w \in Seq(Events), NEW event \in Events
  PROVE  /\ Append(w, event) \in Seq(Events) /\ Len(w) \in Nat
         /\ Len(Append(w, event)) = Len(w) + 1
         /\ \A i \in 1 .. Len(w) : Append(w, event)[i] = w[i]
         /\ Append(w, event)[Len(w) + 1] = event
  OBVIOUS

\* An event that arrives is later than all the others.
LEMMA IngestInd ==
  ASSUME BuilderInd, NEW event \in Events, Ingest(event)
  PROVE  BuilderInd'
<1> DEFINE n == Len(ingested)
           w == Entry(pending, event.tx)
           w1 == Entry(pending', event.tx)
<1>0. BuilderTypes /\ OpenTypes
  BY DEF BuilderInd, BuilderTypes
<1>1. /\ event.tx \in Txs /\ w \in Seq(Events) /\ Len(w) <= max_window_size /\ Len(w) \in Nat
      /\ DOMAIN pending' = DOMAIN pending \cup {event.tx}
      /\ w1 = IF Len(w) < max_window_size THEN Append(w, event) ELSE w
      /\ \A tx : tx # event.tx => Entry(pending', tx) = Entry(pending, tx)
      /\ \A i \in 1 .. Len(w) : w[i].tx = event.tx
  BY IngestOpens
<1>2. /\ n \in Nat /\ event.ts = n + 1 /\ windows' = windows
      /\ ingested' \in Seq(Events) /\ Len(ingested') = n + 1
      /\ ingested'[n + 1] = event
      /\ \A m \in 1 .. n : ingested'[m] = ingested[m]
  <2>1. ingested \in Seq(Events) /\ ingested' = Append(ingested, event)
    BY <1>0 DEF BuilderTypes, Ingest
  <2>2. event.ts = n + 1 /\ windows' = windows
    BY DEF Ingest
  <2> QED
    BY <2>1, <2>2, Pushed
<1> HIDE DEF n, w, w1
<1>3. /\ w1 \in Seq(Events) /\ Len(w1) <= max_window_size
      /\ \A i \in 1 .. Len(w1) : w1[i].tx = event.tx
  <2>1. CASE Len(w) < max_window_size
    <3>1. w1 = Append(w, event)
      BY <1>1, <2>1
    <3>2. /\ w1 \in Seq(Events) /\ Len(w1) = Len(w) + 1
          /\ \A i \in 1 .. Len(w) : w1[i] = w[i]
          /\ w1[Len(w) + 1] = event
      BY <1>1, <3>1, Pushed
    <3> QED
      BY <1>1, <2>1, <3>2, WindowAssumption
  <2>2. CASE ~(Len(w) < max_window_size)
    <3>1. w1 = w
      BY <1>1, <2>2, Zenon
    <3>2. /\ w \in Seq(Events) /\ Len(w) <= max_window_size
          /\ \A i \in 1 .. Len(w) : w[i].tx = event.tx
      BY <1>1
    <3> QED
      BY <3>1, <3>2, Zenon
  <2> QED
    BY <2>1, <2>2
<1>4. OpenTypes'
  <2>1. IsFiniteSet(DOMAIN pending')
    <3>1. IsFiniteSet(DOMAIN pending)
      BY <1>0 DEF OpenTypes
    <3>2. IsFiniteSet(DOMAIN pending \cup {event.tx})
      BY <3>1, FS_AddElement, Zenon
    <3>3. DOMAIN pending' = DOMAIN pending \cup {event.tx}
      BY <1>1
    <3> QED
      BY <3>2, <3>3, Zenon
  <2>2. ASSUME NEW tx \in DOMAIN pending'
        PROVE  /\ Entry(pending', tx) \in Seq(Events)
               /\ Len(Entry(pending', tx)) <= max_window_size
               /\ \A i \in 1 .. Len(Entry(pending', tx)) : Entry(pending', tx)[i].tx = tx
    <3>1. CASE tx = event.tx
      BY <1>3, <3>1 DEF w1
    <3>2. CASE tx # event.tx
      BY <1>0, <1>1, <3>2, EntryTypes
    <3> QED
      BY <3>1, <3>2
  <2>3. \A tx \in DOMAIN pending' : Entry(pending', tx) = pending'[tx]
    BY DEF Entry
  <2>4. DOMAIN pending' \subseteq Txs
    BY <1>0, <1>1 DEF OpenTypes
  <2> QED
    BY <2>1, <2>2, <2>3, <2>4 DEF OpenTypes
<1>5. BuilderTypes'
  <2>1. \A m \in 1 .. n + 1 : ingested'[m].ts = m
    BY <1>0, <1>2 DEF BuilderTypes, n
  <2> QED
    BY <1>0, <1>2, <1>4, <2>1 DEF BuilderTypes
<1>6. \A tx, v : Held(tx, v) => HeldIn(ingested', tx, v)
  <2> SUFFICES ASSUME NEW tx, NEW v, Held(tx, v) PROVE HeldIn(ingested', tx, v)
    OBVIOUS
  <2>1. \A i \in 1 .. Len(v) : v[i].ts \in 1 .. n
    BY DEF Held, HeldIn, n
  <2>2. \A i \in 1 .. Len(v) : v[i].ts \in 1 .. n + 1 /\ v[i] = ingested'[v[i].ts]
    BY <1>2, <2>1 DEF Held, HeldIn
  <2> QED
    BY <1>2, <2>2 DEF Held, HeldIn
<1>7. Held(event.tx, w) => HeldIn(ingested', event.tx, w1)
  <2> SUFFICES ASSUME Held(event.tx, w), Len(w) < max_window_size PROVE HeldIn(ingested', event.tx, w1)
    BY <1>1, <1>6
  <2>1. w1 = Append(w, event)
    BY <1>1
  <2>2. /\ Len(w1) = Len(w) + 1 /\ w1[Len(w) + 1] = event
        /\ \A i \in 1 .. Len(w) : w1[i] = w[i]
    BY <1>1, <2>1, Pushed
  <2>3. \A i \in 1 .. Len(w) : w1[i].ts \in 1 .. n /\ w1[i].tx = event.tx
    BY <2>2 DEF Held, HeldIn, n
  <2>4. ASSUME NEW i \in 1 .. Len(w1)
        PROVE  w1[i].ts \in 1 .. n + 1 /\ w1[i] = ingested'[w1[i].ts] /\ w1[i].tx = event.tx
    <3>1. CASE i \in 1 .. Len(w)
      <4>1. w1[i] = w[i] /\ w[i] = ingested[w[i].ts] /\ w[i].tx = event.tx
        BY <2>2, <3>1 DEF Held, HeldIn
      <4>2. w[i].ts \in 1 .. n
        BY <2>3, <3>1, <4>1
      <4>3. ingested'[w[i].ts] = ingested[w[i].ts]
        BY <1>2, <4>2
      <4>4. w[i].ts \in 1 .. n + 1
        BY <1>2, <4>2
      <4> QED
        BY <4>1, <4>3, <4>4
    <3>2. CASE i = Len(w) + 1
      BY <1>2, <2>2, <3>2
    <3> QED
      BY <1>1, <2>2, <3>1, <3>2
  <2>5. ASSUME NEW i \in 1 .. Len(w1), NEW j \in 1 .. Len(w1), i < j
        PROVE  w1[i].ts < w1[j].ts
    <3>1. i \in 1 .. Len(w)
      BY <1>1, <2>2, <2>5
    <3>2. CASE j \in 1 .. Len(w)
      BY <2>2, <2>5, <3>1, <3>2 DEF Held, HeldIn
    <3>3. CASE j = Len(w) + 1
      BY <1>2, <2>2, <2>3, <3>1, <3>3
    <3> QED
      BY <1>1, <2>2, <3>2, <3>3
  <2> QED
    BY <1>2, <1>3, <2>4, <2>5 DEF Held, HeldIn
<1>8. ASSUME NEW v, Held(event.tx, v), Earlier(v, w) PROVE Earlier(v, w1)
  <2>1. CASE Len(w) < max_window_size
    <3>1. w1 = Append(w, event)
      BY <1>1, <2>1
    <3>2. /\ Len(w1) = Len(w) + 1 /\ w1[Len(w) + 1] = event
          /\ \A i \in 1 .. Len(w) : w1[i] = w[i]
      BY <1>1, <3>1, Pushed
    <3>3. \A i \in 1 .. Len(v) : v[i].ts \in 1 .. n
      BY <1>8 DEF Held, HeldIn, n
    <3>4. ASSUME NEW i \in 1 .. Len(v), NEW j \in 1 .. Len(w1) PROVE v[i].ts < w1[j].ts
      <4>1. CASE j \in 1 .. Len(w)
        BY <1>8, <3>2, <4>1 DEF Earlier
      <4>2. CASE j = Len(w) + 1
        BY <1>2, <3>2, <3>3, <4>2
      <4> QED
        BY <1>1, <3>2, <4>1, <4>2
    <3> QED
      BY <3>4 DEF Earlier
  <2>2. CASE ~(Len(w) < max_window_size)
    BY <1>1, <1>8, <2>2
  <2> QED
    BY <2>1, <2>2
<1>9. ASSUME NEW tx \in Txs PROVE TxOrder(tx)'
  <2>0. TxOrder(tx)
    BY DEF BuilderInd
  <2>1. GivenOf(tx)' = GivenOf(tx)
    BY <1>2 DEF GivenOf
  <2>2. \A a \in GivenOf(tx) : HeldIn(ingested', tx, windows[a].events)
    BY <1>6, <2>0 DEF TxOrder
  <2>3. /\ HeldIn(ingested', tx, Entry(pending', tx))
        /\ \A a \in GivenOf(tx) : Earlier(windows[a].events, Entry(pending', tx))
    <3>1. CASE tx = event.tx
      <4>1. Entry(pending', tx) = w1 /\ Entry(pending, tx) = w
        BY <3>1 DEF w, w1
      <4>2. HeldIn(ingested', tx, w1)
        BY <1>7, <2>0, <3>1, <4>1 DEF TxOrder
      <4>3. \A a \in GivenOf(tx) : Earlier(windows[a].events, w1)
        BY <1>8, <2>0, <3>1, <4>1 DEF TxOrder
      <4> QED
        BY <4>1, <4>2, <4>3
    <3>2. CASE tx # event.tx
      <4>1. Entry(pending', tx) = Entry(pending, tx)
        BY <1>1, <3>2
      <4> QED
        BY <1>6, <2>0, <4>1 DEF TxOrder
    <3> QED
      BY <3>1, <3>2
  <2>4. \A a, b \in GivenOf(tx) : a < b => Earlier(windows[a].events, windows[b].events)
    BY <2>0 DEF TxOrder
  <2>5. /\ Held(tx, Entry(pending, tx))'
        /\ \A a \in GivenOf(tx)' :
             /\ HeldIn(ingested', tx, windows'[a].events)
             /\ Earlier(windows'[a].events, Entry(pending', tx))
             /\ \A b \in GivenOf(tx)' :
                  a < b => Earlier(windows'[a].events, windows'[b].events)
    BY <1>2, <2>1, <2>2, <2>3, <2>4 DEF Held
  <2> QED
    BY <2>5 DEF TxOrder, Held
<1> QED
  BY <1>5, <1>9 DEF BuilderInd

-------------------------------------------------------------------------------
(* Every step *)

\* What the steps of the builder and of the serializer do to the builder.
LEMMA BuilderSteps ==
  ASSUME BuilderInd, [LogNext]_<<vars, logVars>>
  PROVE  \/ /\ \E order : Closes(order)
            /\ crashedAt' = crashedAt
         \/ /\ \E event \in Events : Ingest(event)
            /\ crashedAt' = crashedAt
         \/ Crash
         \/ UNCHANGED <<vars, crashedAt>>
<1>1. CASE batch = <<>> /\ Next /\ UNCHANGED logVars
  <2>1. crashedAt' = crashedAt
    BY <1>1 DEF logVars
  <2> QED
    BY <1>1, <2>1, DrainCloses, FinalizeCloses DEF Next
<1>2. CASE WriteBegin
  BY <1>2 DEF WriteBegin, vars
<1>3. CASE WriteWindow
  BY <1>3 DEF WriteWindow, vars
<1>4. CASE Spill
  BY <1>4 DEF Spill, vars
<1>5. CASE FlushOk
  BY <1>5 DEF FlushOk, vars
<1>6. CASE WriteFails
  BY <1>6 DEF WriteFails, vars
<1>7. CASE Crash
  BY <1>7
<1>8. CASE UNCHANGED <<vars, logVars>>
  BY <1>8 DEF vars, logVars
<1> QED
  BY <1>1, <1>2, <1>3, <1>4, <1>5, <1>6, <1>7, <1>8 DEF LogNext

\* A crash loses the open windows and leaves the order of the others.
LEMMA CrashInd ==
  ASSUME BuilderInd, Crash
  PROVE  BuilderInd'
<1>1. pending' = <<>> /\ windows' = windows /\ ingested' = ingested
  BY DEF Crash
<1>2. BuilderTypes'
  <2>1. DOMAIN pending' = {}
    BY <1>1
  <2>2. OpenTypes'
    BY <2>1, FS_EmptySet DEF OpenTypes
  <2> QED
    BY <1>1, <2>2 DEF BuilderInd, BuilderTypes
<1>3. ASSUME NEW tx \in Txs PROVE TxOrder(tx)'
  <2>1. Entry(pending', tx) = <<>>
    BY <1>1 DEF Entry
  <2>2. Held(tx, <<>>) /\ \A v : Earlier(v, <<>>)
    BY DEF Held, HeldIn, Earlier
  <2>3. GivenOf(tx)' = GivenOf(tx) /\ TxOrder(tx)
    BY <1>1 DEF GivenOf, BuilderInd
  <2>4. /\ Held(tx, Entry(pending', tx))
        /\ \A a \in GivenOf(tx)' :
             /\ Held(tx, windows'[a].events)
             /\ Earlier(windows'[a].events, Entry(pending', tx))
             /\ \A b \in GivenOf(tx)' :
                  a < b => Earlier(windows'[a].events, windows'[b].events)
    BY <1>1, <2>1, <2>2, <2>3 DEF TxOrder
  <2> QED
    BY <1>1, <2>4 DEF TxOrder, Held
<1> QED
  BY <1>2, <1>3 DEF BuilderInd

\* Nothing is open, given out or ingested at the start.
LEMMA BuilderStarts ==
  ASSUME LogInit
  PROVE  BuilderInd
<1>1. pending = <<>> /\ windows = <<>> /\ ingested = <<>>
  BY DEF LogInit, Init
<1>2. BuilderTypes
  <2>1. DOMAIN pending = {}
    BY <1>1
  <2>2. OpenTypes
    BY <2>1, FS_EmptySet DEF OpenTypes
  <2> QED
    BY <1>1, <2>2 DEF BuilderTypes
<1>3. ASSUME NEW tx \in Txs PROVE TxOrder(tx)
  <2>1. Entry(pending, tx) = <<>> /\ GivenOf(tx) = {}
    BY <1>1 DEF Entry, GivenOf
  <2> QED
    BY <2>1 DEF TxOrder, Held, HeldIn
<1> QED
  BY <1>2, <1>3 DEF BuilderInd

\* Nothing but the builder's variables matters to its invariant.
LEMMA BuilderStutters ==
  ASSUME BuilderInd, UNCHANGED vars
  PROVE  BuilderInd'
  BY DEF BuilderInd, BuilderTypes, OpenTypes, TxOrder, Held, HeldIn, GivenOf, Entry, vars

\* The inductive invariant of the window builder holds whatever the serializer
\* does.
THEOREM BuilderIndHolds == LogSpec => []BuilderInd
<1>1. LogInit => BuilderInd
  BY BuilderStarts
<1>2. BuilderInd /\ [LogNext]_<<vars, logVars>> => BuilderInd'
  BY BuilderSteps, ClosesInd, IngestInd, CrashInd, BuilderStutters
<1> QED
  BY <1>1, <1>2, PTL DEF LogSpec

\* An open window holds at most max_window_size events, all of its transaction
\* (ingest's test before the push).
THEOREM BuilderTypeOKHolds == LogSpec => []TypeOK
<1>1. BuilderInd => TypeOK
  <2> SUFFICES ASSUME BuilderInd PROVE TypeOK
    OBVIOUS
  <2>1. OpenTypes
    BY DEF BuilderInd, BuilderTypes
  <2> QED
    BY <2>1 DEF OpenTypes, TypeOK
<1> QED
  BY <1>1, BuilderIndHolds, PTL

\* The windows of a transaction, given out or open, are its events in the order
\* they arrived, without overlap: for every interleaving of ingest, finalize,
\* drain_all and crashes.
THEOREM OrderKeptHolds == LogSpec => []OrderKept
<1>1. BuilderInd => OrderKept
  <2> SUFFICES ASSUME BuilderInd, NEW tx \in Txs
               PROVE  /\ \A w \in WindowsOf(tx) : Held(tx, w)
                      /\ \A a \in GivenOf(tx) :
                           /\ Earlier(windows[a].events, Entry(pending, tx))
                           /\ \A b \in GivenOf(tx) :
                                a < b => Earlier(windows[a].events, windows[b].events)
    BY DEF OrderKept, Held, HeldIn
  <2>1. TxOrder(tx)
    BY DEF BuilderInd
  <2> QED
    BY <2>1 DEF TxOrder, WindowsOf
<1> QED
  BY <1>1, BuilderIndHolds, PTL

-------------------------------------------------------------------------------
(* Lost events *)

\* KeptOrFull, said of any set of windows and any event.
Missing(all, event) == \A w \in all : \A i \in 1 .. Len(w) : w[i] # event

Begun(all, n) == {w \in all : w # <<>> /\ Head(w).ts < n}

FullLast(all, n, w) ==
  /\ w \in Begun(all, n) /\ Len(w) = max_window_size /\ Last(w).ts < n
  /\ \A v \in Begun(all, n) : Head(v).ts <= Head(w).ts

Explained(all, event, n) == Missing(all, event) => \E w : FullLast(all, n, w)

\* WindowsOf, said of any windows given out and any open ones.
AllWindows(out, open, tx) ==
  {out[i].events : i \in {j \in 1 .. Len(out) : out[j].tx = tx}} \cup {Entry(open, tx)}

LossInd == BuilderInd /\ crashedAt \in Nat /\ LossExplained

\* LossExplained, said of one event at a time.
LEMMA ExplainedIsKept ==
  \A n : KeptOrFull(n) <=> Explained(WindowsOf(ingested[n].tx), ingested[n], n)
  BY DEF KeptOrFull, Explained, Missing, Begun, FullLast

\* Empty windows do not matter.
LEMMA EmptyIgnored ==
  ASSUME NEW S, NEW T, S \ {<<>>} = T \ {<<>>}, NEW event, NEW n
  PROVE  Explained(S, event, n) <=> Explained(T, event, n)
<1>1. \A w : w \in S /\ w # <<>> <=> w \in T /\ w # <<>>
  OBVIOUS
<1>2. Begun(S, n) = Begun(T, n)
  BY <1>1 DEF Begun
<1>3. Len(<<>>) = 0 /\ 1 .. 0 = {}
  OBVIOUS
<1>4. Missing(S, event) <=> Missing(T, event)
  BY <1>1, <1>3 DEF Missing
<1> QED
  BY <1>2, <1>4 DEF Explained, FullLast

\* Closing windows leaves the windows of each transaction as they are.
LEMMA ClosesLoss ==
  ASSUME LossInd, NEW order, Closes(order), crashedAt' = crashedAt
  PROVE  LossExplained'
<1>0. BuilderInd /\ ingested' = ingested
  BY DEF LossInd, Closes
<1>1. ASSUME NEW tx PROVE WindowsOf(tx)' \ {<<>>} = WindowsOf(tx) \ {<<>>}
  <2> DEFINE old == {windows[i].events : i \in GivenOf(tx)}
             new == {windows'[i].events : i \in GivenOf(tx)'}
  <2>0. /\ WindowsOf(tx) = old \cup {Entry(pending, tx)}
        /\ WindowsOf(tx)' = new \cup {Entry(pending', tx)}
    BY DEF WindowsOf
  <2>1. \A a \in GivenOf(tx) : a \in GivenOf(tx)' /\ windows'[a] = windows[a]
    BY <1>0, ClosedPlaces
  <2>2. CASE ~Closed(order, tx)
    <3>1. GivenOf(tx)' = GivenOf(tx) /\ Entry(pending', tx) = Entry(pending, tx)
      BY <1>0, <2>2, ClosedPlaces
    <3>2. new = old
      BY <2>1, <3>1
    <3> HIDE DEF old, new
    <3> QED
      BY <2>0, <3>1, <3>2
  <2>3. CASE Closed(order, tx)
    <3>1. Entry(pending', tx) = <<>>
      BY <1>0, <2>3, ClosedPlaces
    <3>2. PICK m : /\ GivenOf(tx)' = GivenOf(tx) \cup {m}
                   /\ windows'[m].events = Entry(pending, tx)
      BY <1>0, <2>3, ClosedPlaces
    <3>3. new = old \cup {Entry(pending, tx)}
      BY <2>1, <3>2
    <3> HIDE DEF old, new
    <3> QED
      BY <2>0, <3>1, <3>3
  <2> QED
    BY <2>2, <2>3
<1>2. ASSUME NEW n \in crashedAt + 1 .. Len(ingested) PROVE KeptOrFull(n)'
  <2> DEFINE e == ingested[n]
  <2>1. Explained(WindowsOf(e.tx), e, n)
    BY <1>2, ExplainedIsKept DEF LossInd, LossExplained
  <2>2. WindowsOf(e.tx)' \ {<<>>} = WindowsOf(e.tx) \ {<<>>}
    BY <1>0, <1>1
  <2>3. Explained(WindowsOf(e.tx)', e, n)
    BY <2>1, <2>2, EmptyIgnored
  <2>4. Explained(WindowsOf(e.tx), e, n)'
    BY <1>0, <2>3 DEF Explained, Missing, Begun, FullLast
  <2> QED
    BY <1>0, <2>4 DEF KeptOrFull, Explained, Missing, Begun, FullLast
<1> QED
  BY <1>0, <1>2 DEF LossExplained

\* An event that joins the open window leaves the loss of an older one explained.
LEMMA PushExplained ==
  ASSUME NEW given, NEW w \in Seq(Events), NEW event \in Events, NEW old, NEW n \in Nat,
         Len(w) < max_window_size, n < event.ts,
         Explained(given \cup {w}, old, n)
  PROVE  Explained(given \cup {Append(w, event)}, old, n)
<1> DEFINE w1 == Append(w, event)
           all == given \cup {w}
           new == given \cup {w1}
<1>1. /\ w1 \in Seq(Events) /\ Len(w) \in Nat /\ Len(w1) = Len(w) + 1
      /\ \A i \in 1 .. Len(w) : w1[i] = w[i]
      /\ w1[Len(w) + 1] = event
  BY Pushed
<1>2. w1 # <<>> /\ Head(w1) = w1[1] /\ event.ts \in Nat
  BY <1>1, WindowAssumption DEF Events
<1> HIDE DEF w1
<1> SUFFICES ASSUME Missing(new, old) PROVE \E x : FullLast(new, n, x)
  BY DEF Explained, w1
<1>3. Missing(all, old)
  <2>1. \A i \in 1 .. Len(w) : w[i] # old
    <3> SUFFICES ASSUME NEW i \in 1 .. Len(w) PROVE w1[i] # old
      BY <1>1
    <3>1. i \in 1 .. Len(w1)
      BY <1>1
    <3> QED
      BY <3>1 DEF Missing
  <2> QED
    BY <2>1 DEF Missing
<1>4. PICK x : FullLast(all, n, x)
  BY <1>3 DEF Explained
<1>5. x # w /\ x \in given
  <2>1. Len(x) = max_window_size /\ x \in all
    BY <1>4 DEF FullLast, Begun
  <2>2. Len(w) # max_window_size
    BY <1>1, WindowAssumption
  <2> QED
    BY <2>1, <2>2
<1>6. x \in Begun(new, n)
  BY <1>4, <1>5 DEF FullLast, Begun
<1>7. ASSUME NEW v \in Begun(new, n) PROVE Head(v).ts <= Head(x).ts
  <2>0. v \in new /\ v # <<>> /\ Head(v).ts < n
    BY DEF Begun
  <2>1. CASE v \in given
    <3>1. v \in Begun(all, n)
      BY <2>0, <2>1 DEF Begun
    <3> QED
      BY <1>4, <3>1 DEF FullLast
  <2>2. CASE v = w1
    <3>1. w # <<>>
      <4> SUFFICES ASSUME w = <<>> PROVE FALSE
        OBVIOUS
      <4>1. Head(w1) = event
        BY <1>1, <1>2
      <4> QED
        BY <1>2, <2>0, <2>2, <4>1
    <3>2. Len(w) >= 1 /\ Head(w) = w[1]
      BY <1>1, <3>1
    <3>3. Head(w1) = Head(w)
      BY <1>1, <1>2, <3>2
    <3>4. w \in Begun(all, n)
      BY <2>0, <2>2, <3>1, <3>3 DEF Begun
    <3> QED
      BY <1>4, <2>2, <3>3, <3>4 DEF FullLast
  <2> QED
    BY <2>0, <2>1, <2>2
<1> QED
  BY <1>4, <1>6, <1>7 DEF FullLast

\* An event that is dropped finds the open window of its transaction full, and
\* that is the last one begun.
LEMMA DropExplained ==
  ASSUME BuilderInd, max_window_size > 0, NEW tx \in Txs, NEW event,
         Len(Entry(pending, tx)) = max_window_size
  PROVE  Explained(WindowsOf(tx), event, Len(ingested) + 1)
<1> DEFINE n == Len(ingested)
           w == Entry(pending, tx)
           all == WindowsOf(tx)
<1>0. TxOrder(tx) /\ n \in Nat
  BY DEF BuilderInd, BuilderTypes
<1>1. w \in Seq(Events) /\ \A i \in 1 .. Len(w) : w[i].ts \in 1 .. n
  BY <1>0 DEF TxOrder, Held, HeldIn
<1>2. w \in all
  BY DEF WindowsOf
<1>3. \A v \in all : v = w \/ \E a \in GivenOf(tx) : v = windows[a].events
  BY DEF WindowsOf
<1>4. \A a \in GivenOf(tx) : windows[a].events \in Seq(Events) /\ Earlier(windows[a].events, w)
  BY <1>0 DEF TxOrder, Held, HeldIn
<1>5. Len(w) = max_window_size
  OBVIOUS
<1> HIDE DEF n, w, all
<1>6. w # <<>> /\ Len(w) \in Nat /\ Len(w) >= 1 /\ Head(w) = w[1] /\ Last(w) = w[Len(w)]
  BY <1>1, <1>5, WindowAssumption DEF Last
<1>7. Head(w).ts \in 1 .. n /\ Last(w).ts \in 1 .. n
  BY <1>1, <1>6
<1>8. w \in Begun(all, n + 1) /\ Last(w).ts < n + 1
  BY <1>0, <1>2, <1>6, <1>7 DEF Begun
<1>9. ASSUME NEW v \in Begun(all, n + 1) PROVE Head(v).ts <= Head(w).ts
  <2>0. v \in all /\ v # <<>>
    BY DEF Begun
  <2>1. CASE v = w
    BY <1>0, <1>7, <2>1
  <2>2. CASE v # w
    <3>1. v \in Seq(Events) /\ Earlier(v, w)
      BY <1>3, <1>4, <2>0, <2>2
    <3>2. Len(v) \in Nat /\ Len(v) >= 1 /\ Head(v) = v[1] /\ v[1] \in Events
      BY <2>0, <3>1
    <3>3. v[1].ts < w[1].ts
      BY <1>6, <3>1, <3>2 DEF Earlier
    <3>4. v[1].ts \in Nat /\ w[1].ts \in Nat
      BY <1>0, <1>6, <1>7, <3>2, WindowAssumption DEF Events
    <3> QED
      BY <1>6, <3>2, <3>3, <3>4
  <2> QED
    BY <2>1, <2>2
<1>10. FullLast(all, n + 1, w)
  BY <1>5, <1>8, <1>9 DEF FullLast
<1> QED
  BY <1>10 DEF Explained, n, all

\* An event that arrives is in the open window or found it full, and every older
\* event stays kept or explained.
LEMMA IngestLoss ==
  ASSUME LossInd, max_window_size > 0, NEW event \in Events, Ingest(event),
         crashedAt' = crashedAt
  PROVE  LossExplained'
<1> DEFINE n == Len(ingested)
           tx == event.tx
           w == Entry(pending, tx)
           w1 == Entry(pending', tx)
           given == {windows[i].events : i \in GivenOf(tx)}
<1>0. BuilderInd /\ BuilderTypes /\ crashedAt \in Nat
  BY DEF LossInd, BuilderInd
<1>1. /\ tx \in Txs /\ w \in Seq(Events) /\ Len(w) <= max_window_size /\ Len(w) \in Nat
      /\ w1 = IF Len(w) < max_window_size THEN Append(w, event) ELSE w
      /\ \A t : t # tx => Entry(pending', t) = Entry(pending, t)
  BY <1>0, IngestOpens
<1>2. /\ n \in Nat /\ event.ts = n + 1 /\ windows' = windows
      /\ Len(ingested') = n + 1 /\ ingested'[n + 1] = event
      /\ \A m \in 1 .. n : ingested'[m] = ingested[m]
  <2>1. ingested \in Seq(Events) /\ ingested' = Append(ingested, event)
    BY <1>0 DEF BuilderTypes, Ingest
  <2>2. event.ts = n + 1 /\ windows' = windows
    BY DEF Ingest
  <2> QED
    BY <2>1, <2>2, Pushed
<1> DEFINE now(t) == AllWindows(windows', pending', t)
<1>4. WindowsOf(tx) = given \cup {w} /\ now(tx) = given \cup {w1}
  BY <1>2 DEF WindowsOf, GivenOf, AllWindows
<1>5. \A t : t # tx => now(t) = WindowsOf(t)
  BY <1>1, <1>2 DEF WindowsOf, GivenOf, AllWindows
<1>6. Len(w) < max_window_size \/ (Len(w) = max_window_size /\ w1 = w)
  BY <1>1, WindowAssumption
<1>7. ASSUME NEW m \in crashedAt + 1 .. n + 1
      PROVE  Explained(now(ingested'[m].tx), ingested'[m], m)
  <2>0. m \in Nat
    BY <1>0, <1>2
  <2>1. CASE m \in 1 .. n
    <3> DEFINE e == ingested[m]
    <3>1. m \in crashedAt + 1 .. n /\ ingested'[m] = e
      BY <1>0, <1>2, <2>1
    <3>2. KeptOrFull(m)
      BY <3>1 DEF LossInd, LossExplained
    <3>3. Explained(WindowsOf(e.tx), e, m)
      BY <3>2, ExplainedIsKept
    <3> HIDE DEF e, now
    <3>4. CASE e.tx # tx
      BY <1>5, <3>1, <3>3, <3>4
    <3>5. CASE e.tx = tx
      <4> HIDE DEF given, w, w1
      <4>1. CASE Len(w) < max_window_size
        <5>1. Explained(given \cup {w}, e, m)
          BY <1>4, <3>3, <3>5
        <5>2. m < event.ts
          BY <1>2, <2>1
        <5>3. Explained(given \cup {Append(w, event)}, e, m)
          BY <1>1, <2>0, <4>1, <5>1, <5>2, PushExplained
        <5> QED
          BY <1>1, <1>4, <3>1, <3>5, <4>1, <5>3
      <4>2. CASE w1 = w
        BY <1>4, <3>1, <3>3, <3>5, <4>2
      <4> QED
        BY <1>6, <4>1, <4>2
    <3> QED
      BY <3>4, <3>5
  <2>2. CASE m = n + 1
    <3>1. ingested'[m] = event
      BY <1>2, <2>2
    <3>2. CASE Len(w) < max_window_size
      <4>1. w1 = Append(w, event)
        BY <1>1, <3>2
      <4> HIDE DEF w, w1, given, now
      <4>2. Len(w1) = Len(w) + 1 /\ w1[Len(w) + 1] = event
        BY <1>1, <4>1, Pushed
      <4>3. Len(w) + 1 \in 1 .. Len(w1)
        BY <1>1, <4>2
      <4>4. w1 \in now(tx)
        BY <1>4
      <4>5. ~Missing(now(tx), event)
        BY <4>2, <4>3, <4>4 DEF Missing
      <4> QED
        BY <3>1, <4>5 DEF Explained
    <3>3. CASE Len(w) = max_window_size /\ w1 = w
      <4>1. Explained(WindowsOf(tx), event, n + 1)
        BY <1>0, <1>1, <3>3, DropExplained
      <4>2. now(tx) = WindowsOf(tx)
        BY <1>4, <3>3
      <4> HIDE DEF now
      <4> QED
        BY <2>2, <3>1, <4>1, <4>2
    <3> QED
      BY <1>6, <3>2, <3>3
  <2> QED
    BY <1>0, <1>2, <2>1, <2>2
<1>8. ASSUME NEW m \in crashedAt + 1 .. n + 1 PROVE KeptOrFull(m)'
  <2>1. WindowsOf(ingested[m].tx)' = now(ingested'[m].tx)
    BY DEF WindowsOf, GivenOf, AllWindows
  <2>2. Explained(WindowsOf(ingested[m].tx)', ingested'[m], m)
    BY <1>7, <1>8, <2>1
  <2> QED
    BY <2>2 DEF KeptOrFull, Explained, Missing, Begun, FullLast
<1> QED
  BY <1>2, <1>8 DEF LossExplained

\* The inductive invariant of the losses, for windows that can hold an event.
THEOREM LossIndHolds ==
  ASSUME max_window_size > 0
  PROVE  LogSpec => []LossInd
<1>1. LogInit => LossInd
  <2> SUFFICES ASSUME LogInit PROVE LossInd
    OBVIOUS
  <2>1. crashedAt = 0 /\ ingested = <<>>
    BY DEF LogInit, Init
  <2>2. LossExplained
    BY <2>1 DEF LossExplained
  <2> QED
    BY <2>1, <2>2, BuilderStarts DEF LossInd
<1>2. LossInd /\ [LogNext]_<<vars, logVars>> => LossInd'
  <2> SUFFICES ASSUME LossInd, [LogNext]_<<vars, logVars>> PROVE LossInd'
    OBVIOUS
  <2>0. BuilderInd /\ crashedAt \in Nat
    BY DEF LossInd
  <2>1. CASE (\E order : Closes(order)) /\ crashedAt' = crashedAt
    BY <2>0, <2>1, ClosesInd, ClosesLoss DEF LossInd
  <2>2. CASE (\E event \in Events : Ingest(event)) /\ crashedAt' = crashedAt
    BY <2>0, <2>2, IngestInd, IngestLoss DEF LossInd
  <2>3. CASE Crash
    <3>1. crashedAt' = Len(ingested) /\ ingested' = ingested /\ Len(ingested) \in Nat
      BY <2>0, <2>3 DEF Crash, BuilderInd, BuilderTypes
    <3>2. LossExplained'
      BY <3>1 DEF LossExplained
    <3> QED
      BY <2>0, <2>3, <3>1, <3>2, CrashInd DEF LossInd
  <2>4. CASE UNCHANGED <<vars, crashedAt>>
    <3>1. LossExplained'
      BY <2>4 DEF LossInd, LossExplained, KeptOrFull, WindowsOf, GivenOf, Entry, vars
    <3> QED
      BY <2>0, <2>4, <3>1, BuilderStutters DEF LossInd
  <2> QED
    BY <2>0, <2>1, <2>2, <2>3, <2>4, BuilderSteps
<1> QED
  BY <1>1, <1>2, PTL DEF LogSpec

\* An event that arrived after the last crash is in a window, or the last window
\* begun before it was full when it came (ingest drops it without a trace).
THEOREM LossExplainedHolds ==
  ASSUME max_window_size > 0
  PROVE  LogSpec => []LossExplained
<1>1. LossInd => LossExplained
  BY DEF LossInd
<1> QED
  BY <1>1, LossIndHolds, PTL

-------------------------------------------------------------------------------
(* Folds over a sequence *)

\* The operations that the models fold with: an event into the open windows, a
\* window into the count of events, a piece into the lines, a line into the windows
\* read.  What holds of a fold is shown once for all of them.
Apply(op, a, x) ==
  IF op = "ingest" THEN AfterIngest(a, x)
  ELSE IF op = "count" THEN a + Len(x.events)
  ELSE IF op = "piece" THEN NextPiece(a, x)
  ELSE NextLine(a, x)

FoldStep(op, base, E, g, s) ==
  IF s = {} THEN base ELSE Apply(op, g[s \ {Max(s)}], E[Max(s)])

Foldable(op, base, E, n) == \E g : g = [s \in SUBSET (1 .. n) |-> FoldStep(op, base, E, g, s)]

\* The equation of a fold has a solution, built up by the largest position.
LEMMA FoldSolved ==
  ASSUME NEW op, NEW base, NEW E, NEW n \in Nat
  PROVE  Foldable(op, base, E, n)
<1> DEFINE P == {m \in Nat : \E g : g = [s \in SUBSET (1 .. m) |-> FoldStep(op, base, E, g, s)]}
<1>1. 0 \in P
  <2> DEFINE g == [s \in SUBSET (1 .. 0) |-> base]
  <2>1. \A s \in SUBSET (1 .. 0) : s = {}
    OBVIOUS
  <2>2. \A h : FoldStep(op, base, E, h, {}) = base
    BY DEF FoldStep
  <2>3. g = [s \in SUBSET (1 .. 0) |-> FoldStep(op, base, E, g, s)]
    <3>1. \A s \in SUBSET (1 .. 0) : FoldStep(op, base, E, g, s) = base
      BY <2>1, <2>2
    <3> QED
      BY <3>1
  <2> HIDE DEF g
  <2> QED
    BY <2>3
<1>2. ASSUME NEW m \in Nat, m \in P PROVE m + 1 \in P
  <2>1. PICK g : g = [s \in SUBSET (1 .. m) |-> FoldStep(op, base, E, g, s)]
    BY <1>2
  <2> DEFINE h == [s \in SUBSET (1 .. m + 1) |-> FoldStep(op, base, E, g, s)]
  <2>2. \A s \in SUBSET (1 .. m) : s \in SUBSET (1 .. m + 1)
    OBVIOUS
  <2>3. \A s \in SUBSET (1 .. m) : h[s] = g[s]
    BY <2>1, <2>2
  <2>4. ASSUME NEW s \in SUBSET (1 .. m + 1)
        PROVE  FoldStep(op, base, E, h, s) = FoldStep(op, base, E, g, s)
    <3>1. CASE s = {}
      BY <3>1 DEF FoldStep
    <3>2. CASE s # {}
      <4>1. s \ {Max(s)} \in SUBSET (1 .. m)
        BY <3>2, WithoutMax
      <4>2. h[s \ {Max(s)}] = g[s \ {Max(s)}]
        BY <2>3, <4>1
      <4> HIDE DEF h
      <4> QED
        BY <3>2, <4>2 DEF FoldStep
    <3> QED
      BY <3>1, <3>2
  <2>5. h = [s \in SUBSET (1 .. m + 1) |-> FoldStep(op, base, E, h, s)]
    BY <2>4
  <2> HIDE DEF h
  <2> QED
    BY <2>5
<1> HIDE DEF P
<1>3. n \in P
  BY <1>1, <1>2, SetInduction
<1> QED
  BY <1>3 DEF P, Foldable

\* f satisfies the equation of a fold over the first n positions of E.
Folds(op, base, E, n, f) == \A s \in SUBSET (1 .. n) : f[s] = FoldStep(op, base, E, f, s)

\* A fold over no position.
LEMMA FoldNone ==
  ASSUME NEW op, NEW base, NEW E, NEW f, NEW n \in Nat, Folds(op, base, E, n, f)
  PROVE  f[1 .. 0] = base
<1>1. 1 .. 0 = {} /\ {} \in SUBSET (1 .. n)
  OBVIOUS
<1> QED
  BY <1>1 DEF Folds, FoldStep

\* A fold over one position more.
LEMMA FoldOneMore ==
  ASSUME NEW op, NEW base, NEW E, NEW f, NEW n \in Nat, Folds(op, base, E, n, f),
         NEW m \in Nat, m + 1 <= n
  PROVE  f[1 .. m + 1] = Apply(op, f[1 .. m], E[m + 1])
<1>1. m + 1 \in 1 .. m + 1 /\ \A i \in 1 .. m + 1 : i \in 1 .. n
  OBVIOUS
<1>2. 1 .. m + 1 \in SUBSET (1 .. n) /\ 1 .. m + 1 # {}
  BY <1>1
<1> QED
  BY <1>2, MaxSegment DEF Folds, FoldStep

\* Folding a sequence with an element more: the element is folded in last.
LEMMA FoldAppend ==
  ASSUME NEW op, NEW base, NEW X, NEW E \in Seq(X), NEW x \in X,
         NEW f, Folds(op, base, E, Len(E), f),
         NEW g, Folds(op, base, Append(E, x), Len(E) + 1, g)
  PROVE  g[1 .. Len(E) + 1] = Apply(op, f[1 .. Len(E)], x)
<1> DEFINE n == Len(E)
           T == Append(E, x)
           P == {m \in Nat : m <= n => f[1 .. m] = g[1 .. m]}
<1>1. n \in Nat /\ T[n + 1] = x /\ \A i \in 1 .. n : T[i] = E[i]
  OBVIOUS
<1>2. Folds(op, base, E, n, f) /\ Folds(op, base, T, n + 1, g)
  OBVIOUS
<1> HIDE DEF n, T
<1>3. 0 \in P
  BY <1>1, <1>2, FoldNone
<1>4. ASSUME NEW m \in Nat, m \in P PROVE m + 1 \in P
  <2> SUFFICES ASSUME m + 1 <= n PROVE f[1 .. m + 1] = g[1 .. m + 1]
    OBVIOUS
  <2>1. f[1 .. m] = g[1 .. m] /\ m + 1 <= n + 1 /\ E[m + 1] = T[m + 1]
    BY <1>1, <1>4
  <2>2. f[1 .. m + 1] = Apply(op, f[1 .. m], E[m + 1])
    BY <1>1, <1>2, FoldOneMore
  <2>3. g[1 .. m + 1] = Apply(op, g[1 .. m], T[m + 1])
    BY <1>1, <1>2, <2>1, FoldOneMore
  <2> QED
    BY <2>1, <2>2, <2>3
<1>5. f[1 .. n] = g[1 .. n]
  <2> HIDE DEF P
  <2>1. n \in P
    BY <1>1, <1>3, <1>4, SetInduction
  <2> QED
    BY <1>1, <2>1 DEF P
<1>6. g[1 .. n + 1] = Apply(op, g[1 .. n], T[n + 1])
  <2>1. n + 1 \in Nat /\ n + 1 <= n + 1
    BY <1>1
  <2> QED
    BY <1>1, <1>2, <2>1, FoldOneMore
<1> QED
  BY <1>1, <1>5, <1>6 DEF n

-------------------------------------------------------------------------------
(* The replay: the windows that a line leaves open and gives out *)

\* The fold over the events of a line, from the windows that are open before.
OpenStep(base, E, g, s) == IF s = {} THEN base ELSE AfterIngest(g[s \ {Max(s)}], E[Max(s)])

OpenFold(base, E) == CHOOSE g : g = [s \in SUBSET DOMAIN E |-> OpenStep(base, E, g, s)]

OpenedBy(base, E) == FoldLeft(AfterIngest, base, E)

\* Ingesting the events of a line is the fold.
LEMMA OpenedIsFold == \A base, E : OpenedBy(base, E) = OpenFold(base, E)[DOMAIN E]
  BY Zenon DEF OpenedBy, FoldLeft, MapThenFoldSet, OpenFold, OpenStep

\* It satisfies the equation of a fold.
LEMMA OpenFolds ==
  ASSUME NEW base, NEW E, NEW n \in Nat, DOMAIN E = 1 .. n
  PROVE  Folds("ingest", base, E, n, OpenFold(base, E))
<1>1. \A g, s : OpenStep(base, E, g, s) = FoldStep("ingest", base, E, g, s)
  BY DEF OpenStep, FoldStep, Apply
<1>2. PICK g : g = [s \in SUBSET (1 .. n) |-> FoldStep("ingest", base, E, g, s)]
  <2>1. Foldable("ingest", base, E, n)
    BY FoldSolved
  <2> QED
    BY <2>1, Zenon DEF Foldable
<1>3. g = [s \in SUBSET (1 .. n) |-> OpenStep(base, E, g, s)]
  BY <1>1, <1>2
<1> DEFINE f == OpenFold(base, E)
<1>4. f = [s \in SUBSET (1 .. n) |-> OpenStep(base, E, f, s)]
  BY <1>3 DEF OpenFold
<1> HIDE DEF f
<1>5. \A s \in SUBSET (1 .. n) : f[s] = OpenStep(base, E, f, s)
  BY <1>4
<1> QED
  BY <1>1, <1>5 DEF Folds, f

\* q holds the first k of the events E, as many as fit.
Fitting(k) == IF k < max_window_size THEN k ELSE max_window_size

FirstOf(X, E, k, q) ==
  /\ q \in Seq(X) /\ Len(q) = Fitting(k)
  /\ \A i \in 1 .. Len(q) : q[i] = E[i]

\* After k events of a transaction, its window is the only one open.
OpenAfter(X, E, t, k, open) ==
  /\ DOMAIN open = IF k = 0 THEN {} ELSE {t}
  /\ FirstOf(X, E, k, Entry(open, t))

\* One event more.
LEMMA OpenNext ==
  ASSUME max_window_size \in Nat, max_window_size > 0,
         NEW X, NEW E, NEW k \in Nat, E[k + 1] \in X, NEW t, E[k + 1].tx = t,
         NEW open, OpenAfter(X, E, t, k, open)
  PROVE  OpenAfter(X, E, t, k + 1, AfterIngest(open, E[k + 1]))
<1> DEFINE e == E[k + 1]
           q == Entry(open, t)
           new == AfterIngest(open, e)
           r == IF HasRoom(q) THEN Append(q, e) ELSE q
<1>1. q \in Seq(X) /\ Len(q) = Fitting(k) /\ \A i \in 1 .. Len(q) : q[i] = E[i]
  BY DEF OpenAfter, FirstOf
<1>2. DOMAIN open \cup {t} = {t}
  BY DEF OpenAfter
<1>3. new = [tx \in {t} |-> IF tx = t /\ HasRoom(Entry(open, tx))
                             THEN Append(Entry(open, tx), e) ELSE Entry(open, tx)]
  BY <1>2 DEF AfterIngest
<1>4. DOMAIN new = {t} /\ new[t] = r
  BY <1>3
<1>5. Entry(new, t) = r
  BY <1>4 DEF Entry
<1> HIDE DEF q, e
<1>6. FirstOf(X, E, k + 1, r)
  <2>1. CASE k < max_window_size
    <3>1. Len(q) = k /\ Fitting(k + 1) = k + 1
      BY <1>1, <2>1 DEF Fitting
    <3>2. r = Append(q, e)
      BY <2>1, <3>1 DEF HasRoom
    <3>3. e \in X
      BY DEF e
    <3>4. Append(q, e) \in Seq(X) /\ Len(Append(q, e)) = k + 1 /\ Append(q, e)[k + 1] = e
      BY <1>1, <3>1, <3>3
    <3>5. \A i \in 1 .. k : Append(q, e)[i] = E[i]
      BY <1>1, <3>1, <3>3
    <3>6. \A i \in 1 .. k + 1 : i \in 1 .. k \/ i = k + 1
      OBVIOUS
    <3>7. \A i \in 1 .. k + 1 : Append(q, e)[i] = E[i]
      BY <3>4, <3>5, <3>6 DEF e
    <3> HIDE DEF r
    <3> QED
      BY <3>1, <3>2, <3>4, <3>7 DEF FirstOf
  <2>2. CASE ~(k < max_window_size)
    <3>1. Len(q) = max_window_size /\ Fitting(k + 1) = max_window_size
      BY <1>1, <2>2 DEF Fitting
    <3>2. r = q
      BY <3>1 DEF HasRoom
    <3> HIDE DEF r
    <3> QED
      BY <1>1, <3>1, <3>2 DEF FirstOf
  <2> QED
    BY <2>1, <2>2
<1> HIDE DEF new, r
<1>7. k + 1 # 0
  OBVIOUS
<1> QED
  BY <1>4, <1>5, <1>6, <1>7 DEF OpenAfter, new, e

\* All of them.
LEMMA OpenedLine ==
  ASSUME max_window_size \in Nat, max_window_size > 0,
         NEW X, NEW E \in Seq(X), NEW t, \A i \in 1 .. Len(E) : E[i].tx = t,
         NEW base, DOMAIN base = {}
  PROVE  OpenAfter(X, E, t, Len(E), OpenedBy(base, E))
<1> DEFINE n == Len(E)
           g == OpenFold(base, E)
           P == {k \in Nat : k <= n => OpenAfter(X, E, t, k, g[1 .. k])}
<1>1. n \in Nat /\ DOMAIN E = 1 .. n /\ \A k \in 1 .. n : E[k] \in X /\ E[k].tx = t
  OBVIOUS
<1> HIDE DEF n
<1>4. Folds("ingest", base, E, n, g)
  BY <1>1, OpenFolds
<1> HIDE DEF g
<1>5. 0 \in P
  <2>2. g[1 .. 0] = base
    BY <1>1, <1>4, FoldNone
  <2>3. Entry(base, t) = <<>> /\ Fitting(0) = 0
    BY DEF Entry, Fitting
  <2>4. OpenAfter(X, E, t, 0, base)
    BY <2>3 DEF OpenAfter, FirstOf
  <2> QED
    BY <2>2, <2>4
<1>6. ASSUME NEW k \in Nat, k \in P PROVE k + 1 \in P
  <2> SUFFICES ASSUME k + 1 <= n PROVE OpenAfter(X, E, t, k + 1, g[1 .. k + 1])
    OBVIOUS
  <2>1. k + 1 \in 1 .. n
    BY <1>1
  <2>2. g[1 .. k + 1] = Apply("ingest", g[1 .. k], E[k + 1])
    BY <1>1, <1>4, FoldOneMore
  <2>3. g[1 .. k + 1] = AfterIngest(g[1 .. k], E[k + 1])
    BY <2>2 DEF Apply
  <2>4. OpenAfter(X, E, t, k, g[1 .. k])
    BY <1>1, <1>6
  <2>5. E[k + 1] \in X /\ E[k + 1].tx = t
    BY <1>1, <2>1
  <2> QED
    BY <2>3, <2>4, <2>5, OpenNext
<1> HIDE DEF P
<1>7. n \in P
  BY <1>1, <1>5, <1>6, SetInduction
<1>8. OpenAfter(X, E, t, n, g[1 .. n])
  BY <1>1, <1>7 DEF P
<1> QED
  BY <1>1, <1>8, OpenedIsFold DEF g, n

\* The lines that record a transaction.
Recordings == {line \in SnapshotLines : line.kind = "window"}

\* The events of a line are of its transaction.
LEMMA EventsOfLine ==
  ASSUME NEW line \in Recordings
  PROVE  /\ line.events \in Seq([id : Optional(Nat), ts : Optional(Nat)])
         /\ EventsOf(line) \in Seq({EventsOf(line)[i] : i \in 1 .. Len(line.events)})
         /\ Len(EventsOf(line)) = Len(line.events)
         /\ \A i \in 1 .. Len(line.events) : EventsOf(line)[i].tx = TxOf(line)
<1>1. line \in [kind : {"window"}, tx : Optional(Txs), slot : Optional(Nat),
               events : Seq([id : Optional(Nat), ts : Optional(Nat)])]
  BY DEF Recordings, SnapshotLines
<1>2. line.events \in Seq([id : Optional(Nat), ts : Optional(Nat)])
  BY <1>1
<1> DEFINE n == Len(line.events)
           E == EventsOf(line)
<1>3. n \in Nat
  BY <1>2
<1>4. E = [i \in 1 .. n |-> [tx |-> TxOf(line), slot |-> OrElse(line.slot, 0),
                            id |-> OrElse(line.events[i].id, 1), ts |-> OrElse(line.events[i].ts, 0)]]
  BY DEF EventsOf
<1>5. DOMAIN E = 1 .. n /\ \A i \in 1 .. n : E[i].tx = TxOf(line)
  BY <1>4
<1> DEFINE X == {E[i] : i \in 1 .. n}
<1>6. E = [i \in 1 .. n |-> E[i]]
  BY <1>4
<1> HIDE DEF n, E
<1>7. E \in [1 .. n -> X]
  BY <1>6
<1> HIDE DEF X
<1>8. E \in Seq(X) /\ Len(E) = n
  BY <1>3, <1>7
<1> QED
  BY <1>2, <1>5, <1>8 DEF n, E, X

\* The smaller of two numbers.
LEMMA MinOfTwo ==
  ASSUME NEW a \in Nat, NEW b \in Nat
  PROVE  Min({a, b}) = IF a < b THEN a ELSE b
<1> DEFINE m == IF a < b THEN a ELSE b
<1>1. m \in {a, b} /\ \A y \in {a, b} : m <= y
  OBVIOUS
<1>2. \A x \in {a, b} : (\A y \in {a, b} : x <= y) => x = m
  OBVIOUS
<1> HIDE DEF m
<1>3. (CHOOSE x \in {a, b} : \A y \in {a, b} : x <= y) = m
  BY <1>1, <1>2
<1> QED
  BY <1>3 DEF Min, m

\* Replaying a line that has events gives the line's window and leaves nothing
\* open; replaying one that has none gives nothing.
LEMMA LineGives ==
  ASSUME max_window_size \in Nat, max_window_size > 0, NEW line \in Recordings,
         NEW base, DOMAIN base = {}
  PROVE  LET open == OpenedBy(base, EventsOf(line)) IN
           /\ Finalized(open, TxOf(line)) =
                IF line.events = <<>> THEN <<>> ELSE <<WindowOf(line)>>
           /\ DOMAIN AfterRemove(open, TxOf(line)) = {}
<1> DEFINE E == EventsOf(line)
           t == TxOf(line)
           n == Len(line.events)
           X == {E[i] : i \in 1 .. n}
           open == OpenedBy(base, E)
           q == Entry(open, t)
<1>1. /\ line.events \in Seq([id : Optional(Nat), ts : Optional(Nat)])
      /\ E \in Seq(X) /\ Len(E) = n /\ \A i \in 1 .. n : E[i].tx = t
  BY EventsOfLine
<1>2. n \in Nat /\ (line.events = <<>> <=> n = 0)
  BY <1>1
<1>3. OpenAfter(X, E, t, n, open)
  <2> HIDE DEF E, t, n, X, open
  <2> QED
    BY <1>1, OpenedLine DEF open
<1>4. /\ DOMAIN open = (IF n = 0 THEN {} ELSE {t})
      /\ q \in Seq(X) /\ Len(q) = Fitting(n) /\ \A i \in 1 .. Len(q) : q[i] = E[i]
  BY <1>3 DEF OpenAfter, FirstOf
<1>5. DOMAIN AfterRemove(open, t) = {}
  BY <1>4 DEF AfterRemove
<1>6. Finalized(open, t) = IF q = <<>> THEN <<>> ELSE <<WindowFrom(open, t)>>
  BY DEF Finalized
<1> HIDE DEF E, t, n, X, open, q
<1>7. CASE n = 0
  <2>1. Len(q) = 0
    BY <1>4, <1>7 DEF Fitting
  <2>2. q = <<>>
    BY <1>4, <2>1
  <2> QED
    BY <1>2, <1>5, <1>6, <1>7, <2>2 DEF E, t, open
<1>8. CASE n # 0
  <2>1. Len(q) = Fitting(n) /\ Fitting(n) \in 1 .. n
    BY <1>2, <1>4, <1>8 DEF Fitting
  <2>2. q # <<>> /\ Head(q) = q[1]
    BY <1>4, <2>1
  <2>3. open[t] = q
    BY <1>4, <1>8 DEF q, Entry
  <2>4. Min({n, max_window_size}) = Fitting(n)
    BY <1>2, MinOfTwo DEF Fitting
  <2>5. q = SubSeq(E, 1, Fitting(n))
    <3>1. SubSeq(E, 1, Fitting(n)) \in Seq(X) /\ Len(SubSeq(E, 1, Fitting(n))) = Fitting(n)
      BY <1>1, <2>1
    <3>2. \A i \in 1 .. Fitting(n) : SubSeq(E, 1, Fitting(n))[i] = E[i]
      BY <1>1, <2>1
    <3> QED
      BY <1>4, <2>1, <3>1, <3>2
  <2>6. WindowOf(line) = [tx |-> t, slot |-> q[1].slot, events |-> q,
                          start_ts |-> q[1].ts, end_ts |-> Last(q).ts]
    BY <2>4, <2>5, Zenon DEF WindowOf, E, t, n
  <2>7. WindowFrom(open, t) = WindowOf(line)
    BY <2>2, <2>3, <2>6 DEF WindowFrom
  <2> QED
    BY <1>2, <1>5, <1>6, <1>8, <2>2, <2>7 DEF E, t, open
<1> QED
  BY <1>7, <1>8

-------------------------------------------------------------------------------
(* The replay: line by line *)

\* The calls of a generated transaction: at most thirteen, and at least one.
Sized(ids) == ids \in Seq(Nat) /\ Len(ids) \in 1 .. 13

\* One sequence after another is as long as both.
LEMMA ConcatSized ==
  ASSUME NEW S, NEW s \in Seq(S), NEW t \in Seq(S)
  PROVE  s \o t \in Seq(S) /\ Len(s \o t) = Len(s) + Len(t)
  OBVIOUS

\* What generate_syscall_sequence draws fits a window.
LEMMA GeneratedSized ==
  ASSUME NEW profile \in {"DeFi", "Nft", "TokenTransfer"},
         NEW ids \in generate_syscall_sequence(profile)
  PROVE  Sized(ids)
<1>0. /\ CLOCK \in Nat /\ RENT \in Nat /\ LOG \in Nat /\ SHA256 \in Nat /\ INVOKE_SIGNED \in Nat
      /\ SET_RETURN_DATA \in Nat /\ CryptoPool \subseteq Nat
      /\ CryptoCounts \subseteq 2 .. 7 /\ ReadCounts \subseteq 3 .. 9
  BY GeneratorAssumption DEF CLOCK, RENT, LOG, SHA256, INVOKE_SIGNED, SET_RETURN_DATA,
     KECCAK256, SECP256K1_RECOVER
<1>1. CASE profile = "DeFi"
  <2>1. PICK crypto \in UNION {[1 .. n -> CryptoPool] : n \in CryptoCounts} :
          ids = <<CLOCK, RENT>> \o crypto \o <<INVOKE_SIGNED, LOG>>
    BY <1>1 DEF generate_syscall_sequence
  <2>2. PICK n \in CryptoCounts : crypto \in [1 .. n -> CryptoPool]
    BY <2>1
  <2>3. n \in 2 .. 7
    BY <1>0
  <2>4. crypto \in Seq(Nat) /\ Len(crypto) = n
    <3>1. crypto \in [1 .. n -> Nat]
      BY <1>0, <2>2
    <3> QED
      BY <2>3, <3>1
  <2>5. <<CLOCK, RENT>> \in Seq(Nat) /\ <<INVOKE_SIGNED, LOG>> \in Seq(Nat)
    BY <1>0
  <2>6. ids \in Seq(Nat) /\ Len(ids) = 2 + n + 2
    BY <2>1, <2>4, <2>5
  <2> QED
    BY <2>3, <2>6 DEF Sized
<1>2. CASE profile = "Nft"
  <2>1. PICK n \in ReadCounts :
          ids = <<CLOCK>> \o [i \in 1 .. n |-> LOG] \o <<SHA256, INVOKE_SIGNED, SET_RETURN_DATA>>
    BY <1>2 DEF generate_syscall_sequence
  <2>2. n \in 3 .. 9
    BY <1>0
  <2> DEFINE logs == [i \in 1 .. n |-> LOG]
             last == <<SHA256, INVOKE_SIGNED, SET_RETURN_DATA>>
  <2>3. logs \in Seq(Nat) /\ Len(logs) = n
    BY <1>0, <2>2
  <2>4. <<CLOCK>> \in Seq(Nat) /\ last \in Seq(Nat) /\ Len(last) = 3
    BY <1>0
  <2> HIDE DEF logs, last
  <2>5. ids = <<CLOCK>> \o logs \o last
    BY <2>1 DEF logs, last
  <2> DEFINE front == <<CLOCK>> \o logs
  <2>6. front \in Seq(Nat) /\ Len(front) = 1 + n
    BY <2>3, <2>4
  <2>7. ids = front \o last
    BY <2>5
  <2> HIDE DEF front
  <2>8. ids \in Seq(Nat) /\ Len(ids) = 1 + n + 3
    <3>1. ids \in Seq(Nat) /\ Len(ids) = Len(front) + Len(last)
      BY <2>4, <2>6, <2>7, ConcatSized
    <3> QED
      BY <2>2, <2>4, <2>6, <3>1
  <2> QED
    BY <2>2, <2>8 DEF Sized
<1>3. CASE profile = "TokenTransfer"
  <2>1. ids = <<CLOCK, RENT, LOG, INVOKE_SIGNED, SET_RETURN_DATA>>
    BY <1>3 DEF generate_syscall_sequence
  <2>2. ids \in Seq(Nat) /\ Len(ids) = 5
    BY <1>0, <2>1
  <2> QED
    BY <2>2 DEF Sized
<1> QED
  BY <1>1, <1>2, <1>3

\* The mock transactions.
LEMMA MockSized ==
  ASSUME NEW n \in MockCounts, NEW ids \in [1 .. n -> MockPool]
  PROVE  Sized(ids)
<1>1. n \in 3 .. 9 /\ MockPool \subseteq Nat
  BY GeneratorAssumption DEF CLOCK, RENT, SHA256, KECCAK256, LOG, INVOKE_SIGNED
<1>2. ids \in Seq(Nat) /\ Len(ids) = n
  <2>1. ids \in [1 .. n -> Nat]
    BY <1>1
  <2> QED
    BY <1>1, <2>1
<1> QED
  BY <1>1, <1>2 DEF Sized

\* A value that is there.
LEMMA Present == \A S : \A v \in S : <<v>> \in Optional(S)
  BY DEF Optional

\* The line of a generated transaction is one that a file can hold.
LEMMA LineForIsLine ==
  ASSUME NEW tx \in Txs, NEW in_slot \in Nat, NEW ids, Sized(ids), NEW ts \in Nat
  PROVE  /\ LineFor(tx, in_slot, ids, ts) \in Recordings
         /\ LineFor(tx, in_slot, ids, ts).events # <<>>
<1> DEFINE line == LineFor(tx, in_slot, ids, ts)
           call(i) == [id |-> <<ids[i]>>, ts |-> <<ts + (i - 1) * Interval>>]
           C == [id : Optional(Nat), ts : Optional(Nat)]
           n == Len(ids)
           evs == [i \in 1 .. n |-> call(i)]
<1>1. n \in Nat /\ n > 0 /\ \A i \in 1 .. n : ids[i] \in Nat
  BY DEF Sized
<1>2. \A i \in 1 .. n : call(i) \in C
  <2> SUFFICES ASSUME NEW i \in 1 .. n PROVE call(i) \in C
    OBVIOUS
  <2>1. ids[i] \in Nat /\ ts + (i - 1) * Interval \in Nat
    BY <1>1 DEF Interval
  <2>2. <<ids[i]>> \in Optional(Nat) /\ <<ts + (i - 1) * Interval>> \in Optional(Nat)
    BY <2>1, Present
  <2> QED
    BY <2>2
<1> HIDE DEF call, C
<1>3. evs \in [1 .. n -> C]
  BY <1>2
<1>4. evs \in Seq(C) /\ Len(evs) = n
  BY <1>1, <1>3
<1>5. line = [kind |-> "window", tx |-> <<tx>>, slot |-> <<in_slot>>, events |-> evs]
  BY DEF LineFor, call
<1>6. evs # <<>>
  BY <1>1, <1>4
<1>7. <<tx>> \in Optional(Txs) /\ <<in_slot>> \in Optional(Nat)
  BY Present
<1> HIDE DEF evs, line
<1>8. line \in [kind : {"window"}, tx : Optional(Txs), slot : Optional(Nat), events : Seq(C)]
  BY <1>4, <1>5, <1>7
<1>9. line \in SnapshotLines
  BY <1>8 DEF SnapshotLines, C
<1>10. line.kind = "window" /\ line.events # <<>>
  BY <1>5, <1>6
<1> QED
  BY <1>9, <1>10 DEF Recordings, line

\* The lines among the first n that hold an event, and how many up to line k.
Holding(lines, n) == {k \in 1 .. n : lines[k].kind = "window" /\ lines[k].events # <<>>}
RankIn(lines, n, k) == Cardinality({j \in Holding(lines, n) : j <= k})

\* What has been written after the first n lines.
WrittenFor(lines, out, n) ==
  /\ Len(out) = Cardinality(Holding(lines, n))
  /\ \A k \in Holding(lines, n) : out[RankIn(lines, n, k)] = WindowOf(lines[k])

ReplayTypes ==
  /\ snapshot \in Seq(SnapshotLines)
  /\ gen_ts \in Nat /\ gen_slot \in Nat
  /\ origin \in {"file", "workload", "mock"}
  /\ at \in 1 .. Len(snapshot) + 1
  /\ phase = "write" => at = 1
  /\ windows \in Seq({WindowOf(line) : line \in SnapshotLines})
  /\ total_events \in Nat

\* The inductive invariant of the replay: between two lines no window is open.
ReplayInd ==
  /\ ReplayTypes
  /\ DOMAIN pending = {}
  /\ total_txs = Len(windows)
  /\ WrittenFor(snapshot, windows, at - 1)

\* A line more that holds no event.
LEMMA RankSame ==
  ASSUME NEW lines, NEW n \in Nat, ~(lines[n + 1].kind = "window" /\ lines[n + 1].events # <<>>),
         NEW out, WrittenFor(lines, out, n)
  PROVE  WrittenFor(lines, out, n + 1)
<1>1. \A k \in 1 .. n + 1 : k \in 1 .. n \/ k = n + 1
  OBVIOUS
<1>2. \A k \in 1 .. n : k \in 1 .. n + 1
  OBVIOUS
<1>3. Holding(lines, n + 1) = Holding(lines, n)
  BY <1>1, <1>2 DEF Holding
<1> QED
  BY <1>3 DEF WrittenFor, RankIn

\* A line more that holds one, whose window is written last.
LEMMA RankNext ==
  ASSUME NEW lines, NEW n \in Nat, lines[n + 1].kind = "window" /\ lines[n + 1].events # <<>>,
         NEW X, NEW out \in Seq(X), WindowOf(lines[n + 1]) \in X, WrittenFor(lines, out, n)
  PROVE  WrittenFor(lines, Append(out, WindowOf(lines[n + 1])), n + 1)
<1> DEFINE H == Holding(lines, n)
           G == Holding(lines, n + 1)
           w == WindowOf(lines[n + 1])
           c == Cardinality(H)
           new == Append(out, w)
<1>1. G = H \cup {n + 1} /\ n + 1 \notin H /\ H \subseteq 1 .. n
  <2>1. \A k \in 1 .. n + 1 : k \in 1 .. n \/ k = n + 1
    OBVIOUS
  <2>2. n + 1 \in 1 .. n + 1 /\ n + 1 \notin 1 .. n /\ \A k \in 1 .. n : k \in 1 .. n + 1
    OBVIOUS
  <2> QED
    BY <2>1, <2>2 DEF Holding
<1> HIDE DEF H, G
<1>2. IsFiniteSet(H)
  <2>1. IsFiniteSet(1 .. n)
    BY FS_Interval
  <2> QED
    BY <1>1, <2>1, FS_Subset
<1>3. Cardinality(G) = c + 1 /\ c \in Nat
  BY <1>1, <1>2, FS_AddElement, FS_CardinalityType
<1>4. Len(out) = c /\ \A k \in H : out[RankIn(lines, n, k)] = WindowOf(lines[k])
  BY DEF WrittenFor, H
<1>5. new \in Seq(X) /\ Len(new) = c + 1 /\ new[c + 1] = w /\ \A i \in 1 .. c : new[i] = out[i]
  BY <1>4
<1>6. ASSUME NEW k \in H
      PROVE  RankIn(lines, n + 1, k) = RankIn(lines, n, k) /\ RankIn(lines, n, k) \in 1 .. c
  <2> DEFINE U == {j \in H : j <= k}
  <2>1. k \in 1 .. n /\ ~(n + 1 <= k)
    BY <1>1
  <2>2. {j \in G : j <= k} = U
    BY <1>1, <2>1
  <2>3. RankIn(lines, n + 1, k) = Cardinality(U) /\ RankIn(lines, n, k) = Cardinality(U)
    BY <2>2 DEF RankIn, G, H
  <2>4. k \in U
    BY <2>1
  <2>5. U \subseteq H
    OBVIOUS
  <2> HIDE DEF U
  <2>6. IsFiniteSet(U) /\ Cardinality(U) \in Nat /\ Cardinality(U) <= c
    BY <1>2, <2>5, FS_Subset, FS_CardinalityType
  <2>7. Cardinality(U) # 0
    BY <2>4, <2>6, FS_EmptySet
  <2>8. \A x \in Nat : x <= c /\ x # 0 => x \in 1 .. c
    BY <1>3
  <2> QED
    BY <2>3, <2>6, <2>7, <2>8
<1>7. RankIn(lines, n + 1, n + 1) = c + 1
  <2>0. \A j \in G : j <= n + 1
    <3>1. \A j \in 1 .. n : j <= n + 1
      OBVIOUS
    <3> QED
      BY <1>1, <3>1
  <2>1. {j \in G : j <= n + 1} = G
    BY <2>0
  <2> QED
    BY <1>3, <2>1 DEF RankIn, G
<1> HIDE DEF new, c
<1>8. ASSUME NEW k \in G PROVE new[RankIn(lines, n + 1, k)] = WindowOf(lines[k])
  <2>1. CASE k \in H
    <3>1. RankIn(lines, n + 1, k) = RankIn(lines, n, k) /\ RankIn(lines, n, k) \in 1 .. c
      BY <1>6, <2>1 DEF c
    <3> QED
      BY <1>4, <1>5, <2>1, <3>1
  <2>2. CASE k = n + 1
    BY <1>5, <1>7, <2>2 DEF w
  <2> QED
    BY <1>1, <2>1, <2>2
<1>9. WrittenFor(lines, new, n + 1)
  BY <1>3, <1>5, <1>8 DEF WrittenFor, G
<1> QED
  BY <1>9 DEF new

\* Nothing is open, so the final drain finds nothing.
LEMMA NothingToDrain ==
  ASSUME NEW open, DOMAIN open = {}, NEW order \in DrainOrders(open)
  PROVE  Drained(open, order) = <<>>
<1>1. {tx \in DOMAIN open : open[tx] # <<>>} = {}
  OBVIOUS
<1>2. order \in SetToSeqs({})
  BY <1>1 DEF DrainOrders
<1>3. Cardinality({}) = 0
  BY FS_EmptySet
<1>4. order \in [1 .. 0 -> {}]
  BY <1>2, <1>3 DEF SetToSeqs
<1>5. Len(order) = 0
  BY <1>4
<1> QED
  BY <1>5 DEF Drained

\* Replaying a line: it is counted, and its window, if it has one, is written or
\* the program fails.
LEMMA ReplayLineInd ==
  ASSUME ReplayInd, ReplayLine
  PROVE  ReplayInd'
<1> DEFINE line == snapshot[at]
           n == at - 1
           open == OpenedBy(pending, EventsOf(line))
           out == Finalized(open, TxOf(line))
           X == {WindowOf(l) : l \in SnapshotLines}
<1>0. ReplayTypes /\ DOMAIN pending = {} /\ total_txs = Len(windows)
      /\ WrittenFor(snapshot, windows, n)
  BY DEF ReplayInd
<1>1. /\ snapshot \in Seq(SnapshotLines) /\ at \in 1 .. Len(snapshot) + 1
      /\ windows \in Seq(X) /\ total_events \in Nat
  BY <1>0 DEF ReplayTypes
<1>2. phase = "replay" /\ at <= Len(snapshot) /\ line.kind = "window"
  BY DEF ReplayLine, Reading
<1>3. n \in Nat /\ n + 1 = at /\ at \in 1 .. Len(snapshot)
  BY <1>1, <1>2
<1>4. line \in SnapshotLines
  BY <1>1, <1>3
<1>5. line \in Recordings
  BY <1>2, <1>4 DEF Recordings
<1>6. /\ out = IF line.events = <<>> THEN <<>> ELSE <<WindowOf(line)>>
      /\ DOMAIN AfterRemove(open, TxOf(line)) = {}
  <2>1. max_window_size \in Nat /\ max_window_size > 0
    BY WindowAssumption, ReplayAssumption
  <2> HIDE DEF line
  <2> QED
    BY <1>0, <1>5, <2>1, LineGives
<1>7. Len(line.events) \in Nat
  <2> HIDE DEF line
  <2>1. line.events \in Seq([id : Optional(Nat), ts : Optional(Nat)])
    BY <1>5, EventsOfLine
  <2> QED
    BY <2>1
<1>8. /\ snapshot' = snapshot /\ gen_ts' = gen_ts /\ gen_slot' = gen_slot /\ origin' = origin
      /\ pending' = AfterRemove(open, TxOf(line))
      /\ total_events' = total_events + Len(line.events)
      /\ \/ /\ windows' = windows \o out /\ total_txs' = total_txs + Len(out)
            /\ at' = at + 1 /\ phase' = phase
         \/ /\ phase' = "failed" /\ windows' = windows /\ total_txs' = total_txs /\ at' = at
  BY Zenon DEF ReplayLine, OpenedBy, genVars
<1>9. DOMAIN pending' = {} /\ total_events' \in Nat
  BY <1>1, <1>6, <1>7, <1>8
<1>10. WindowOf(line) \in X
  BY <1>4
<1> HIDE DEF line, open, out, X
<1>11. CASE at' = at
  <2>1. windows' = windows /\ total_txs' = total_txs /\ phase' = "failed"
    BY <1>3, <1>8, <1>11
  <2>2. ReplayTypes'
    BY <1>0, <1>8, <1>9, <1>11, <2>1 DEF ReplayTypes
  <2> QED
    BY <1>0, <1>8, <1>9, <1>11, <2>1, <2>2 DEF ReplayInd
<1>12. CASE at' = at + 1
  <2>1. /\ windows' = windows \o out /\ total_txs' = total_txs + Len(out) /\ phase' = "replay"
    BY <1>2, <1>3, <1>8, <1>12
  <2>2. at' \in 1 .. Len(snapshot) + 1 /\ at' - 1 = n + 1
    BY <1>3, <1>12
  <2>3. CASE line.events = <<>>
    <3>1. out = <<>>
      BY <1>6, <2>3
    <3>2. windows' = windows /\ total_txs' = Len(windows)
      BY <1>0, <1>1, <2>1, <3>1
    <3>3. WrittenFor(snapshot, windows, n + 1)
      BY <1>0, <1>3, <2>3, RankSame DEF line
    <3>4. ReplayTypes'
      BY <1>0, <1>8, <1>9, <2>1, <2>2, <3>2 DEF ReplayTypes
    <3> QED
      BY <1>8, <1>9, <2>2, <3>2, <3>3, <3>4 DEF ReplayInd
  <2>4. CASE line.events # <<>>
    <3> DEFINE w == WindowOf(line)
    <3>1. out = <<w>>
      BY <1>6, <2>4
    <3> HIDE DEF w
    <3>2. windows' = Append(windows, w) /\ w \in X
      BY <1>1, <1>10, <2>1, <3>1 DEF w
    <3>3. windows' \in Seq(X) /\ total_txs' = Len(windows')
      BY <1>0, <1>1, <2>1, <3>1, <3>2
    <3>4. WrittenFor(snapshot, Append(windows, w), n + 1)
      <4>1. snapshot[n + 1] = line /\ line.kind = "window"
        BY <1>2, <1>3 DEF line
      <4> QED
        BY <1>0, <1>1, <1>3, <2>4, <3>2, <4>1, RankNext DEF w
    <3>5. ReplayTypes'
      BY <1>0, <1>8, <1>9, <2>1, <2>2, <3>3 DEF ReplayTypes, X
    <3>6. WrittenFor(snapshot', windows', at' - 1)
      BY <1>8, <2>2, <3>2, <3>4
    <3> QED
      BY <1>9, <3>3, <3>5, <3>6 DEF ReplayInd
  <2> QED
    BY <2>3, <2>4
<1> QED
  BY <1>8, <1>11, <1>12

\* A line more in the file: what the generator writes, or a line of any origin.
NewLine ==
  \/ /\ origin = "workload"
     /\ \E tx \in Txs : \E ids : /\ Sized(ids) /\ gen_ts' = NextTs(ids)
                                 /\ snapshot' = Append(snapshot, LineFor(tx, gen_slot, ids, gen_ts))
     /\ gen_slot' = IF Len(snapshot) % PerSlot = 0 THEN gen_slot + 1 ELSE gen_slot
  \/ /\ origin = "mock"
     /\ \E tx \in Txs : \E ids :
          /\ Sized(ids)
          /\ snapshot' = Append(snapshot, LineFor(tx, Len(snapshot) \div PerSlot, ids,
                                                  20 * Len(snapshot)))
     /\ gen_ts' = gen_ts /\ gen_slot' = gen_slot
  \/ /\ origin = "file"
     /\ \E line \in SnapshotLines : snapshot' = Append(snapshot, line)
     /\ gen_ts' = gen_ts /\ gen_slot' = gen_slot

\* Whoever writes the snapshot adds such a line and touches nothing else.
LEMMA WritesNewLine ==
  ASSUME WriteSnapshot
  PROVE  NewLine /\ phase = "write"
         /\ UNCHANGED <<origin, at, phase, total_events, total_txs, pending, windows, ingested>>
<1>1. UNCHANGED <<origin, at, phase, total_events, total_txs, pending, windows, ingested>>
  BY DEF WriteSnapshot, vars
<1>2. ASSUME origin = "workload", NEW tx \in Txs, GenerateTransaction(tx) PROVE NewLine
  <2>1. PICK profile \in {"DeFi", "Nft", "TokenTransfer"} :
          \E ids \in generate_syscall_sequence(profile) :
            /\ snapshot' = Append(snapshot, LineFor(tx, gen_slot, ids, gen_ts))
            /\ gen_ts' = NextTs(ids)
    BY <1>2 DEF GenerateTransaction
  <2>2. PICK ids \in generate_syscall_sequence(profile) :
            /\ snapshot' = Append(snapshot, LineFor(tx, gen_slot, ids, gen_ts))
            /\ gen_ts' = NextTs(ids)
    BY <2>1
  <2>3. Sized(ids)
    BY GeneratedSized
  <2>4. gen_slot' = IF Len(snapshot) % PerSlot = 0 THEN gen_slot + 1 ELSE gen_slot
    BY <1>2 DEF GenerateTransaction
  <2> QED
    BY <1>2, <2>2, <2>3, <2>4, Zenon DEF NewLine
<1>3. ASSUME origin = "mock", NEW tx \in Txs, MockTransaction(tx) PROVE NewLine
  <2>1. PICK n \in MockCounts : \E ids \in [1 .. n -> MockPool] :
          snapshot' = Append(snapshot, LineFor(tx, Len(snapshot) \div PerSlot, ids,
                                               20 * Len(snapshot)))
    BY <1>3 DEF MockTransaction
  <2>2. PICK ids \in [1 .. n -> MockPool] :
          snapshot' = Append(snapshot, LineFor(tx, Len(snapshot) \div PerSlot, ids,
                                               20 * Len(snapshot)))
    BY <2>1
  <2>3. Sized(ids)
    BY MockSized
  <2>4. gen_ts' = gen_ts /\ gen_slot' = gen_slot
    BY <1>3 DEF MockTransaction
  <2> QED
    BY <1>3, <2>2, <2>3, <2>4, Zenon DEF NewLine
<1>4. ASSUME origin = "file", \E line \in ForeignLines : snapshot' = Append(snapshot, line),
             UNCHANGED <<gen_ts, gen_slot>>
      PROVE  NewLine
  <2>1. ForeignLines \subseteq SnapshotLines
    BY ReplayAssumption
  <2>2. PICK line \in ForeignLines : snapshot' = Append(snapshot, line)
    BY <1>4
  <2>3. line \in SnapshotLines
    BY <2>1, <2>2
  <2>4. gen_ts' = gen_ts /\ gen_slot' = gen_slot
    BY <1>4
  <2>5. origin = "file"
    BY <1>4
  <2>6. \E l \in SnapshotLines : snapshot' = Append(snapshot, l)
    BY <2>2, <2>3
  <2> QED
    BY <2>4, <2>5, <2>6, Zenon DEF NewLine
<1> QED
  BY <1>1, <1>2, <1>3, <1>4 DEF WriteSnapshot

\* The types of a line more.
LEMMA NewLineTypes ==
  ASSUME snapshot \in Seq(SnapshotLines), gen_ts \in Nat, gen_slot \in Nat, NewLine
  PROVE  /\ snapshot' \in Seq(SnapshotLines) /\ Len(snapshot') = Len(snapshot) + 1
         /\ \A k \in 1 .. Len(snapshot) : snapshot'[k] = snapshot[k]
         /\ gen_ts' \in Nat /\ gen_slot' \in Nat
<1>0. Len(snapshot) \in Nat
  OBVIOUS
<1>1. ASSUME NEW line \in SnapshotLines, snapshot' = Append(snapshot, line)
      PROVE  /\ snapshot' \in Seq(SnapshotLines) /\ Len(snapshot') = Len(snapshot) + 1
             /\ \A k \in 1 .. Len(snapshot) : snapshot'[k] = snapshot[k]
  BY <1>1
<1>2. \A line \in Recordings : line \in SnapshotLines
  BY DEF Recordings
<1>3. CASE origin = "workload" /\ NewLine
  <2>1. PICK tx \in Txs : \E ids :
          /\ Sized(ids) /\ gen_ts' = NextTs(ids)
          /\ snapshot' = Append(snapshot, LineFor(tx, gen_slot, ids, gen_ts))
    BY <1>3 DEF NewLine
  <2>2. PICK ids : /\ Sized(ids) /\ gen_ts' = NextTs(ids)
                   /\ snapshot' = Append(snapshot, LineFor(tx, gen_slot, ids, gen_ts))
    BY <2>1
  <2>3. gen_slot' = gen_slot \/ gen_slot' = gen_slot + 1
    BY <1>3 DEF NewLine
  <2>4. gen_ts' \in Nat
    BY <2>2 DEF NextTs, Sized, Interval
  <2>5. LineFor(tx, gen_slot, ids, gen_ts) \in SnapshotLines
    BY <1>2, <2>2, LineForIsLine
  <2> QED
    BY <1>1, <2>2, <2>3, <2>4, <2>5
<1>4. CASE origin = "mock" /\ NewLine
  <2> DEFINE s == Len(snapshot) \div PerSlot
             t == 20 * Len(snapshot)
  <2>1. PICK tx \in Txs : \E ids :
          Sized(ids) /\ snapshot' = Append(snapshot, LineFor(tx, s, ids, t))
    BY <1>4 DEF NewLine
  <2>2. PICK ids : Sized(ids) /\ snapshot' = Append(snapshot, LineFor(tx, s, ids, t))
    BY <2>1
  <2>3. gen_slot' = gen_slot /\ gen_ts' = gen_ts
    BY <1>4 DEF NewLine
  <2>4. s \in Nat /\ t \in Nat
    BY <1>0, GeneratorAssumption
  <2> HIDE DEF s, t
  <2>5. LineFor(tx, s, ids, t) \in SnapshotLines
    BY <1>2, <2>2, <2>4, LineForIsLine
  <2> QED
    BY <1>1, <2>2, <2>3, <2>5
<1>5. CASE origin = "file" /\ NewLine
  BY <1>1, <1>5 DEF NewLine
<1> QED
  BY <1>3, <1>4, <1>5 DEF NewLine

\* Writing the snapshot, before any line of it is read.
LEMMA WriteSnapshotInd ==
  ASSUME ReplayInd, WriteSnapshot
  PROVE  ReplayInd'
<1>0. ReplayTypes /\ DOMAIN pending = {} /\ total_txs = Len(windows)
      /\ WrittenFor(snapshot, windows, at - 1)
  BY DEF ReplayInd
<1>1. NewLine /\ phase = "write"
      /\ UNCHANGED <<origin, at, phase, total_events, total_txs, pending, windows, ingested>>
  BY WritesNewLine
<1>2. /\ snapshot' \in Seq(SnapshotLines) /\ gen_ts' \in Nat /\ gen_slot' \in Nat
      /\ Len(snapshot') \in Nat
  <2>1. snapshot \in Seq(SnapshotLines) /\ gen_ts \in Nat /\ gen_slot \in Nat
    BY <1>0 DEF ReplayTypes
  <2>2. snapshot' \in Seq(SnapshotLines) /\ gen_ts' \in Nat /\ gen_slot' \in Nat
    BY <1>1, <2>1, NewLineTypes
  <2> QED
    BY <2>2
<1>3. at = 1
  BY <1>0, <1>1 DEF ReplayTypes
<1>4. \A lines : Holding(lines, 0) = {}
  BY DEF Holding
<1>5. WrittenFor(snapshot, windows, 0)
  BY <1>0, <1>3
<1>6. WrittenFor(snapshot', windows, 0)
  BY <1>4, <1>5 DEF WrittenFor
<1>7. ReplayTypes'
  BY <1>0, <1>1, <1>2, <1>3 DEF ReplayTypes
<1> QED
  BY <1>0, <1>1, <1>3, <1>6, <1>7 DEF ReplayInd

\* The other steps: at most a line without events is passed over.
LEMMA ReplayRestInd ==
  ASSUME ReplayInd, StartReplay \/ SkipLine \/ DrainRest \/ Flush \/ UNCHANGED replayVars
  PROVE  ReplayInd'
<1>0. ReplayTypes /\ DOMAIN pending = {} /\ total_txs = Len(windows)
      /\ WrittenFor(snapshot, windows, at - 1)
  BY DEF ReplayInd
<1>1. /\ at \in 1 .. Len(snapshot) + 1 /\ snapshot \in Seq(SnapshotLines)
      /\ windows \in Seq({WindowOf(l) : l \in SnapshotLines})
  BY <1>0 DEF ReplayTypes
<1>2. CASE SkipLine
  <2>1. /\ phase = "replay" /\ at <= Len(snapshot) /\ snapshot[at].kind = "skipped"
        /\ at' = at + 1
        /\ UNCHANGED <<snapshot, gen_ts, gen_slot, origin, phase, total_events, total_txs,
                       pending, windows, ingested>>
    BY <1>2 DEF SkipLine, Reading, genVars, vars
  <2>2. /\ at - 1 \in Nat /\ (at - 1) + 1 = at /\ at' - 1 = (at - 1) + 1
        /\ at' \in 1 .. Len(snapshot) + 1
    BY <1>1, <2>1
  <2>3. ~(snapshot[(at - 1) + 1].kind = "window" /\ snapshot[(at - 1) + 1].events # <<>>)
    BY <2>1, <2>2
  <2>4. WrittenFor(snapshot, windows, (at - 1) + 1)
    BY <1>0, <2>2, <2>3, RankSame
  <2>5. ReplayTypes'
    BY <1>0, <2>1, <2>2 DEF ReplayTypes
  <2> QED
    BY <1>0, <2>1, <2>2, <2>4, <2>5 DEF ReplayInd
<1>3. CASE DrainRest
  <2>1. PICK order \in DrainOrders(pending) :
          /\ windows' = windows \o Drained(pending, order)
          /\ total_txs' = total_txs + Len(Drained(pending, order))
    BY <1>3 DEF DrainRest
  <2>2. Drained(pending, order) = <<>>
    BY <1>0, NothingToDrain
  <2>3. windows' = windows /\ total_txs' = Len(windows)
    BY <1>0, <1>1, <2>1, <2>2
  <2>4. /\ DOMAIN pending' = {} /\ phase' = "flush"
        /\ UNCHANGED <<snapshot, gen_ts, gen_slot, origin, at, total_events>>
    BY <1>3 DEF DrainRest, genVars
  <2>5. ReplayTypes'
    BY <1>0, <2>3, <2>4 DEF ReplayTypes
  <2> QED
    BY <1>0, <2>3, <2>4, <2>5 DEF ReplayInd
<1>4. CASE StartReplay \/ Flush \/ UNCHANGED replayVars
  <2>1. /\ UNCHANGED <<snapshot, gen_ts, gen_slot, origin, at, total_events, total_txs, pending,
                       windows>>
        /\ phase' = "write" => phase = "write"
    BY <1>4 DEF StartReplay, Flush, replayVars, genVars, vars
  <2>2. ReplayTypes'
    BY <1>0, <2>1 DEF ReplayTypes
  <2> QED
    BY <1>0, <2>1, <2>2 DEF ReplayInd
<1> QED
  BY <1>2, <1>3, <1>4

\* The replay starts with nothing open and nothing written.
LEMMA ReplayStarts == ReplayInit => ReplayInd
<1> SUFFICES ASSUME ReplayInit PROVE ReplayInd
  OBVIOUS
<1>1. /\ snapshot = <<>> /\ gen_ts = 0 /\ gen_slot = 0 /\ at = 1 /\ total_events = 0
      /\ total_txs = 0 /\ pending = <<>> /\ windows = <<>>
      /\ origin \in {"file", "workload", "mock"}
  BY DEF ReplayInit, Init, GeneratorInit
<1>2. ReplayTypes
  BY <1>1 DEF ReplayTypes
<1>3. Holding(<<>>, 0) = {} /\ Cardinality({}) = 0
  BY FS_EmptySet DEF Holding
<1>4. WrittenFor(<<>>, <<>>, 0)
  BY <1>3 DEF WrittenFor
<1> QED
  BY <1>1, <1>2, <1>4 DEF ReplayInd

\* The inductive invariant of the replay.
THEOREM ReplayIndHolds == ReplaySpec => []ReplayInd
<1>1. ReplayInit => ReplayInd
  BY ReplayStarts
<1>2. ReplayInd /\ [ReplayNext]_replayVars => ReplayInd'
  BY ReplayLineInd, WriteSnapshotInd, ReplayRestInd DEF ReplayNext
<1> QED
  BY <1>1, <1>2, PTL DEF ReplaySpec

\* For every snapshot, however long and of whatever origin, the output has one
\* window per line that has events, in the order of the lines and with what the
\* line holds, and nothing is left over for the final drain.
THEOREM ReplayLineByLine == ReplaySpec => []LineByLine
<1>1. ReplayInd => LineByLine
  <2> SUFFICES ASSUME ReplayInd PROVE LineByLine
    OBVIOUS
  <2>1. total_txs = Len(windows) /\ WrittenFor(snapshot, windows, at - 1)
    BY DEF ReplayInd
  <2>2. Fruitful = Holding(snapshot, at - 1)
    BY DEF Fruitful, Holding
  <2>3. \A k : Rank(k) = RankIn(snapshot, at - 1, k)
    BY <2>2 DEF Rank, RankIn
  <2> QED
    BY <2>1, <2>2, <2>3 DEF LineByLine, WrittenFor
<1> QED
  BY <1>1, ReplayIndHolds, PTL
-------------------------------------------------------------------------------
(* The replay: a generated trace *)

\* The events in the windows written, as a fold.
CountStep(out, g, s) == IF s = {} THEN 0 ELSE g[s \ {Max(s)}] + Len(out[Max(s)].events)

CountFold(out) == CHOOSE g : g = [s \in SUBSET DOMAIN out |-> CountStep(out, g, s)]

EventsIn(out) == FoldLeft(LAMBDA n, w : n + Len(w.events), 0, out)

\* Counting the events written is the fold.
LEMMA CountIsFold == \A out : EventsIn(out) = CountFold(out)[DOMAIN out]
  BY Zenon DEF EventsIn, FoldLeft, MapThenFoldSet, CountFold, CountStep

\* It satisfies the equation of a fold.
LEMMA CountFolds ==
  ASSUME NEW out, NEW n \in Nat, DOMAIN out = 1 .. n
  PROVE  Folds("count", 0, out, n, CountFold(out))
<1>1. \A g, s : CountStep(out, g, s) = FoldStep("count", 0, out, g, s)
  BY DEF CountStep, FoldStep, Apply
<1>2. PICK g : g = [s \in SUBSET (1 .. n) |-> FoldStep("count", 0, out, g, s)]
  <2>1. Foldable("count", 0, out, n)
    BY FoldSolved
  <2> QED
    BY <2>1, Zenon DEF Foldable
<1>3. g = [s \in SUBSET (1 .. n) |-> CountStep(out, g, s)]
  BY <1>1, <1>2
<1> DEFINE f == CountFold(out)
<1>4. f = [s \in SUBSET (1 .. n) |-> CountStep(out, f, s)]
  BY <1>3 DEF CountFold
<1> HIDE DEF f
<1>5. \A s \in SUBSET (1 .. n) : f[s] = CountStep(out, f, s)
  BY <1>4
<1> QED
  BY <1>1, <1>5 DEF Folds, f

\* No window has no event.
LEMMA NoEvents == EventsIn(<<>>) = 0
<1>1. DOMAIN <<>> = 1 .. 0
  OBVIOUS
<1>2. CountFold(<<>>)[1 .. 0] = 0
  BY <1>1, CountFolds, FoldNone
<1> QED
  BY <1>1, <1>2, CountIsFold

\* A window more adds its events.
LEMMA EventsMore ==
  ASSUME NEW X, NEW out \in Seq(X), NEW w \in X
  PROVE  EventsIn(Append(out, w)) = EventsIn(out) + Len(w.events)
<1> DEFINE n == Len(out)
           more == Append(out, w)
<1>1. n \in Nat /\ DOMAIN out = 1 .. n /\ DOMAIN more = 1 .. n + 1 /\ n + 1 \in Nat
  OBVIOUS
<1>2. Folds("count", 0, out, n, CountFold(out)) /\ Folds("count", 0, more, n + 1, CountFold(more))
  <2> HIDE DEF n, more
  <2> QED
    BY <1>1, CountFolds
<1>3. CountFold(more)[1 .. n + 1] = Apply("count", CountFold(out)[1 .. n], w)
  BY <1>2, FoldAppend
<1> HIDE DEF n, more
<1>4. EventsIn(out) = CountFold(out)[1 .. n] /\ EventsIn(more) = CountFold(more)[1 .. n + 1]
  BY <1>1, CountIsFold
<1>5. EventsIn(more) = EventsIn(out) + Len(w.events)
  BY <1>3, <1>4 DEF Apply
<1> QED
  BY <1>5 DEF more

\* The slot and the first and last time of a line.
SlotOf(line) == OrElse(line.slot, 0)
FirstTs(line) == OrElse(line.events[1].ts, 0)
LastTs(line) == OrElse(line.events[Len(line.events)].ts, 0)

\* The window of a line that fits is the whole line.
LEMMA WholeWindow ==
  ASSUME NEW line \in Recordings, Len(line.events) \in 1 .. 13
  PROVE  /\ WindowOf(line).slot = SlotOf(line) /\ Len(WindowOf(line).events) = Len(line.events)
         /\ WindowOf(line).start_ts = FirstTs(line) /\ WindowOf(line).end_ts = LastTs(line)
<1> DEFINE E == EventsOf(line)
           n == Len(line.events)
           X == {E[i] : i \in 1 .. n}
<1>1. E \in Seq(X) /\ Len(E) = n
  BY EventsOfLine
<1>2. \A i \in 1 .. n : E[i].slot = SlotOf(line) /\ E[i].ts = OrElse(line.events[i].ts, 0)
  BY DEF EventsOf, SlotOf
<1>3. n \in Nat /\ n >= 1 /\ n <= max_window_size /\ max_window_size \in Nat
  <2>1. max_window_size \in Nat /\ max_window_size >= 13
    BY WindowAssumption, ReplayAssumption
  <2>2. n \in 1 .. 13
    OBVIOUS
  <2> HIDE DEF n
  <2> QED
    BY <2>1, <2>2
<1>4. Min({n, max_window_size}) = n
  BY <1>3, MinOfTwo
<1> HIDE DEF X
<1>5. SubSeq(E, 1, n) = E
  <2> HIDE DEF E, n
  <2>1. SubSeq(E, 1, n) \in Seq(X) /\ Len(SubSeq(E, 1, n)) = n
    BY <1>1, <1>3
  <2>2. \A i \in 1 .. n : SubSeq(E, 1, n)[i] = E[i]
    BY <1>1, <1>3
  <2> QED
    BY <1>1, <2>1, <2>2
<1>6. WindowOf(line) = [tx |-> TxOf(line), slot |-> E[1].slot, events |-> E,
                        start_ts |-> E[1].ts, end_ts |-> Last(E).ts]
  BY <1>4, <1>5, Zenon DEF WindowOf
<1>7. Last(E) = E[n] /\ 1 \in 1 .. n /\ n \in 1 .. n
  BY <1>1, <1>3 DEF Last
<1> HIDE DEF E
<1> QED
  BY <1>1, <1>2, <1>6, <1>7 DEF FirstTs, LastTs

\* The line of a generated transaction.
LEMMA LineForTimes ==
  ASSUME NEW tx \in Txs, NEW in_slot \in Nat, NEW ids, Sized(ids), NEW ts \in Nat
  PROVE  LET line == LineFor(tx, in_slot, ids, ts) IN
           /\ line \in Recordings /\ Len(line.events) = Len(ids) /\ Len(line.events) \in 1 .. 13
           /\ SlotOf(line) = in_slot /\ FirstTs(line) = ts
           /\ LastTs(line) = ts + (Len(ids) - 1) * Interval
<1> DEFINE line == LineFor(tx, in_slot, ids, ts)
           n == Len(ids)
           call(i) == [id |-> <<ids[i]>>, ts |-> <<ts + (i - 1) * Interval>>]
           evs == [i \in 1 .. n |-> call(i)]
<1>1. n \in Nat /\ n \in 1 .. 13 /\ 1 \in 1 .. n /\ n \in 1 .. n
  <2>1. n \in 1 .. 13
    BY DEF Sized
  <2> HIDE DEF n
  <2> QED
    BY <2>1
<1>2. line.events = evs /\ line.slot = <<in_slot>>
  BY DEF LineFor
<1> HIDE DEF n, call
<1>3. evs[1] = call(1) /\ evs[n] = call(n) /\ Len(evs) = n
  BY <1>1
<1>4. /\ call(1).ts = <<ts + (1 - 1) * Interval>>
      /\ call(n).ts = <<ts + (n - 1) * Interval>>
  BY DEF call
<1>5. \A v : OrElse(<<v>>, 0) = v
  BY DEF OrElse
<1>6. ts + (1 - 1) * Interval = ts
  BY DEF Interval
<1>7. line \in Recordings
  BY LineForIsLine
<1> HIDE DEF line, evs
<1>8. FirstTs(line) = ts /\ LastTs(line) = ts + (n - 1) * Interval /\ SlotOf(line) = in_slot
  BY <1>2, <1>3, <1>4, <1>5, <1>6 DEF FirstTs, LastTs, SlotOf
<1> QED
  BY <1>1, <1>2, <1>3, <1>7, <1>8 DEF line, n

\* The times that the harness reads are numbers.
LEMMA TimesAreNat ==
  ASSUME NEW line \in Recordings, Len(line.events) \in 1 .. 13
  PROVE  LastTs(line) \in Nat
<1> DEFINE n == Len(line.events)
           v == line.events[n].ts
           C == [id : Optional(Nat), ts : Optional(Nat)]
<1>1. line.events \in Seq(C)
  BY EventsOfLine
<1>2. n \in 1 .. n
  <2>1. n \in 1 .. 13
    OBVIOUS
  <2> HIDE DEF n
  <2> QED
    BY <2>1
<1>3. line.events[n] \in C
  <2> HIDE DEF C
  <2> QED
    BY <1>1, <1>2
<1>4. v \in Optional(Nat)
  BY <1>3
<1> HIDE DEF v
<1>5. v \in Seq(Nat) /\ (v = <<>> \/ 1 \in 1 .. Len(v))
  BY <1>4 DEF Optional
<1>6. OrElse(v, 0) \in Nat
  BY <1>5 DEF OrElse
<1> QED
  BY <1>6 DEF LastTs, v

\* Slot s has the transactions n, counted from a shift, of s * PerSlot and on.
InSlot(s, n) == s * PerSlot <= n /\ n < s * PerSlot + PerSlot

\* Products with PerSlot ascend, by at least PerSlot.
LEMMA SlotsApart ==
  ASSUME NEW s \in Nat, NEW t \in Nat, t < s
  PROVE  t * PerSlot + PerSlot <= s * PerSlot
<1> DEFINE P == PerSlot
           d == s - t - 1
<1>1. P \in Nat
  BY GeneratorAssumption
<1>2. d \in Nat /\ s = t + 1 + d
  OBVIOUS
<1> HIDE DEF P, d
<1>3. s * P = t * P + P + d * P
  BY <1>1, <1>2
<1>4. d * P >= 0 /\ d * P \in Nat /\ t * P \in Nat
  BY <1>1, <1>2
<1> QED
  BY <1>1, <1>3, <1>4 DEF P

\* Later transactions are in no earlier slot.
LEMMA SlotsAscend ==
  ASSUME NEW s \in Nat, NEW t \in Nat, NEW n \in Int, NEW m \in Int,
         InSlot(s, n), InSlot(t, m), n <= m
  PROVE  s <= t
<1> SUFFICES ASSUME t < s PROVE FALSE
  OBVIOUS
<1> DEFINE a == s * PerSlot
           b == t * PerSlot
<1>1. b + PerSlot <= a
  BY SlotsApart
<1>2. PerSlot \in Nat /\ a \in Nat /\ b \in Nat
  BY GeneratorAssumption
<1>3. a <= n /\ m < b + PerSlot
  BY DEF InSlot
<1> HIDE DEF a, b
<1> QED
  BY <1>1, <1>2, <1>3

\* A slot has PerSlot transactions.
LEMMA SlotHolds ==
  ASSUME NEW s \in Nat, NEW d \in Nat, NEW J \in SUBSET Nat,
         \A j \in J : InSlot(s, j - 1 + d)
  PROVE  Cardinality(J) <= PerSlot
<1> DEFINE a == s * PerSlot - d + 1
           b == s * PerSlot - d + PerSlot
<1>1. PerSlot \in Nat /\ PerSlot > 0 /\ s * PerSlot \in Nat
  BY GeneratorAssumption
<1>2. a \in Int /\ b \in Int /\ b - a + 1 = PerSlot /\ a <= b
  BY <1>1
<1>3. ASSUME NEW j \in J PROVE j \in a .. b
  <2>1. s * PerSlot <= j - 1 + d /\ j - 1 + d < s * PerSlot + PerSlot
    BY <1>3 DEF InSlot
  <2> DEFINE c == s * PerSlot
  <2>2. c \in Nat /\ c <= j - 1 + d /\ j - 1 + d < c + PerSlot /\ a = c - d + 1
        /\ b = c - d + PerSlot /\ j \in Nat
    BY <1>1, <2>1
  <2> HIDE DEF a, b, c
  <2> QED
    BY <1>1, <1>2, <2>2
<1> HIDE DEF a, b
<1>4. IsFiniteSet(a .. b) /\ Cardinality(a .. b) = b - a + 1
  BY <1>2, FS_Interval
<1>5. J \subseteq a .. b
  BY <1>3
<1>6. Cardinality(J) <= Cardinality(a .. b)
  BY <1>4, <1>5, FS_Subset
<1> QED
  BY <1>2, <1>4, <1>6

\* The mock generator's slots: of the transaction after n others.
LEMMA MockSlot ==
  ASSUME NEW n \in Nat
  PROVE  n \div PerSlot \in Nat /\ InSlot(n \div PerSlot, n)
<1> DEFINE P == PerSlot
           q == n \div P
           r == n % P
<1>1. P \in Nat /\ P > 0
  BY GeneratorAssumption
<1> HIDE DEF P
<1>2. q \in Nat /\ r \in Nat /\ r < P /\ n = P * q + r
  BY <1>1
<1> HIDE DEF q, r
<1>3. P * q = q * P /\ q * P \in Nat
  BY <1>1, <1>2
<1>4. q * P <= n /\ n < q * P + P
  BY <1>1, <1>2, <1>3
<1> QED
  BY <1>2, <1>4 DEF InSlot, P, q

\* The workload generator's slots: the slot advances after the first transaction
\* and then after every PerSlot.
LEMMA WorkloadSlot ==
  ASSUME NEW s \in Nat, NEW n \in Nat, InSlot(s, n + PerSlot - 1)
  PROVE  InSlot(IF n % PerSlot = 0 THEN s + 1 ELSE s, n + 1 + PerSlot - 1)
<1> DEFINE P == PerSlot
           q == n \div P
           r == n % P
           a == s * P
           b == q * P
<1>1. P \in Nat /\ P > 0
  BY GeneratorAssumption
<1>2. a <= n + P - 1 /\ n + P - 1 < a + P
  BY DEF InSlot
<1> HIDE DEF P
<1>3. q \in Nat /\ r \in Nat /\ r < P /\ n = P * q + r
  BY <1>1
<1> HIDE DEF q, r
<1>4. P * q = b /\ b \in Nat /\ a \in Nat
  BY <1>1, <1>3
<1>5. (s < q => a + P <= b) /\ (q < s => b + P <= a)
  BY <1>3, SlotsApart DEF P
<1>6. (s = q => a = b) /\ (q + 1 < s => b + P + P <= a) /\ (s = q + 1 => a = b + P)
  <2>1. (q + 1) * P = b + P /\ q + 1 \in Nat
    BY <1>1, <1>3
  <2>2. q + 1 < s => (q + 1) * P + P <= a
    BY <2>1, SlotsApart DEF P
  <2> QED
    BY <2>1, <2>2
<1>7. (s + 1) * P = a + P
  BY <1>1
<1> HIDE DEF a, b
<1>8. CASE r = 0
  <2>1. n = b
    BY <1>3, <1>4, <1>8
  <2>2. s = q
    BY <1>1, <1>2, <1>3, <1>4, <1>5, <2>1
  <2>3. (s + 1) * P <= n + 1 + P - 1 /\ n + 1 + P - 1 < (s + 1) * P + P
    BY <1>1, <1>4, <1>6, <1>7, <2>1, <2>2
  <2> QED
    BY <1>8, <2>3 DEF InSlot, P, r
<1>9. CASE r # 0
  <2>1. b < n /\ n < b + P /\ n \in Nat
    BY <1>1, <1>3, <1>4, <1>9
  <2>2. s = q + 1
    BY <1>1, <1>2, <1>3, <1>4, <1>5, <1>6, <2>1
  <2>3. a <= n + 1 + P - 1 /\ n + 1 + P - 1 < a + P
    BY <1>1, <1>4, <1>6, <2>1, <2>2
  <2> QED
    BY <1>9, <2>3 DEF InSlot, P, r, a
<1> QED
  BY <1>8, <1>9

\* A generated line, fit for a window, and in its slot.
GeneratedLine(line, n) ==
  /\ line \in Recordings /\ Len(line.events) \in 1 .. 13
  /\ SlotOf(line) \in Nat /\ InSlot(SlotOf(line), n)

GenLines(lines, d) == \A k \in 1 .. Len(lines) : GeneratedLine(lines[k], k - 1 + d)

\* The transactions are apart in time, and before ts.
GenTimes(lines, ts) ==
  /\ \A i \in 1 .. Len(lines) : LastTs(lines[i]) < ts
  /\ \A i, j \in 1 .. Len(lines) : i < j => LastTs(lines[i]) < FirstTs(lines[j])

\* What holds of a generated snapshot.
GenSnapshot ==
  /\ origin = "mock" => GenLines(snapshot, 0)
  /\ origin = "workload" => /\ GenLines(snapshot, PerSlot - 1)
                            /\ InSlot(gen_slot, Len(snapshot) + PerSlot - 1)
                            /\ GenTimes(snapshot, gen_ts)

\* Until a write fails, the events of a generated snapshot that have been counted
\* are those in the windows written.
AllWritten == origin # "file" /\ phase # "failed" => EventsIn(windows) = total_events

GenInd == ReplayInd /\ GenSnapshot /\ AllWritten

\* One line more.
LEMMA OneLineMore ==
  ASSUME NEW lines \in Seq(SnapshotLines), NEW d \in Nat, GenLines(lines, d),
         NEW line \in SnapshotLines, GeneratedLine(line, Len(lines) + d)
  PROVE  GenLines(Append(lines, line), d)
<1> DEFINE n == Len(lines)
           new == Append(lines, line)
<1>1. /\ n \in Nat /\ Len(new) = n + 1 /\ new[n + 1] = line
      /\ \A k \in 1 .. n : new[k] = lines[k]
  OBVIOUS
<1>2. \A k \in 1 .. n : GeneratedLine(lines[k], k - 1 + d)
  BY DEF GenLines
<1>3. GeneratedLine(line, n + d)
  OBVIOUS
<1> HIDE DEF n, new
<1>4. ASSUME NEW k \in 1 .. n + 1 PROVE GeneratedLine(new[k], k - 1 + d)
  <2>1. CASE k \in 1 .. n
    BY <1>1, <1>2, <2>1
  <2>2. CASE k = n + 1
    <3>1. k - 1 + d = n + d
      BY <1>1, <2>2
    <3> QED
      BY <1>1, <1>3, <2>2, <3>1
  <2> QED
    BY <1>1, <2>1, <2>2
<1> QED
  BY <1>1, <1>4 DEF GenLines, new

\* It comes after the others.
LEMMA LaterInTime ==
  ASSUME NEW lines \in Seq(SnapshotLines), NEW ts \in Nat, NEW next \in Nat, GenTimes(lines, ts),
         \A k \in 1 .. Len(lines) : LastTs(lines[k]) \in Int,
         NEW line \in SnapshotLines, FirstTs(line) = ts, LastTs(line) \in Nat,
         LastTs(line) < next, ts <= next
  PROVE  GenTimes(Append(lines, line), next)
<1> DEFINE n == Len(lines)
           new == Append(lines, line)
<1>1. /\ n \in Nat /\ Len(new) = n + 1 /\ new[n + 1] = line
      /\ \A k \in 1 .. n : new[k] = lines[k]
  OBVIOUS
<1>2. /\ \A i \in 1 .. n : LastTs(lines[i]) < ts /\ LastTs(lines[i]) \in Int
      /\ \A i, j \in 1 .. n : i < j => LastTs(lines[i]) < FirstTs(lines[j])
  BY DEF GenTimes
<1> HIDE DEF n, new
<1>3. \A i \in 1 .. n + 1 : i \in 1 .. n \/ i = n + 1
  BY <1>1
<1>4. ASSUME NEW i \in 1 .. n + 1 PROVE LastTs(new[i]) < next
  <2>1. CASE i \in 1 .. n
    BY <1>1, <1>2, <2>1
  <2>2. CASE i = n + 1
    BY <1>1, <2>2
  <2> QED
    BY <1>3, <2>1, <2>2
<1>5. ASSUME NEW i \in 1 .. n + 1, NEW j \in 1 .. n + 1, i < j
      PROVE  LastTs(new[i]) < FirstTs(new[j])
  <2>1. i \in 1 .. n
    BY <1>1, <1>5
  <2>2. CASE j \in 1 .. n
    BY <1>1, <1>2, <1>5, <2>1, <2>2
  <2>3. CASE j = n + 1
    BY <1>1, <1>2, <2>1, <2>3
  <2> QED
    BY <1>3, <2>2, <2>3
<1> QED
  BY <1>1, <1>4, <1>5 DEF GenTimes, new

\* The generators keep what holds of their snapshots.
LEMMA NewLineGen ==
  ASSUME ReplayTypes, GenSnapshot, NewLine, origin' = origin
  PROVE  GenSnapshot'
<1>1. snapshot \in Seq(SnapshotLines) /\ gen_ts \in Nat /\ gen_slot \in Nat /\ Len(snapshot) \in Nat
  BY DEF ReplayTypes
<1>2. \A line \in Recordings : line \in SnapshotLines
  BY DEF Recordings
<1>3. PerSlot \in Nat /\ PerSlot - 1 \in Nat
  BY GeneratorAssumption
<1>4. CASE origin = "mock"
  <2> DEFINE n == Len(snapshot)
             s == n \div PerSlot
             t == 20 * n
  <2>1. PICK tx \in Txs : \E ids :
          Sized(ids) /\ snapshot' = Append(snapshot, LineFor(tx, s, ids, t))
    BY <1>4 DEF NewLine
  <2>2. PICK ids : Sized(ids) /\ snapshot' = Append(snapshot, LineFor(tx, s, ids, t))
    BY <2>1
  <2> DEFINE line == LineFor(tx, s, ids, t)
  <2>3. s \in Nat /\ InSlot(s, n)
    BY <1>1, MockSlot
  <2>4. t \in Nat
    BY <1>1
  <2> HIDE DEF n, s, t
  <2>5. line \in Recordings /\ Len(line.events) \in 1 .. 13 /\ SlotOf(line) = s
    BY <2>2, <2>3, <2>4, LineForTimes
  <2>6. snapshot' = Append(snapshot, line)
    BY <2>2
  <2> HIDE DEF line
  <2>7. n + 0 = n
    BY <1>1 DEF n
  <2>8. GeneratedLine(line, n + 0)
    BY <2>3, <2>5, <2>7 DEF GeneratedLine
  <2>9. GenLines(snapshot, 0)
    BY <1>4 DEF GenSnapshot
  <2>10. GenLines(Append(snapshot, line), 0)
    BY <1>1, <1>2, <2>5, <2>8, <2>9, OneLineMore DEF n
  <2> QED
    BY <1>4, <2>6, <2>10 DEF GenSnapshot
<1>5. CASE origin = "workload"
  <2>1. PICK tx \in Txs : \E ids :
          /\ Sized(ids) /\ gen_ts' = NextTs(ids)
          /\ snapshot' = Append(snapshot, LineFor(tx, gen_slot, ids, gen_ts))
    BY <1>5 DEF NewLine
  <2>2. PICK ids : /\ Sized(ids) /\ gen_ts' = NextTs(ids)
                   /\ snapshot' = Append(snapshot, LineFor(tx, gen_slot, ids, gen_ts))
    BY <2>1
  <2> DEFINE line == LineFor(tx, gen_slot, ids, gen_ts)
             n == Len(snapshot)
             d == PerSlot - 1
  <2>3. gen_slot' = IF n % PerSlot = 0 THEN gen_slot + 1 ELSE gen_slot
    BY <1>5 DEF NewLine
  <2>4. /\ GenLines(snapshot, d) /\ InSlot(gen_slot, n + PerSlot - 1) /\ GenTimes(snapshot, gen_ts)
    BY <1>5 DEF GenSnapshot
  <2>5. /\ line \in Recordings /\ Len(line.events) \in 1 .. 13 /\ SlotOf(line) = gen_slot
        /\ FirstTs(line) = gen_ts /\ LastTs(line) = gen_ts + (Len(ids) - 1) * Interval
    BY <1>1, <2>2, LineForTimes
  <2>6. snapshot' = Append(snapshot, line)
    BY <2>2
  <2> HIDE DEF line
  <2>7. Len(ids) \in Nat /\ Len(ids) >= 1
    <3>1. Len(ids) \in 1 .. 13
      BY <2>2 DEF Sized
    <3>2. \A a \in 1 .. 13 : a \in Nat /\ a >= 1
      OBVIOUS
    <3> QED
      BY <3>1, <3>2
  <2>8. LastTs(line) \in Nat /\ gen_ts' \in Nat /\ LastTs(line) < gen_ts' /\ gen_ts <= gen_ts'
    BY <1>1, <2>2, <2>5, <2>7 DEF NextTs, Interval
  <2>9. n + d = n + PerSlot - 1 /\ d \in Nat
    BY <1>1, <1>3
  <2>10. GeneratedLine(line, n + d)
    BY <1>1, <2>4, <2>5, <2>9 DEF GeneratedLine
  <2>11. GenLines(Append(snapshot, line), d)
    <3> HIDE DEF d
    <3> QED
      BY <1>1, <1>2, <2>4, <2>5, <2>9, <2>10, OneLineMore
  <2>12. \A k \in 1 .. Len(snapshot) : LastTs(snapshot[k]) \in Int
    <3>1. \A k \in 1 .. n : snapshot[k] \in Recordings /\ Len(snapshot[k].events) \in 1 .. 13
      BY <2>4 DEF GenLines, GeneratedLine
    <3>2. \A k \in 1 .. n : LastTs(snapshot[k]) \in Nat
      BY <3>1, TimesAreNat
    <3> QED
      BY <3>2
  <2>13. GenTimes(Append(snapshot, line), gen_ts')
    BY <1>1, <1>2, <2>4, <2>5, <2>8, <2>12, LaterInTime
  <2>14. Len(snapshot') = n + 1
    BY <1>1, <2>6
  <2>15. InSlot(gen_slot', n + 1 + PerSlot - 1)
    BY <1>1, <2>3, <2>4, WorkloadSlot
  <2> QED
    BY <1>5, <2>6, <2>11, <2>13, <2>14, <2>15 DEF GenSnapshot
<1>6. CASE origin = "file"
  BY <1>6 DEF GenSnapshot
<1> QED
  BY <1>4, <1>5, <1>6 DEF ReplayTypes

\* A line with as many events has some.
LEMMA NotEmpty == \A s : Len(s) \in 1 .. 13 => s # <<>>
<1>1. Len(<<>>) = 0
  OBVIOUS
<1>2. 0 \notin 1 .. 13
  OBVIOUS
<1> QED
  BY <1>1, <1>2

\* Replaying a line of a generated snapshot writes all of it, or fails.
LEMMA ReplayLineGen ==
  ASSUME GenInd, ReplayLine
  PROVE  AllWritten'
<1> DEFINE line == snapshot[at]
           open == OpenedBy(pending, EventsOf(line))
           out == Finalized(open, TxOf(line))
           X == {WindowOf(l) : l \in SnapshotLines}
<1>1. ReplayTypes /\ DOMAIN pending = {} /\ GenSnapshot /\ AllWritten
  BY DEF GenInd, ReplayInd
<1>2. /\ snapshot \in Seq(SnapshotLines) /\ windows \in Seq(X) /\ total_events \in Nat
      /\ origin \in {"file", "workload", "mock"} /\ at \in 1 .. Len(snapshot) + 1
  BY <1>1 DEF ReplayTypes
<1>3. phase = "replay" /\ at <= Len(snapshot)
  BY DEF ReplayLine, Reading
<1>4. at \in 1 .. Len(snapshot)
  BY <1>2, <1>3
<1>5. /\ origin' = origin /\ total_events' = total_events + Len(line.events)
      /\ windows' = windows \o out \/ phase' = "failed"
  BY Zenon DEF ReplayLine, OpenedBy
<1> SUFFICES ASSUME origin # "file", phase' # "failed"
             PROVE  EventsIn(windows') = total_events'
  BY <1>5 DEF AllWritten
<1>6. line \in Recordings /\ Len(line.events) \in 1 .. 13
  <2>1. GenLines(snapshot, 0) \/ GenLines(snapshot, PerSlot - 1)
    BY <1>1, <1>2 DEF GenSnapshot
  <2> QED
    BY <1>4, <2>1 DEF GenLines, GeneratedLine
<1> HIDE DEF line
<1>7. Len(WindowOf(line).events) = Len(line.events)
  BY <1>6, WholeWindow
<1>8. line.events # <<>>
  BY <1>6, NotEmpty
<1>9. out = <<WindowOf(line)>>
  <2>1. max_window_size \in Nat /\ max_window_size > 0
    BY WindowAssumption, ReplayAssumption
  <2> QED
    BY <1>1, <1>6, <1>8, <2>1, LineGives
<1>10. WindowOf(line) \in X
  BY <1>6 DEF Recordings
<1> HIDE DEF out, X
<1>11. windows' = Append(windows, WindowOf(line))
  BY <1>2, <1>5, <1>9, <1>10
<1>12. EventsIn(windows') = EventsIn(windows) + Len(line.events)
  BY <1>2, <1>7, <1>10, <1>11, EventsMore
<1>13. EventsIn(windows) = total_events
  BY <1>1, <1>3 DEF AllWritten
<1> QED
  BY <1>5, <1>12, <1>13

\* Every step keeps what holds of a generated trace.
LEMMA GenSteps ==
  ASSUME GenInd, [ReplayNext]_replayVars
  PROVE  GenInd'
<1>0. ReplayInd /\ ReplayTypes /\ DOMAIN pending = {} /\ GenSnapshot /\ AllWritten
  BY DEF GenInd, ReplayInd
<1>1. ReplayInd'
  BY <1>0, ReplayLineInd, WriteSnapshotInd, ReplayRestInd DEF ReplayNext
<1>2. CASE WriteSnapshot
  <2>1. NewLine /\ UNCHANGED <<origin, phase, total_events, windows>>
    BY <1>2, WritesNewLine
  <2>2. GenSnapshot'
    BY <1>0, <2>1, NewLineGen
  <2>3. AllWritten'
    BY <1>0, <2>1 DEF AllWritten
  <2> QED
    BY <1>1, <2>2, <2>3 DEF GenInd
<1>3. CASE ReplayLine
  <2>1. UNCHANGED <<snapshot, gen_ts, gen_slot, origin>>
    BY <1>3 DEF ReplayLine, genVars
  <2>2. GenSnapshot'
    BY <1>0, <2>1 DEF GenSnapshot
  <2>3. AllWritten'
    BY <1>3, ReplayLineGen
  <2> QED
    BY <1>1, <2>2, <2>3 DEF GenInd
<1>4. CASE DrainRest
  <2>1. /\ UNCHANGED <<snapshot, gen_ts, gen_slot, origin, total_events>>
        /\ phase = "replay"
    BY <1>4 DEF DrainRest, genVars
  <2>2. PICK order \in DrainOrders(pending) : windows' = windows \o Drained(pending, order)
    BY <1>4 DEF DrainRest
  <2>3. Drained(pending, order) = <<>>
    BY <1>0, NothingToDrain
  <2>4. windows \in Seq({WindowOf(l) : l \in SnapshotLines})
    BY <1>0 DEF ReplayTypes
  <2>5. windows' = windows
    BY <2>2, <2>3, <2>4
  <2>6. GenSnapshot'
    BY <1>0, <2>1 DEF GenSnapshot
  <2>7. AllWritten'
    BY <1>0, <2>1, <2>5 DEF AllWritten
  <2> QED
    BY <1>1, <2>6, <2>7 DEF GenInd
<1>5. CASE StartReplay \/ SkipLine \/ Flush \/ UNCHANGED replayVars
  <2>1. /\ UNCHANGED <<snapshot, gen_ts, gen_slot, origin, total_events, windows>>
        /\ phase = "failed" => phase' = "failed"
    BY <1>5 DEF StartReplay, SkipLine, Reading, Flush, replayVars, genVars, vars
  <2>2. GenSnapshot'
    BY <1>0, <2>1 DEF GenSnapshot
  <2>3. AllWritten'
    BY <1>0, <2>1 DEF AllWritten
  <2> QED
    BY <1>1, <2>2, <2>3 DEF GenInd
<1> QED
  BY <1>2, <1>3, <1>4, <1>5 DEF ReplayNext

\* The inductive invariant of a generated trace.
THEOREM GenIndHolds == ReplaySpec => []GenInd
<1>1. ReplayInit => GenSnapshot /\ AllWritten
  <2> SUFFICES ASSUME ReplayInit PROVE GenSnapshot /\ AllWritten
    OBVIOUS
  <2>1. /\ snapshot = <<>> /\ gen_ts = 0 /\ gen_slot = 0 /\ total_events = 0 /\ windows = <<>>
    BY DEF ReplayInit, Init, GeneratorInit
  <2>2. \A d : GenLines(<<>>, d)
    BY DEF GenLines
  <2>3. GenTimes(<<>>, 0)
    BY DEF GenTimes
  <2>4. InSlot(0, Len(<<>>) + PerSlot - 1)
    BY GeneratorAssumption DEF InSlot
  <2> QED
    BY <2>1, <2>2, <2>3, <2>4, NoEvents DEF GenSnapshot, AllWritten
<1>2. ReplayInit => ReplayInd
  BY ReplayStarts
<1>3. ReplayInit => GenInd
  BY <1>1, <1>2 DEF GenInd
<1>4. GenInd /\ [ReplayNext]_replayVars => GenInd'
  BY GenSteps
<1> QED
  BY <1>3, <1>4, PTL DEF ReplaySpec

\* If every line holds an event, the windows are the lines' in their order.
LEMMA AllHold ==
  ASSUME NEW lines, NEW out, NEW n \in Nat, WrittenFor(lines, out, n),
         \A k \in 1 .. n : lines[k].kind = "window" /\ lines[k].events # <<>>
  PROVE  Len(out) = n /\ \A k \in 1 .. n : out[k] = WindowOf(lines[k])
<1>1. Holding(lines, n) = 1 .. n
  BY DEF Holding
<1>2. Cardinality(1 .. n) = n
  BY FS_Interval
<1>3. ASSUME NEW k \in 1 .. n PROVE RankIn(lines, n, k) = k
  <2>1. {j \in 1 .. n : j <= k} = 1 .. k
    OBVIOUS
  <2>2. Cardinality(1 .. k) = k
    BY FS_Interval
  <2> QED
    BY <1>1, <2>1, <2>2 DEF RankIn
<1> QED
  BY <1>1, <1>2, <1>3 DEF WrittenFor

\* The windows written of a generated snapshot.
LEMMA GeneratedWindows ==
  ASSUME GenInd, NEW d \in Nat, GenLines(snapshot, d)
  PROVE  \A k \in 1 .. Len(windows) :
           /\ k \in 1 .. Len(snapshot) /\ windows[k].slot \in Nat /\ InSlot(windows[k].slot, k - 1 + d)
           /\ windows[k].start_ts = FirstTs(snapshot[k]) /\ windows[k].end_ts = LastTs(snapshot[k])
<1> DEFINE n == at - 1
<1>1. ReplayTypes /\ WrittenFor(snapshot, windows, n)
  BY DEF GenInd, ReplayInd
<1>2. n \in Nat /\ \A k \in 1 .. n : k \in 1 .. Len(snapshot)
  BY <1>1 DEF ReplayTypes
<1> HIDE DEF n
<1>3. \A k \in 1 .. n : GeneratedLine(snapshot[k], k - 1 + d)
  BY <1>2 DEF GenLines
<1>4. \A k \in 1 .. n : snapshot[k] \in Recordings /\ Len(snapshot[k].events) \in 1 .. 13
  BY <1>3 DEF GeneratedLine
<1>5. \A k \in 1 .. n : snapshot[k].kind = "window" /\ snapshot[k].events # <<>>
  BY <1>4, NotEmpty DEF Recordings
<1>6. Len(windows) = n /\ \A k \in 1 .. n : windows[k] = WindowOf(snapshot[k])
  BY <1>1, <1>2, <1>5, AllHold
<1>7. ASSUME NEW k \in 1 .. n
      PROVE  /\ windows[k].slot = SlotOf(snapshot[k]) /\ windows[k].start_ts = FirstTs(snapshot[k])
             /\ windows[k].end_ts = LastTs(snapshot[k])
  BY <1>4, <1>6, WholeWindow
<1> QED
  BY <1>2, <1>3, <1>6, <1>7 DEF GeneratedLine

\* For every number of transactions per slot and every draw of the generators, a
\* generated trace comes through the replay whole: what is counted is written, slots
\* never go back nor have more than PerSlot transactions, and the transactions of a
\* workload are apart in time.
THEOREM GeneratedTraceWhole == ReplaySpec => []GeneratedComesThrough
<1>1. GenInd => GeneratedComesThrough
  <2> SUFFICES ASSUME GenInd, origin # "file"
               PROVE  /\ phase # "failed" => EventsIn(windows) = total_events
                      /\ \A i, j \in 1 .. Len(windows) : i < j =>
                           /\ windows[i].slot <= windows[j].slot
                           /\ origin = "workload" => windows[i].end_ts < windows[j].start_ts
                      /\ \A i \in 1 .. Len(windows) :
                           Cardinality({j \in 1 .. Len(windows) :
                                          windows[j].slot = windows[i].slot}) <= PerSlot
    BY Zenon DEF GeneratedComesThrough, EventsIn
  <2>1. ReplayTypes /\ GenSnapshot /\ AllWritten
    BY DEF GenInd, ReplayInd
  <2>2. PICK d \in Nat : GenLines(snapshot, d)
    <3>1. PerSlot - 1 \in Nat /\ 0 \in Nat
      BY GeneratorAssumption
    <3> QED
      BY <2>1, <3>1 DEF GenSnapshot, ReplayTypes
  <2> DEFINE n == Len(windows)
  <2>3. n \in Nat
    BY <2>1 DEF ReplayTypes
  <2>4. \A k \in 1 .. n :
           /\ k \in 1 .. Len(snapshot) /\ windows[k].slot \in Nat /\ InSlot(windows[k].slot, k - 1 + d)
           /\ windows[k].start_ts = FirstTs(snapshot[k]) /\ windows[k].end_ts = LastTs(snapshot[k])
    BY <2>2, GeneratedWindows
  <2> HIDE DEF n
  <2>5. ASSUME NEW i \in 1 .. n, NEW j \in 1 .. n, i < j
        PROVE  windows[i].slot <= windows[j].slot
    <3>1. i - 1 + d \in Int /\ j - 1 + d \in Int /\ i - 1 + d <= j - 1 + d
      BY <2>2, <2>5
    <3> QED
      BY <2>4, <3>1, SlotsAscend
  <2>6. ASSUME NEW i \in 1 .. n, NEW j \in 1 .. n, i < j, origin = "workload"
        PROVE  windows[i].end_ts < windows[j].start_ts
    <3>1. GenTimes(snapshot, gen_ts)
      BY <2>1, <2>6 DEF GenSnapshot
    <3> QED
      BY <2>4, <2>6, <3>1 DEF GenTimes
  <2>7. ASSUME NEW i \in 1 .. n
        PROVE  Cardinality({j \in 1 .. n : windows[j].slot = windows[i].slot}) <= PerSlot
    <3> DEFINE J == {j \in 1 .. n : windows[j].slot = windows[i].slot}
               s == windows[i].slot
    <3>1. J \in SUBSET Nat
      BY <2>3
    <3>2. s \in Nat /\ \A j \in J : InSlot(s, j - 1 + d)
      BY <2>4
    <3> HIDE DEF J, s
    <3>3. Cardinality(J) <= PerSlot
      BY <2>2, <3>1, <3>2, SlotHolds
    <3> QED
      BY <3>3 DEF J
  <2>8. phase # "failed" => EventsIn(windows) = total_events
    BY <2>1 DEF AllWritten
  <2> QED
    BY <2>5, <2>6, <2>7, <2>8 DEF n
<1> QED
  BY <1>1, GenIndHolds, PTL
-------------------------------------------------------------------------------
(* The log: its lines and the windows read back *)

Pieces == (Nat \X {"start", "rest"}) \cup {Newline}

Body(w) == <<<<w, "start">>, <<w, "rest">>>>

PieceStep(F, g, s) == IF s = {} THEN <<<<>>>> ELSE NextPiece(g[s \ {Max(s)}], F[Max(s)])

PieceFold(F) == CHOOSE g : g = [s \in SUBSET DOMAIN F |-> PieceStep(F, g, s)]

\* Cutting a file into lines is the fold over its pieces.
LEMMA LinesIsFold == \A F : Lines(F) = PieceFold(F)[DOMAIN F]
  BY Zenon DEF Lines, FoldLeft, MapThenFoldSet, PieceFold, PieceStep

\* It satisfies the equation of a fold.
LEMMA PieceFolds ==
  ASSUME NEW F, NEW n \in Nat, DOMAIN F = 1 .. n
  PROVE  Folds("piece", <<<<>>>>, F, n, PieceFold(F))
<1>1. \A g, s : PieceStep(F, g, s) = FoldStep("piece", <<<<>>>>, F, g, s)
  BY DEF PieceStep, FoldStep, Apply
<1>2. PICK g : g = [s \in SUBSET (1 .. n) |-> FoldStep("piece", <<<<>>>>, F, g, s)]
  <2>1. Foldable("piece", <<<<>>>>, F, n)
    BY FoldSolved
  <2> QED
    BY <2>1, Zenon DEF Foldable
<1>3. g = [s \in SUBSET (1 .. n) |-> PieceStep(F, g, s)]
  BY <1>1, <1>2
<1> DEFINE f == PieceFold(F)
<1>4. f = [s \in SUBSET (1 .. n) |-> PieceStep(F, f, s)]
  BY <1>3 DEF PieceFold
<1> HIDE DEF f
<1>5. \A s \in SUBSET (1 .. n) : f[s] = PieceStep(F, f, s)
  BY <1>4
<1> QED
  BY <1>1, <1>5 DEF Folds, f

\* An empty file has one line, which is blank.
LEMMA LinesNone == Lines(<<>>) = <<<<>>>>
<1>1. DOMAIN <<>> = 1 .. 0
  OBVIOUS
<1>2. PieceFold(<<>>)[1 .. 0] = <<<<>>>>
  BY <1>1, PieceFolds, FoldNone
<1> QED
  BY <1>1, <1>2, LinesIsFold

\* A piece more.
LEMMA LinesMore ==
  ASSUME NEW F \in Seq(Pieces), NEW p \in Pieces
  PROVE  Lines(Append(F, p)) = NextPiece(Lines(F), p)
<1> DEFINE n == Len(F)
           more == Append(F, p)
<1>1. n \in Nat /\ DOMAIN F = 1 .. n /\ DOMAIN more = 1 .. n + 1 /\ n + 1 \in Nat
  OBVIOUS
<1>2. /\ Folds("piece", <<<<>>>>, F, n, PieceFold(F))
      /\ Folds("piece", <<<<>>>>, more, n + 1, PieceFold(more))
  <2> HIDE DEF n, more
  <2> QED
    BY <1>1, PieceFolds
<1>3. PieceFold(more)[1 .. n + 1] = Apply("piece", PieceFold(F)[1 .. n], p)
  BY <1>2, FoldAppend
<1> HIDE DEF n, more
<1>4. Lines(F) = PieceFold(F)[1 .. n] /\ Lines(more) = PieceFold(more)[1 .. n + 1]
  BY <1>1, LinesIsFold
<1>5. Lines(more) = NextPiece(Lines(F), p)
  BY <1>3, <1>4 DEF Apply
<1> QED
  BY <1>5 DEF more

ReadStep(L, g, s) == IF s = {} THEN <<>> ELSE NextLine(g[s \ {Max(s)}], L[Max(s)])

ReadFold(L) == CHOOSE g : g = [s \in SUBSET DOMAIN L |-> ReadStep(L, g, s)]

\* Reading is the fold over the lines.
LEMMA ReadIsFold == \A L : read_windows(L) = ReadFold(L)[DOMAIN L]
  BY Zenon DEF read_windows, FoldLeft, MapThenFoldSet, ReadFold, ReadStep

\* It satisfies the equation of a fold.
LEMMA ReadFolds ==
  ASSUME NEW L, NEW n \in Nat, DOMAIN L = 1 .. n
  PROVE  Folds("line", <<>>, L, n, ReadFold(L))
<1>1. \A g, s : ReadStep(L, g, s) = FoldStep("line", <<>>, L, g, s)
  BY DEF ReadStep, FoldStep, Apply
<1>2. PICK g : g = [s \in SUBSET (1 .. n) |-> FoldStep("line", <<>>, L, g, s)]
  <2>1. Foldable("line", <<>>, L, n)
    BY FoldSolved
  <2> QED
    BY <2>1, Zenon DEF Foldable
<1>3. g = [s \in SUBSET (1 .. n) |-> ReadStep(L, g, s)]
  BY <1>1, <1>2
<1> DEFINE f == ReadFold(L)
<1>4. f = [s \in SUBSET (1 .. n) |-> ReadStep(L, f, s)]
  BY <1>3 DEF ReadFold
<1> HIDE DEF f
<1>5. \A s \in SUBSET (1 .. n) : f[s] = ReadStep(L, f, s)
  BY <1>4
<1> QED
  BY <1>1, <1>5 DEF Folds, f

\* No line gives no window.
LEMMA ReadNone == read_windows(<<>>) = <<>>
<1>1. DOMAIN <<>> = 1 .. 0
  OBVIOUS
<1>2. ReadFold(<<>>)[1 .. 0] = <<>>
  BY <1>1, ReadFolds, FoldNone
<1> QED
  BY <1>1, <1>2, ReadIsFold

\* A line more.
LEMMA ReadMore ==
  ASSUME NEW X, NEW L \in Seq(X), NEW line \in X
  PROVE  read_windows(Append(L, line)) = NextLine(read_windows(L), line)
<1> DEFINE n == Len(L)
           more == Append(L, line)
<1>1. n \in Nat /\ DOMAIN L = 1 .. n /\ DOMAIN more = 1 .. n + 1 /\ n + 1 \in Nat
  OBVIOUS
<1>2. Folds("line", <<>>, L, n, ReadFold(L)) /\ Folds("line", <<>>, more, n + 1, ReadFold(more))
  <2> HIDE DEF n, more
  <2> QED
    BY <1>1, ReadFolds
<1>3. ReadFold(more)[1 .. n + 1] = Apply("line", ReadFold(L)[1 .. n], line)
  BY <1>2, FoldAppend
<1> HIDE DEF n, more
<1>4. read_windows(L) = ReadFold(L)[1 .. n] /\ read_windows(more) = ReadFold(more)[1 .. n + 1]
  BY <1>1, ReadIsFold
<1>5. read_windows(more) = NextLine(read_windows(L), line)
  BY <1>3, <1>4 DEF Apply
<1> QED
  BY <1>5 DEF more

\* One piece more extends the last line, or begins another.
LEMMA PieceAdds ==
  ASSUME NEW c \in Seq(Seq(Pieces)), NEW tip \in Seq(Pieces), NEW p \in Pieces
  PROVE  NextPiece(Append(c, tip), p) =
           IF p = Newline THEN Append(Append(c, tip), <<>>) ELSE Append(c, Append(tip, p))
<1> DEFINE L == Append(c, tip)
           n == Len(c)
           S == Seq(Pieces)
<1>1. CASE p = Newline
  BY <1>1 DEF NextPiece
<1>2. CASE p # Newline
  <2>1. Append(tip, p) \in S
    OBVIOUS
  <2> HIDE DEF S
  <2>2. /\ n \in Nat /\ L \in Seq(S) /\ Len(L) = n + 1 /\ L[n + 1] = tip
        /\ \A i \in 1 .. n : L[i] = c[i]
    BY DEF S
  <2>3. NextPiece(L, p) = [L EXCEPT ![n + 1] = Append(L[n + 1], p)]
    BY <1>2, <2>2 DEF NextPiece
  <2> DEFINE new == [L EXCEPT ![n + 1] = Append(L[n + 1], p)]
             want == Append(c, Append(tip, p))
  <2>4. /\ want \in Seq(S) /\ Len(want) = n + 1 /\ want[n + 1] = Append(tip, p)
        /\ \A i \in 1 .. n : want[i] = c[i]
    BY <2>1 DEF S
  <2> HIDE DEF L, n, want
  <2>5. DOMAIN L = 1 .. n + 1 /\ n + 1 \in 1 .. n + 1 /\ n \in Nat
    BY <2>2
  <2>6. DOMAIN new = 1 .. n + 1 /\ new[n + 1] = Append(tip, p) /\ \A i \in 1 .. n : new[i] = L[i]
    BY <2>2, <2>5
  <2> HIDE DEF new
  <2>7. new \in Seq(S) /\ Len(new) = n + 1
    <3>1. \A i \in 1 .. n + 1 : i \in 1 .. n \/ i = n + 1
      BY <2>5
    <3>2. \A i \in 1 .. n : i \in 1 .. n + 1
      BY <2>5
    <3>3. \A i \in 1 .. n + 1 : new[i] \in S
      <4>1. \A i \in 1 .. n + 1 : L[i] \in S
        BY <2>2, <2>5
      <4>2. \A i \in 1 .. n : new[i] \in S
        BY <2>6, <3>2, <4>1
      <4>3. new[n + 1] \in S
        BY <2>1, <2>6
      <4> QED
        BY <3>1, <4>2, <4>3
    <3>4. new = [i \in 1 .. n + 1 |-> new[i]]
      BY <2>5, <2>6 DEF new
    <3>5. new \in [1 .. n + 1 -> S]
      BY <3>3, <3>4
    <3>6. n + 1 \in Nat
      BY <2>5
    <3> QED
      BY <3>5, <3>6
  <2>8. \A i \in 1 .. n + 1 : new[i] = want[i]
    <3>1. \A i \in 1 .. n : new[i] = want[i]
      BY <2>2, <2>4, <2>6
    <3>2. new[n + 1] = want[n + 1]
      BY <2>4, <2>6
    <3>3. \A i \in 1 .. n + 1 : i \in 1 .. n \/ i = n + 1
      BY <2>5
    <3> QED
      BY <3>1, <3>2, <3>3
  <2>9. new = want
    BY <2>4, <2>7, <2>8
  <2> QED
    BY <1>2, <2>3, <2>9 DEF new, want, L
<1> QED
  BY <1>1, <1>2

\* The whole lines of a file, and what follows its last newline.
Whole(F) == Front(Lines(F))
Tip(F) == Last(Lines(F))

Parted(F) == /\ Whole(F) \in Seq(Seq(Pieces)) /\ Tip(F) \in Seq(Pieces)
             /\ Lines(F) = Append(Whole(F), Tip(F))

\* The parts of a sequence of lines that has one.
LEMMA Parts ==
  ASSUME NEW F, NEW c \in Seq(Seq(Pieces)), NEW tip \in Seq(Pieces), Lines(F) = Append(c, tip)
  PROVE  Parted(F) /\ Whole(F) = c /\ Tip(F) = tip
<1> DEFINE S == Seq(Pieces)
           L == Append(c, tip)
           n == Len(c)
<1>1. c \in Seq(S) /\ tip \in S
  OBVIOUS
<1> HIDE DEF S
<1>2. /\ n \in Nat /\ L \in Seq(S) /\ Len(L) = n + 1 /\ L[n + 1] = tip
      /\ \A i \in 1 .. n : L[i] = c[i]
  BY <1>1
<1> HIDE DEF L
<1>3. SubSeq(L, 1, n) \in Seq(S) /\ Len(SubSeq(L, 1, n)) = n
      /\ \A i \in 1 .. n : SubSeq(L, 1, n)[i] = L[i]
  BY <1>2
<1>4. SubSeq(L, 1, n) = c
  BY <1>1, <1>2, <1>3
<1>5. Len(L) - 1 = n
  BY <1>2
<1>6. Front(L) = c /\ Last(L) = tip
  BY <1>2, <1>4, <1>5 DEF Front, Last
<1>7. Whole(F) = c /\ Tip(F) = tip
  BY <1>6 DEF Whole, Tip, L
<1> QED
  BY <1>7 DEF Parted

\* The file with a piece more.
LEMMA PartedMore ==
  ASSUME NEW F \in Seq(Pieces), NEW p \in Pieces, Parted(F)
  PROVE  /\ Parted(Append(F, p))
         /\ p = Newline => Whole(Append(F, p)) = Append(Whole(F), Tip(F)) /\ Tip(Append(F, p)) = <<>>
         /\ p # Newline => Whole(Append(F, p)) = Whole(F) /\ Tip(Append(F, p)) = Append(Tip(F), p)
<1> DEFINE c == Whole(F)
           tip == Tip(F)
           more == Append(F, p)
<1>1. c \in Seq(Seq(Pieces)) /\ tip \in Seq(Pieces) /\ Lines(F) = Append(c, tip)
  BY DEF Parted
<1>2. Lines(more) = NextPiece(Append(c, tip), p)
  BY <1>1, LinesMore
<1> HIDE DEF c, tip, more
<1>3. CASE p = Newline
  <2>1. Lines(more) = Append(Append(c, tip), <<>>)
    BY <1>1, <1>2, <1>3, PieceAdds
  <2>2. Append(c, tip) \in Seq(Seq(Pieces)) /\ <<>> \in Seq(Pieces)
    BY <1>1
  <2>3. Parted(more) /\ Whole(more) = Append(c, tip) /\ Tip(more) = <<>>
    BY <2>1, <2>2, Parts
  <2> QED
    BY <1>3, <2>3 DEF more, c, tip
<1>4. CASE p # Newline
  <2>1. Lines(more) = Append(c, Append(tip, p))
    BY <1>1, <1>2, <1>4, PieceAdds
  <2>2. Append(tip, p) \in Seq(Pieces)
    BY <1>1
  <2>3. Parted(more) /\ Whole(more) = c /\ Tip(more) = Append(tip, p)
    BY <1>1, <2>1, <2>2, Parts
  <2> QED
    BY <1>4, <2>3 DEF more, c, tip
<1> QED
  BY <1>3, <1>4

\* The empty file.
LEMMA PartedNone == Parted(<<>>) /\ Whole(<<>>) = <<>> /\ Tip(<<>>) = <<>>
<1>1. Append(<<>>, <<>>) = <<<<>>>> /\ <<>> \in Seq(Seq(Pieces)) /\ <<>> \in Seq(Pieces)
  OBVIOUS
<1>2. Lines(<<>>) = Append(<<>>, <<>>)
  BY <1>1, LinesNone
<1> QED
  BY <1>1, <1>2, Parts

\* Every file has its whole lines and a tip.
LEMMA AllParted ==
  ASSUME NEW F \in Seq(Pieces)
  PROVE  Parted(F)
<1> DEFINE P == {m \in Nat : \A G \in Seq(Pieces) : Len(G) = m => Parted(G)}
<1>1. 0 \in P
  <2>1. \A G \in Seq(Pieces) : Len(G) = 0 => G = <<>>
    OBVIOUS
  <2> QED
    BY <2>1, PartedNone
<1>2. ASSUME NEW m \in Nat, m \in P PROVE m + 1 \in P
  <2> SUFFICES ASSUME NEW G \in Seq(Pieces), Len(G) = m + 1 PROVE Parted(G)
    OBVIOUS
  <2> DEFINE H == SubSeq(G, 1, m)
             p == G[m + 1]
  <2>1. H \in Seq(Pieces) /\ Len(H) = m /\ p \in Pieces /\ \A i \in 1 .. m : H[i] = G[i]
    OBVIOUS
  <2> HIDE DEF H, p
  <2>2. Append(H, p) \in Seq(Pieces) /\ Len(Append(H, p)) = m + 1 /\ Append(H, p)[m + 1] = p
        /\ \A i \in 1 .. m : Append(H, p)[i] = H[i]
    BY <2>1
  <2>3. \A i \in 1 .. m + 1 : i \in 1 .. m \/ i = m + 1
    OBVIOUS
  <2>4. \A i \in 1 .. m + 1 : Append(H, p)[i] = G[i]
    BY <2>1, <2>2, <2>3 DEF p
  <2>5. Append(H, p) = G
    BY <2>2, <2>4
  <2>6. Parted(H)
    BY <1>2, <2>1
  <2> QED
    BY <2>1, <2>5, <2>6, PartedMore
<1> HIDE DEF P
<1>3. Len(F) \in P
  <2>1. Len(F) \in Nat
    OBVIOUS
  <2> QED
    BY <1>1, <1>2, <2>1, SetInduction
<1> QED
  BY <1>3 DEF P

\* The first two of three pieces.
LEMMA FirstTwo ==
  ASSUME NEW a, NEW b, NEW c
  PROVE  SubSeq(<<a, b, c>>, 1, 2) = <<a, b>>
<1> DEFINE T == {a, b, c}
           s == <<a, b, c>>
           u == <<a, b>>
           v == SubSeq(s, 1, 2)
<1>1. s \in Seq(T) /\ Len(s) = 3 /\ s[1] = a /\ s[2] = b
  OBVIOUS
<1>2. u \in Seq(T) /\ Len(u) = 2 /\ u[1] = a /\ u[2] = b
  OBVIOUS
<1> HIDE DEF T, s, u
<1>3. v \in Seq(T) /\ Len(v) = 2 /\ v[1] = s[1] /\ v[2] = s[2]
  BY <1>1
<1> HIDE DEF v
<1>4. \A i \in 1 .. 2 : i = 1 \/ i = 2
  OBVIOUS
<1>5. \A i \in 1 .. 2 : v[i] = u[i]
  BY <1>1, <1>2, <1>3, <1>4
<1>6. v = u
  BY <1>2, <1>3, <1>5
<1> QED
  BY <1>6 DEF u, v, s

\* A line parses if it is what write_batch wrote of one window.
LEMMA ParsesBody ==
  /\ \A w : Parses(Body(w)) /\ Body(w)[1][1] = w
  /\ \A line : Parses(line) => Len(line) = 2 /\ line[2][2] = "rest"
  /\ ~Parses(<<>>)
<1>1. \A w : SubSeq(LineOf(w), 1, 2) = Body(w)
  BY FirstTwo DEF LineOf, Body
<1>2. \A w : Body(w)[1][1] = w /\ Len(Body(w)) = 2 /\ Body(w)[2][2] = "rest"
  BY DEF Body
<1>3. \A line : Parses(line) <=> Len(line) = 2 /\ line = Body(line[1][1])
  BY <1>1 DEF Parses
<1>4. \A w : Parses(Body(w))
  BY <1>2, <1>3
<1>5. \A line : Parses(line) => Len(line) = 2 /\ line[2][2] = "rest"
  BY <1>2, <1>3
<1>6. Len(<<>>) # 2
  OBVIOUS
<1> QED
  BY <1>2, <1>3, <1>4, <1>5, <1>6

\* Windows read are named by numbers.
LEMMA ReadTypes ==
  ASSUME NEW L \in Seq(Seq(Pieces))
  PROVE  read_windows(L) \in Seq(Nat)
<1> DEFINE S == Seq(Pieces)
           P == {m \in Nat : \A M \in Seq(S) : Len(M) = m => read_windows(M) \in Seq(Nat)}
<1>1. 0 \in P
  <2>1. \A M \in Seq(S) : Len(M) = 0 => M = <<>>
    OBVIOUS
  <2>2. <<>> \in Seq(Nat)
    OBVIOUS
  <2> QED
    BY <2>1, <2>2, ReadNone
<1>2. ASSUME NEW line \in S, Parses(line) PROVE line[1][1] \in Nat
  <2>1. Len(line) = 2
    BY <1>2, ParsesBody
  <2>2. 1 \in 1 .. Len(line) /\ line \in Seq(Pieces)
    BY <2>1
  <2>3. line[1] \in Pieces
    BY <2>2
  <2> QED
    BY <2>3 DEF Pieces, Newline
<1> HIDE DEF S
<1>3. ASSUME NEW m \in Nat, m \in P PROVE m + 1 \in P
  <2> SUFFICES ASSUME NEW M \in Seq(S), Len(M) = m + 1 PROVE read_windows(M) \in Seq(Nat)
    OBVIOUS
  <2> DEFINE H == SubSeq(M, 1, m)
             line == M[m + 1]
  <2>1. H \in Seq(S) /\ Len(H) = m /\ line \in S /\ \A i \in 1 .. m : H[i] = M[i]
    OBVIOUS
  <2> HIDE DEF H, line
  <2>2. Append(H, line) \in Seq(S) /\ Len(Append(H, line)) = m + 1 /\ Append(H, line)[m + 1] = line
        /\ \A i \in 1 .. m : Append(H, line)[i] = H[i]
    BY <2>1
  <2>3. \A i \in 1 .. m + 1 : i \in 1 .. m \/ i = m + 1
    OBVIOUS
  <2>4. \A i \in 1 .. m + 1 : Append(H, line)[i] = M[i]
    BY <2>1, <2>2, <2>3 DEF line
  <2>5. Append(H, line) = M
    BY <2>2, <2>4
  <2>6. read_windows(H) \in Seq(Nat)
    BY <1>3, <2>1
  <2>7. read_windows(M) = NextLine(read_windows(H), line)
    BY <2>1, <2>5, ReadMore
  <2>8. CASE Parses(line)
    <3>1. line[1][1] \in Nat
      BY <1>2, <2>1, <2>8
    <3> QED
      BY <2>6, <2>7, <2>8, <3>1 DEF NextLine
  <2>9. CASE ~Parses(line)
    BY <2>6, <2>7, <2>9 DEF NextLine
  <2> QED
    BY <2>8, <2>9
<1> HIDE DEF P
<1>4. Len(L) \in P
  <2>1. Len(L) \in Nat
    OBVIOUS
  <2> QED
    BY <1>1, <1>3, <2>1, SetInduction
<1> QED
  BY <1>4 DEF P, S

\* The windows read of the whole file, and of its whole lines only.
Back(F) == read_windows(Lines(F))
OfWhole(F) == read_windows(Whole(F))

\* The tip gives a window only if it parses.
LEMMA TipReads ==
  ASSUME NEW F \in Seq(Pieces)
  PROVE  /\ Back(F) = NextLine(OfWhole(F), Tip(F))
         /\ Back(F) \in Seq(Nat) /\ OfWhole(F) \in Seq(Nat)
         /\ Tip(F) = <<>> => Back(F) = OfWhole(F)
<1> DEFINE S == Seq(Pieces)
<1>1. Whole(F) \in Seq(S) /\ Tip(F) \in S /\ Lines(F) = Append(Whole(F), Tip(F))
  BY AllParted DEF Parted
<1>2. Lines(F) \in Seq(S)
  <2> HIDE DEF S
  <2> QED
    BY <1>1
<1>3. Back(F) \in Seq(Nat) /\ OfWhole(F) \in Seq(Nat)
  BY <1>1, <1>2, ReadTypes DEF Back, OfWhole
<1>4. Back(F) = NextLine(OfWhole(F), Tip(F))
  <2> HIDE DEF S
  <2> QED
    BY <1>1, ReadMore DEF Back, OfWhole
<1>5. Tip(F) = <<>> => Back(F) = OfWhole(F)
  BY <1>4, ParsesBody DEF NextLine
<1> QED
  BY <1>3, <1>4, <1>5

\* How often a window is in what was read.
PlacesOf(out, w) == {n \in 1 .. Len(out) : out[n] = w}
Copies(out, w) == Cardinality(PlacesOf(out, w))

\* A copy more.
LEMMA CopiesMore ==
  ASSUME NEW out \in Seq(Nat), NEW x \in Nat, NEW w
  PROVE  /\ Copies(out, w) \in Nat
         /\ Copies(Append(out, x), w) = IF x = w THEN Copies(out, w) + 1 ELSE Copies(out, w)
<1> DEFINE n == Len(out)
           new == Append(out, x)
           A == PlacesOf(out, w)
           B == PlacesOf(new, w)
<1>1. /\ n \in Nat /\ Len(new) = n + 1 /\ new[n + 1] = x
      /\ \A i \in 1 .. n : new[i] = out[i]
  OBVIOUS
<1> HIDE DEF new
<1>2. \A i \in 1 .. n + 1 : i \in 1 .. n \/ i = n + 1
  BY <1>1
<1>3. n + 1 \in 1 .. n + 1 /\ n + 1 \notin 1 .. n /\ \A i \in 1 .. n : i \in 1 .. n + 1
  BY <1>1
<1>4. A = {i \in 1 .. n : out[i] = w} /\ B = {i \in 1 .. n + 1 : new[i] = w}
  BY <1>1 DEF PlacesOf
<1> HIDE DEF n, A, B
<1>5. n + 1 \notin A /\ B = IF x = w THEN A \cup {n + 1} ELSE A
  BY <1>1, <1>2, <1>3, <1>4
<1>6. IsFiniteSet(A)
  <2>1. IsFiniteSet(1 .. n)
    BY <1>1, FS_Interval
  <2>2. A \subseteq 1 .. n
    BY <1>4
  <2> QED
    BY <2>1, <2>2, FS_Subset
<1>7. Cardinality(A) \in Nat /\ Cardinality(A \cup {n + 1}) = Cardinality(A) + 1
  BY <1>5, <1>6, FS_CardinalityType, FS_AddElement
<1>8. Cardinality(B) = IF x = w THEN Cardinality(A) + 1 ELSE Cardinality(A)
  BY <1>5, <1>7
<1> QED
  BY <1>7, <1>8 DEF A, B, new, Copies

\* The lines that are not blank and do not parse.
BadOf(c) == {n \in 1 .. Len(c) : c[n] # <<>> /\ ~Parses(c[n])}

\* A line more.
LEMMA BadMore ==
  ASSUME NEW c \in Seq(Seq(Pieces)), NEW x \in Seq(Pieces)
  PROVE  /\ IsFiniteSet(BadOf(c)) /\ Cardinality(BadOf(c)) \in Nat
         /\ BadOf(Append(c, x)) =
              IF x # <<>> /\ ~Parses(x) THEN BadOf(c) \cup {Len(c) + 1} ELSE BadOf(c)
         /\ Cardinality(BadOf(Append(c, x))) =
              IF x # <<>> /\ ~Parses(x) THEN Cardinality(BadOf(c)) + 1 ELSE Cardinality(BadOf(c))
<1> DEFINE S == Seq(Pieces)
           n == Len(c)
           new == Append(c, x)
           A == BadOf(c)
           B == BadOf(new)
<1>0. c \in Seq(S) /\ x \in S
  OBVIOUS
<1> HIDE DEF S
<1>1. /\ n \in Nat /\ Len(new) = n + 1 /\ new[n + 1] = x
      /\ \A i \in 1 .. n : new[i] = c[i]
  BY <1>0
<1> HIDE DEF new
<1>2. \A i \in 1 .. n + 1 : i \in 1 .. n \/ i = n + 1
  BY <1>1
<1>3. n + 1 \in 1 .. n + 1 /\ n + 1 \notin 1 .. n /\ \A i \in 1 .. n : i \in 1 .. n + 1
  BY <1>1
<1>4. /\ A = {i \in 1 .. n : c[i] # <<>> /\ ~Parses(c[i])}
      /\ B = {i \in 1 .. n + 1 : new[i] # <<>> /\ ~Parses(new[i])}
  BY <1>1 DEF BadOf
<1> HIDE DEF A, B
<1>5. n + 1 \notin A /\ B = IF x # <<>> /\ ~Parses(x) THEN A \cup {n + 1} ELSE A
  <2> HIDE DEF n
  <2> QED
    BY <1>1, <1>2, <1>3, <1>4
<1>6. IsFiniteSet(A)
  <2>1. IsFiniteSet(1 .. n)
    BY <1>1, FS_Interval
  <2>2. A \subseteq 1 .. n
    BY <1>4
  <2> QED
    BY <2>1, <2>2, FS_Subset
<1>7. Cardinality(A) \in Nat /\ Cardinality(A \cup {n + 1}) = Cardinality(A) + 1
  BY <1>5, <1>6, FS_CardinalityType, FS_AddElement
<1>8. Cardinality(B) = IF x # <<>> /\ ~Parses(x) THEN Cardinality(A) + 1 ELSE Cardinality(A)
  BY <1>5, <1>7
<1> QED
  BY <1>5, <1>6, <1>7, <1>8 DEF A, B, new

\* The members of a sequence with one more.
LEMMA MembersMore ==
  ASSUME NEW X, NEW s \in Seq(X), NEW x \in X
  PROVE  ToSet(Append(s, x)) = ToSet(s) \cup {x}
<1> DEFINE n == Len(s)
           t == Append(s, x)
<1>1. /\ n \in Nat /\ DOMAIN s = 1 .. n /\ DOMAIN t = 1 .. n + 1 /\ t[n + 1] = x
      /\ \A i \in 1 .. n : t[i] = s[i]
  OBVIOUS
<1> HIDE DEF n, t
<1>2. /\ \A i \in 1 .. n + 1 : i \in 1 .. n \/ i = n + 1
      /\ \A i \in 1 .. n : i \in 1 .. n + 1
      /\ n + 1 \in 1 .. n + 1
  BY <1>1
<1>3. {t[i] : i \in 1 .. n + 1} = {s[i] : i \in 1 .. n} \cup {x}
  BY <1>1, <1>2
<1> QED
  BY <1>1, <1>3 DEF ToSet, t

\* A window is on a whole line of its own, or it is one that may have been appended
\* to a torn line, and there is a bad line.
Landed(F, e, w) == w \in ToSet(OfWhole(F)) \/ (w \in e /\ BadOf(Whole(F)) # {})

\* A whole line more takes nothing away.
LEMMA WholeMore ==
  ASSUME NEW F \in Seq(Pieces), NEW G \in Seq(Pieces), NEW x \in Seq(Pieces),
         Whole(G) = Append(Whole(F), x)
  PROVE  /\ OfWhole(G) = NextLine(OfWhole(F), x)
         /\ ToSet(OfWhole(F)) \subseteq ToSet(OfWhole(G))
         /\ BadOf(Whole(F)) \subseteq BadOf(Whole(G))
         /\ \A e, w : Landed(F, e, w) => Landed(G, e, w)
<1> DEFINE S == Seq(Pieces)
<1>1. Whole(F) \in Seq(S) /\ Whole(G) \in Seq(S)
  BY AllParted DEF Parted
<1>2. OfWhole(F) \in Seq(Nat) /\ OfWhole(G) \in Seq(Nat)
  BY TipReads
<1>3. OfWhole(G) = NextLine(OfWhole(F), x)
  <2>1. x \in S
    OBVIOUS
  <2> HIDE DEF S
  <2> QED
    BY <1>1, <2>1, ReadMore DEF OfWhole
<1>4. ToSet(OfWhole(F)) \subseteq ToSet(OfWhole(G))
  <2>1. CASE Parses(x)
    <3> DEFINE a == OfWhole(F)
               id == x[1][1]
               T == Nat \cup {id}
    <3>1. OfWhole(G) = Append(a, id)
      BY <1>3, <2>1 DEF NextLine
    <3>2. a \in Seq(T) /\ id \in T
      BY <1>2
    <3> HIDE DEF a, id, T
    <3>3. ToSet(Append(a, id)) = ToSet(a) \cup {id}
      BY <3>2, MembersMore
    <3> QED
      BY <3>1, <3>3 DEF a
  <2>2. CASE ~Parses(x)
    BY <1>3, <2>2 DEF NextLine
  <2> QED
    BY <2>1, <2>2
<1>5. BadOf(Whole(F)) \subseteq BadOf(Whole(G))
  BY <1>1, BadMore
<1>6. \A e, w : Landed(F, e, w) => Landed(G, e, w)
  BY <1>4, <1>5 DEF Landed
<1> QED
  BY <1>3, <1>4, <1>5, <1>6

\* A piece more takes no window away that has landed.
LEMMA LandedStays ==
  ASSUME NEW F \in Seq(Pieces), NEW p \in Pieces, NEW e, NEW w, Landed(F, e, w)
  PROVE  Landed(Append(F, p), e, w)
<1> DEFINE G == Append(F, p)
<1>1. G \in Seq(Pieces) /\ Parted(F)
  BY AllParted
<1>2. CASE p = Newline
  <2>1. Whole(G) = Append(Whole(F), Tip(F)) /\ Tip(F) \in Seq(Pieces)
    BY <1>1, <1>2, PartedMore DEF Parted
  <2> HIDE DEF G
  <2>2. Landed(G, e, w)
    BY <1>1, <2>1, WholeMore
  <2> QED
    BY <2>2 DEF G
<1>3. CASE p # Newline
  <2>1. Whole(G) = Whole(F)
    BY <1>1, <1>3, PartedMore
  <2> HIDE DEF G
  <2>2. Landed(G, e, w)
    BY <2>1 DEF Landed, OfWhole
  <2> QED
    BY <2>2 DEF G
<1> QED
  BY <1>2, <1>3

Start(w) == <<w, "start">>
Rest(w) == <<w, "rest">>

\* The file F as the pieces of window w are added one after the other.
Adds(F, w, F1, F2, F3) ==
  F1 = Append(F, Start(w)) /\ F2 = Append(F1, Rest(w)) /\ F3 = Append(F2, Newline)

\* The pieces of a window one after the other.
LEMMA LinePieces ==
  ASSUME NEW F \in Seq(Pieces), NEW w \in Nat, NEW F1, NEW F2, NEW F3, Adds(F, w, F1, F2, F3)
  PROVE  /\ F1 \in Seq(Pieces) /\ F2 \in Seq(Pieces) /\ F3 \in Seq(Pieces)
         /\ Whole(F1) = Whole(F) /\ Tip(F1) = Append(Tip(F), Start(w))
         /\ Whole(F2) = Whole(F) /\ Tip(F2) = Append(Tip(F1), Rest(w))
         /\ Whole(F3) = Append(Whole(F), Tip(F2)) /\ Tip(F3) = <<>>
<1>0. F1 = Append(F, Start(w)) /\ F2 = Append(F1, Rest(w)) /\ F3 = Append(F2, Newline)
  BY DEF Adds
<1>1. /\ Start(w) \in Pieces /\ Rest(w) \in Pieces /\ Newline \in Pieces
      /\ Start(w) # Newline /\ Rest(w) # Newline
  BY DEF Pieces, Start, Rest, Newline
<1>2. F1 \in Seq(Pieces)
  BY <1>0, <1>1
<1>3. F2 \in Seq(Pieces)
  BY <1>0, <1>1, <1>2
<1>4. F3 \in Seq(Pieces)
  BY <1>0, <1>1, <1>3
<1>5. Whole(F1) = Whole(F) /\ Tip(F1) = Append(Tip(F), Start(w))
  BY <1>0, <1>1, AllParted, PartedMore
<1>6. Whole(F2) = Whole(F1) /\ Tip(F2) = Append(Tip(F1), Rest(w))
  BY <1>0, <1>1, <1>2, AllParted, PartedMore
<1>7. Whole(F3) = Append(Whole(F2), Tip(F2)) /\ Tip(F3) = <<>>
  BY <1>0, <1>1, <1>3, AllParted, PartedMore
<1> QED
  BY <1>2, <1>3, <1>4, <1>5, <1>6, <1>7

\* Two pieces appended to none.
LEMMA TwoAppended == \A a, b : Append(Append(<<>>, a), b) = <<a, b>>
<1>1. \A a : Append(<<>>, a) = <<a>>
  OBVIOUS
<1>2. ASSUME NEW a, NEW b PROVE Append(<<a>>, b) = <<a, b>>
  <2> DEFINE T == {a, b}
             s == <<a>>
             u == <<a, b>>
             v == Append(s, b)
  <2>1. s \in Seq(T) /\ Len(s) = 1 /\ s[1] = a /\ b \in T
    OBVIOUS
  <2>2. u \in Seq(T) /\ Len(u) = 2 /\ u[1] = a /\ u[2] = b
    OBVIOUS
  <2> HIDE DEF T, s, u
  <2>3. v \in Seq(T) /\ Len(v) = 2 /\ v[1] = a /\ v[2] = b
    <3> DEFINE n == Len(s)
    <3>1. /\ v \in Seq(T) /\ Len(v) = n + 1 /\ v[n + 1] = b
          /\ \A i \in 1 .. n : v[i] = s[i]
      BY <2>1
    <3>2. n = 1
      BY <2>1
    <3>3. n + 1 = 2 /\ 1 \in 1 .. n
      BY <3>2
    <3> HIDE DEF n, v
    <3> QED
      BY <2>1, <3>1, <3>3
  <2> HIDE DEF v
  <2>4. \A i \in 1 .. 2 : i = 1 \/ i = 2
    OBVIOUS
  <2>5. \A i \in 1 .. 2 : v[i] = u[i]
    BY <2>2, <2>3, <2>4
  <2>6. v = u
    BY <2>2, <2>3, <2>5
  <2> QED
    BY <2>6 DEF u, v, s
<1> QED
  BY <1>1, <1>2

\* A tip with the pieces of a window: it parses only if it was blank.
LEMMA TipWithBody ==
  ASSUME NEW tip \in Seq(Pieces), NEW w \in Nat, NEW t1, t1 = Append(tip, Start(w)),
         NEW t2, t2 = Append(t1, Rest(w))
  PROVE  /\ t2 \in Seq(Pieces) /\ t2 # <<>> /\ ~Parses(t1)
         /\ tip = <<>> => Parses(t2) /\ t2 = Body(w)
         /\ tip # <<>> => ~Parses(t2)
<1>1. Start(w) \in Pieces /\ Rest(w) \in Pieces
  BY DEF Pieces, Start, Rest
<1> DEFINE n == Len(tip)
<1>2. /\ n \in Nat /\ t1 \in Seq(Pieces) /\ Len(t1) = n + 1 /\ t1[n + 1] = Start(w)
      /\ (tip = <<>> <=> n = 0)
  BY <1>1
<1>3. t2 \in Seq(Pieces) /\ Len(t2) = n + 1 + 1
  BY <1>1, <1>2
<1>4. t2 # <<>>
  BY <1>2, <1>3
<1> HIDE DEF n
<1>5. ~Parses(t1)
  <2> SUFFICES ASSUME Parses(t1) PROVE FALSE
    OBVIOUS
  <2>1. Len(t1) = 2 /\ t1[2][2] = "rest"
    BY ParsesBody
  <2>2. n + 1 = 2
    BY <1>2, <2>1
  <2>3. t1[2] = Start(w)
    BY <1>2, <2>2
  <2> QED
    BY <2>1, <2>3 DEF Start
<1>6. ASSUME tip = <<>> PROVE Parses(t2) /\ t2 = Body(w)
  <2>1. t2 = Append(Append(<<>>, Start(w)), Rest(w))
    BY <1>6
  <2>2. t2 = Body(w)
    BY <2>1, TwoAppended DEF Body, Start, Rest
  <2> QED
    BY <2>2, ParsesBody
<1>7. ASSUME tip # <<>> PROVE ~Parses(t2)
  <2>1. Len(t2) # 2
    BY <1>2, <1>3, <1>7
  <2> QED
    BY <2>1, ParsesBody
<1> QED
  BY <1>3, <1>4, <1>5, <1>6, <1>7

Torn(F) == IF Tip(F) = <<>> THEN 0 ELSE 1
BadCount(F) == Cardinality(BadOf(Whole(F)))
More(u, w) == IF u = w THEN 1 ELSE 0

\* What the pieces of a window do to a file: they make a torn tip a bad line and
\* otherwise add a line of the window's own.
LEMMA LineWritten ==
  ASSUME NEW F \in Seq(Pieces), NEW w \in Nat, NEW F1, NEW F2, NEW F3, Adds(F, w, F1, F2, F3)
  PROVE  /\ BadCount(F) \in Nat /\ BadCount(F1) = BadCount(F) /\ BadCount(F2) = BadCount(F)
         /\ BadCount(F3) = BadCount(F) + Torn(F) /\ Torn(F3) = 0 /\ Tip(F3) = <<>>
         /\ \A G \in {F1, F2, F3} : \A u \in Nat :
              Copies(Back(G), u) <= Copies(Back(F), u) + More(u, w)
         /\ \A e, u : Landed(F, e, u) => Landed(F3, e, u)
         /\ \A e : (Tip(F) = <<>> \/ w \in e) => Landed(F3, e, w)
         /\ Tip(F) = <<>> => Back(F3) = Append(Back(F), w)
<1> DEFINE S == Seq(Pieces)
           c == Whole(F)
           tip == Tip(F)
           t2 == Tip(F2)
           out == OfWhole(F)
<1>1. /\ F1 \in Seq(Pieces) /\ F2 \in Seq(Pieces) /\ F3 \in Seq(Pieces)
      /\ Whole(F1) = c /\ Tip(F1) = Append(tip, Start(w))
      /\ Whole(F2) = c /\ t2 = Append(Tip(F1), Rest(w))
      /\ Whole(F3) = Append(c, t2) /\ Tip(F3) = <<>>
  BY LinePieces
<1>2. c \in Seq(S) /\ tip \in S
  BY AllParted DEF Parted
<1>3. /\ t2 \in S /\ t2 # <<>> /\ ~Parses(Tip(F1))
      /\ tip = <<>> => Parses(t2) /\ t2 = Body(w)
      /\ tip # <<>> => ~Parses(t2)
  <2> HIDE DEF c, tip, t2
  <2> QED
    BY <1>1, <1>2, TipWithBody
<1>4. out \in Seq(Nat) /\ Back(F) \in Seq(Nat) /\ Back(F) = NextLine(out, tip)
      /\ (tip = <<>> => Back(F) = out)
  BY TipReads
<1>5. OfWhole(F1) = out /\ OfWhole(F2) = out
  BY <1>1 DEF OfWhole
<1>6. OfWhole(F3) = NextLine(out, t2) /\ \A e, u : Landed(F, e, u) => Landed(F3, e, u)
  BY <1>1, <1>3, WholeMore
<1>7. /\ Back(F1) = NextLine(out, Tip(F1)) /\ Back(F2) = NextLine(out, t2)
      /\ Back(F3) = OfWhole(F3)
  BY <1>1, <1>5, TipReads
<1>8. Back(F1) = out /\ Back(F2) = NextLine(out, t2) /\ Back(F3) = NextLine(out, t2)
  BY <1>3, <1>6, <1>7 DEF NextLine
<1>9. NextLine(out, t2) = IF tip = <<>> THEN Append(out, w) ELSE out
  BY <1>3, ParsesBody DEF NextLine
<1>10. /\ BadCount(F) \in Nat /\ BadCount(F1) = BadCount(F) /\ BadCount(F2) = BadCount(F)
       /\ BadCount(F3) = BadCount(F) + Torn(F) /\ Torn(F3) = 0
  <2>1. IsFiniteSet(BadOf(c)) /\ Cardinality(BadOf(c)) \in Nat
    BY <1>2, <1>3, BadMore
  <2>2. Cardinality(BadOf(Append(c, t2))) =
          IF t2 # <<>> /\ ~Parses(t2) THEN Cardinality(BadOf(c)) + 1 ELSE Cardinality(BadOf(c))
    BY <1>2, <1>3, BadMore
  <2>3. BadCount(F) = Cardinality(BadOf(c)) /\ BadCount(F3) = Cardinality(BadOf(Append(c, t2)))
    BY <1>1 DEF BadCount
  <2>4. BadCount(F1) = BadCount(F) /\ BadCount(F2) = BadCount(F)
    BY <1>1 DEF BadCount
  <2>5. Torn(F3) = 0 /\ Torn(F) = IF tip = <<>> THEN 0 ELSE 1
    BY <1>1 DEF Torn
  <2> HIDE DEF c, t2, tip
  <2> QED
    BY <1>3, <2>1, <2>2, <2>3, <2>4, <2>5
<1>11. ASSUME NEW u \in Nat
       PROVE  /\ Copies(out, u) \in Nat /\ Copies(Back(F), u) \in Nat
              /\ Copies(out, u) <= Copies(Back(F), u)
              /\ Copies(Append(out, w), u) = Copies(out, u) + More(u, w)
  <2>1. Copies(out, u) \in Nat /\ Copies(Back(F), u) \in Nat
    BY <1>4, CopiesMore
  <2>2. Copies(Append(out, w), u) = Copies(out, u) + More(u, w)
    BY <1>4, <2>1, CopiesMore DEF More
  <2>3. Copies(out, u) <= Copies(Back(F), u)
    <3>1. CASE Parses(tip)
      <4> DEFINE id == tip[1][1]
      <4>1. Back(F) = Append(out, id)
        BY <1>4, <3>1 DEF NextLine
      <4>2. id \in Nat
        <5>1. 1 \in 1 .. Len(tip) /\ tip \in Seq(Pieces)
          BY <1>2, <3>1, ParsesBody
        <5>2. tip[1] \in Pieces
          BY <5>1
        <5> QED
          BY <5>2 DEF Pieces, Newline
      <4> HIDE DEF id
      <4>3. Copies(Append(out, id), u) = IF id = u THEN Copies(out, u) + 1 ELSE Copies(out, u)
        BY <1>4, <4>2, CopiesMore
      <4> QED
        BY <2>1, <4>1, <4>3
    <3>2. CASE ~Parses(tip)
      BY <1>4, <2>1, <3>2 DEF NextLine
    <3> QED
      BY <3>1, <3>2
  <2> QED
    BY <2>1, <2>2, <2>3
<1>12. ASSUME NEW G \in {F1, F2, F3}, NEW u \in Nat
       PROVE  Copies(Back(G), u) <= Copies(Back(F), u) + More(u, w)
  <2>1. Back(G) = out \/ Back(G) = Append(out, w)
    BY <1>8, <1>9
  <2>2. More(u, w) \in {0, 1}
    BY DEF More
  <2>3. Copies(Back(G), u) = Copies(out, u) \/ Copies(Back(G), u) = Copies(out, u) + More(u, w)
    BY <1>11, <2>1
  <2> DEFINE a == Copies(out, u)
             b == Copies(Back(F), u)
             d == Copies(Back(G), u)
             m == More(u, w)
  <2>4. a \in Nat /\ b \in Nat /\ a <= b /\ m \in {0, 1} /\ (d = a \/ d = a + m)
    BY <1>11, <2>2, <2>3
  <2> HIDE DEF a, b, d, m
  <2>5. d <= b + m
    BY <2>4
  <2> QED
    BY <2>5 DEF b, d, m
<1>13. ASSUME NEW e, tip = <<>> \/ w \in e PROVE Landed(F3, e, w)
  <2>1. CASE tip = <<>>
    <3>1. OfWhole(F3) = Append(out, w)
      BY <1>6, <1>9, <2>1
    <3>2. w \in ToSet(Append(out, w))
      <4>1. out \in Seq(Nat)
        BY <1>4
      <4> HIDE DEF out
      <4>2. ToSet(Append(out, w)) = ToSet(out) \cup {w}
        BY <4>1, MembersMore
      <4> QED
        BY <4>2
    <3> QED
      BY <3>1, <3>2 DEF Landed
  <2>2. CASE tip # <<>>
    <3>1. BadOf(Append(c, t2)) = BadOf(c) \cup {Len(c) + 1}
      BY <1>2, <1>3, <2>2, BadMore
    <3>2. BadOf(Whole(F3)) # {}
      BY <1>1, <3>1
    <3> QED
      BY <1>13, <2>2, <3>2 DEF Landed
  <2> QED
    BY <2>1, <2>2
<1>14. tip = <<>> => Back(F3) = Append(Back(F), w)
  BY <1>4, <1>8, <1>9
<1> QED
  BY <1>1, <1>6, <1>10, <1>12, <1>13, <1>14

-------------------------------------------------------------------------------
(* The log: its inductive invariant *)

\* The file as it will be once the BufWriter has handed over all it holds.
All == file \o buffered

Att(a, w) == IF w \in DOMAIN a THEN a[w] ELSE 0

\* A file F with at most m bad lines and no window in it more often than tried.
Harm(F, m, a) == BadCount(F) <= m /\ \A u \in Nat : Copies(Back(F), u) <= Att(a, u)

\* The windows of a batch are the last ones taken.
LogTypes ==
  /\ file \in Seq(Pieces) /\ buffered \in Seq(Pieces)
  /\ batch \in Seq(Nat) /\ written \in 0 .. Len(batch)
  /\ taken \in Nat /\ taken <= Len(windows) /\ Len(batch) <= taken
  /\ \A i \in 1 .. Len(batch) : batch[i] = taken - Len(batch) + i
  /\ batch = <<>> => buffered = <<>>
  /\ faults \in Nat
  /\ DOMAIN attempts \subseteq 1 .. Len(windows)
  /\ \A w \in DOMAIN attempts : attempts[w] \in Nat

\* Wherever the BufWriter is interrupted, the file is sound.
Contained == \A m \in Len(file) .. Len(All) : Harm(SubSeq(All, 1, m), faults, attempts)

\* A torn tip was not yet counted as a bad line.
TornCounted == BadCount(All) + Torn(All) <= faults

\* A window that is still to be written has an attempt left.
Owed == \A i \in written + 1 .. Len(batch) :
          Copies(Back(All), batch[i]) + 1 <= Att(attempts, batch[i])

AckedLanded == \A w \in acked : Landed(file, exposed, w) /\ Landed(All, exposed, w)

\* Only the first window of a batch can meet a torn tip.
BatchLanded ==
  /\ \A i \in 1 .. written : Landed(All, exposed, batch[i])
  /\ batch # <<>> /\ Tip(All) # <<>> => written = 0 /\ batch[1] \in exposed

InOrder ==
  faults = 0 => /\ Back(All) = [w \in 1 .. taken - Len(batch) + written |-> w]
                /\ acked = 1 .. taken - Len(batch)

LogCore == Contained /\ TornCounted /\ Owed /\ AckedLanded /\ BatchLanded /\ InOrder

LogInd == LogTypes /\ LogCore

\* The numbers that the invariant compares.
LEMMA LogNumbers ==
  ASSUME NEW F \in Seq(Pieces)
  PROVE  /\ BadCount(F) \in Nat /\ Torn(F) \in {0, 1} /\ \A u \in Nat : Copies(Back(F), u) \in Nat
<1>1. Whole(F) \in Seq(Seq(Pieces)) /\ Tip(F) \in Seq(Pieces)
  BY AllParted DEF Parted
<1>2. BadCount(F) \in Nat
  BY <1>1, BadMore DEF BadCount
<1>3. Back(F) \in Seq(Nat)
  BY TipReads
<1>4. \A u \in Nat : Copies(Back(F), u) \in Nat
  BY <1>3, CopiesMore
<1> QED
  BY <1>2, <1>4 DEF Torn

\* The longest prefix of a sequence.
LEMMA AllOfIt ==
  ASSUME NEW X, NEW s \in Seq(X)
  PROVE  SubSeq(s, 1, Len(s)) = s
<1> DEFINE u == SubSeq(s, 1, Len(s))
<1>1. u \in Seq(X) /\ Len(u) = Len(s) /\ \A i \in 1 .. Len(s) : u[i] = s[i]
  OBVIOUS
<1> HIDE DEF u
<1>2. u = s
  BY <1>1
<1> QED
  BY <1>2 DEF u

\* The prefixes of a sequence with an element more.
LEMMA PrefixMore ==
  ASSUME NEW X, NEW s \in Seq(X), NEW x \in X, NEW m \in 0 .. Len(s) + 1
  PROVE  SubSeq(Append(s, x), 1, m) = IF m = Len(s) + 1 THEN Append(s, x) ELSE SubSeq(s, 1, m)
<1> DEFINE n == Len(s)
           t == Append(s, x)
           u == SubSeq(t, 1, m)
           v == SubSeq(s, 1, m)
<1>1. n \in Nat /\ t \in Seq(X) /\ Len(t) = n + 1 /\ \A i \in 1 .. n : t[i] = s[i]
  OBVIOUS
<1> HIDE DEF t
<1>2. CASE m = n + 1
  BY <1>1, <1>2, AllOfIt DEF t
<1>3. CASE m # n + 1
  <2>1. m \in 0 .. n
    BY <1>1, <1>3
  <2>2. v \in Seq(X) /\ Len(v) = m /\ \A i \in 1 .. m : v[i] = s[i]
    BY <2>1
  <2> HIDE DEF n
  <2>3. u \in Seq(X) /\ Len(u) = m /\ \A i \in 1 .. m : u[i] = t[i]
    BY <1>1, <2>1
  <2>4. \A i \in 1 .. m : i \in 1 .. n
    BY <1>1, <2>1
  <2>5. \A i \in 1 .. m : u[i] = v[i]
    BY <1>1, <2>2, <2>3, <2>4
  <2> HIDE DEF u, v
  <2>6. u = v
    BY <2>2, <2>3, <2>5
  <2> QED
    BY <1>3, <2>6 DEF u, v, t, n
<1> QED
  BY <1>2, <1>3

\* What is in the file, and what will be.
LEMMA LogFiles ==
  ASSUME LogTypes
  PROVE  /\ All \in Seq(Pieces) /\ Len(All) \in Nat /\ Len(file) \in Nat
         /\ Len(file) \in Len(file) .. Len(All) /\ Len(All) \in Len(file) .. Len(All)
         /\ SubSeq(All, 1, Len(file)) = file /\ SubSeq(All, 1, Len(All)) = All
         /\ batch = <<>> => All = file
<1>1. file \in Seq(Pieces) /\ buffered \in Seq(Pieces)
  BY DEF LogTypes
<1>2. All \in Seq(Pieces) /\ Len(All) = Len(file) + Len(buffered)
      /\ \A i \in 1 .. Len(file) : All[i] = file[i]
  BY <1>1 DEF All
<1>3. Len(file) \in Nat /\ Len(buffered) \in Nat
  BY <1>1
<1>4. SubSeq(All, 1, Len(file)) = file
  <2> DEFINE s == SubSeq(All, 1, Len(file))
  <2>1. s \in Seq(Pieces) /\ Len(s) = Len(file) /\ \A i \in 1 .. Len(file) : s[i] = All[i]
    BY <1>2, <1>3
  <2> HIDE DEF s
  <2>2. s = file
    BY <1>1, <1>2, <2>1
  <2> QED
    BY <2>2 DEF s
<1>5. SubSeq(All, 1, Len(All)) = All
  BY <1>2, AllOfIt
<1>6. batch = <<>> => All = file
  <2>1. batch = <<>> => buffered = <<>>
    BY DEF LogTypes
  <2>2. file \o <<>> = file
    BY <1>1
  <2> QED
    BY <2>1, <2>2 DEF All
<1> QED
  BY <1>2, <1>3, <1>4, <1>5, <1>6

\* The builder gives out windows between the batches.
LEMMA LogBuilder ==
  ASSUME LogInd, UNCHANGED logVars, Len(windows) \in Nat, Len(windows') \in Nat,
         Len(windows) <= Len(windows')
  PROVE  LogInd'
<1>1. UNCHANGED <<file, buffered, batch, written, taken, acked, exposed, attempts, faults>>
  BY DEF logVars
<1>2. All' = All
  BY <1>1 DEF All
<1>3. LogTypes /\ LogCore
  BY DEF LogInd
<1>4. LogTypes'
  <2>1. 1 .. Len(windows) \subseteq 1 .. Len(windows')
    OBVIOUS
  <2>2. taken <= Len(windows')
    BY <1>3 DEF LogTypes
  <2> QED
    BY <1>1, <1>3, <2>1, <2>2 DEF LogTypes
<1>5. LogCore'
  BY <1>1, <1>2, <1>3 DEF LogCore, Contained, TornCounted, Owed, AckedLanded, BatchLanded, InOrder
<1> QED
  BY <1>4, <1>5 DEF LogInd

\* The BufWriter hands over a piece.
LEMMA LogSpill ==
  ASSUME LogInd, Spill
  PROVE  LogInd'
<1>1. /\ buffered # <<>> /\ file' = Append(file, Head(buffered)) /\ buffered' = Tail(buffered)
      /\ UNCHANGED <<batch, written, taken, acked, exposed, attempts, faults, windows>>
  BY DEF Spill, vars
<1>2. LogTypes /\ LogCore
  BY DEF LogInd
<1>3. file \in Seq(Pieces) /\ buffered \in Seq(Pieces)
  BY <1>2 DEF LogTypes
<1>4. /\ Head(buffered) \in Pieces /\ Tail(buffered) \in Seq(Pieces)
      /\ file' \in Seq(Pieces) /\ Len(file') = Len(file) + 1
  BY <1>1, <1>3
<1>5. All' = All
  BY <1>1, <1>3, HeadMoved DEF All
<1>6. batch # <<>>
  BY <1>1, <1>2 DEF LogTypes
<1>7. LogTypes'
  BY <1>1, <1>2, <1>4, <1>6 DEF LogTypes
<1>8. Contained'
  <2>1. Len(file) \in Nat /\ Len(All) \in Nat
    BY <1>2, LogFiles
  <2>2. \A m \in Len(file') .. Len(All) : m \in Len(file) .. Len(All)
    BY <1>4, <2>1
  <2> QED
    BY <1>1, <1>2, <1>5, <2>2 DEF LogCore, Contained
<1>9. AckedLanded'
  <2>1. \A w \in acked : Landed(file, exposed, w) /\ Landed(All, exposed, w)
    BY <1>2 DEF LogCore, AckedLanded
  <2>2. \A w \in acked : Landed(Append(file, Head(buffered)), exposed, w)
    BY <1>3, <1>4, <2>1, LandedStays
  <2> QED
    BY <1>1, <1>5, <2>1, <2>2 DEF AckedLanded
<1>10. TornCounted' /\ Owed' /\ BatchLanded' /\ InOrder'
  BY <1>1, <1>2, <1>5 DEF LogCore, TornCounted, Owed, BatchLanded, InOrder
<1> QED
  BY <1>7, <1>8, <1>9, <1>10 DEF LogInd, LogCore

\* A fault: what has reached the file stays.
LEMMA LogFault ==
  ASSUME LogInd, WriteFails \/ Crash, Len(windows) \in Nat
  PROVE  LogInd'
<1>1. /\ buffered' = <<>> /\ batch' = <<>> /\ written' = 0 /\ faults' = faults + 1
      /\ UNCHANGED <<file, acked, exposed, attempts, windows>>
  BY DEF WriteFails, Crash, EndBatch, vars
<1>2. LogTypes /\ LogCore
  BY DEF LogInd
<1>3. file \in Seq(Pieces) /\ faults \in Nat /\ taken \in Nat /\ taken <= Len(windows)
      /\ batch \in Seq(Nat) /\ Len(batch) <= taken
      /\ \A i \in 1 .. Len(batch) : batch[i] = taken - Len(batch) + i
  BY <1>2 DEF LogTypes
<1>4. All' = file
  <2>1. file \o <<>> = file
    BY <1>3
  <2> QED
    BY <1>1, <2>1 DEF All
<1>5. taken' \in Nat /\ taken' <= Len(windows)
  <2>1. CASE Crash
    BY <2>1 DEF Crash
  <2>2. CASE WriteFails
    <3>1. batch # <<>> /\ taken' \in {taken, batch[1] - 1}
      BY <2>2 DEF WriteFails
    <3>2. Len(batch) \in Nat /\ 1 \in 1 .. Len(batch)
      BY <1>3, <3>1
    <3>3. batch[1] = taken - Len(batch) + 1
      BY <1>3, <3>2
    <3> QED
      BY <1>3, <3>1, <3>2, <3>3
  <2> QED
    BY <2>1, <2>2
<1>6. LogTypes'
  <2>1. Len(<<>>) = 0 /\ <<>> \in Seq(Nat) /\ <<>> \in Seq(Pieces)
    OBVIOUS
  <2>2. 0 \in 0 .. 0 /\ 1 .. 0 = {} /\ 0 <= taken'
    BY <1>5
  <2>3. faults + 1 \in Nat
    BY <1>3
  <2>4. DOMAIN attempts \subseteq 1 .. Len(windows) /\ \A w \in DOMAIN attempts : attempts[w] \in Nat
    BY <1>2 DEF LogTypes
  <2> QED
    BY <1>1, <1>3, <1>5, <2>1, <2>2, <2>3, <2>4 DEF LogTypes
<1>7. Harm(file, faults, attempts)
  BY <1>2, LogFiles DEF LogCore, Contained
<1>8. BadCount(file) \in Nat /\ Torn(file) \in {0, 1} /\ BadCount(file) <= faults
  BY <1>3, <1>7, LogNumbers DEF Harm
<1>9. Contained'
  <2>1. Harm(file, faults + 1, attempts)
    BY <1>3, <1>7, <1>8 DEF Harm
  <2>2. \A m \in Len(file) .. Len(file) : m = Len(file)
    BY <1>3
  <2>3. SubSeq(file, 1, Len(file)) = file
    BY <1>3, AllOfIt
  <2> QED
    BY <1>1, <1>4, <2>1, <2>2, <2>3 DEF Contained
<1>10. TornCounted'
  BY <1>1, <1>3, <1>4, <1>8 DEF TornCounted
<1>11. Owed' /\ BatchLanded'
  <2>1. Len(<<>>) = 0 /\ 1 .. 0 = {} /\ 0 + 1 .. 0 = {}
    OBVIOUS
  <2> QED
    BY <1>1, <2>1 DEF Owed, BatchLanded
<1>12. AckedLanded'
  BY <1>1, <1>2, <1>4 DEF LogCore, AckedLanded
<1>13. InOrder'
  <2>1. faults + 1 # 0
    BY <1>3
  <2> QED
    BY <1>1, <2>1 DEF InOrder
<1> QED
  BY <1>6, <1>9, <1>10, <1>11, <1>12, <1>13 DEF LogInd, LogCore

\* The flush: all of the batch is in the file.
LEMMA LogFlush ==
  ASSUME LogInd, FlushOk
  PROVE  LogInd'
<1>1. /\ batch # <<>> /\ written = Len(batch) /\ file' = All /\ buffered' = <<>>
      /\ acked' = acked \cup ToSet(batch) /\ batch' = <<>> /\ written' = 0
      /\ UNCHANGED <<taken, exposed, attempts, faults, windows>>
  BY DEF FlushOk, vars, All
<1>2. LogTypes /\ LogCore
  BY DEF LogInd
<1>3. /\ batch \in Seq(Nat) /\ taken \in Nat /\ Len(batch) <= taken
      /\ \A i \in 1 .. Len(batch) : batch[i] = taken - Len(batch) + i
  BY <1>2 DEF LogTypes
<1>4. All \in Seq(Pieces) /\ Len(All) \in Nat /\ Len(All) \in Len(file) .. Len(All)
      /\ SubSeq(All, 1, Len(All)) = All
  BY <1>2, LogFiles
<1>5. All' = All
  <2>1. All \o <<>> = All
    BY <1>4
  <2>2. All' = file' \o buffered'
    BY DEF All
  <2> QED
    BY <1>1, <2>1, <2>2
<1>6. ToSet(batch) = {batch[i] : i \in 1 .. Len(batch)}
  BY <1>3 DEF ToSet
<1>7. LogTypes'
  <2>1. Len(<<>>) = 0 /\ <<>> \in Seq(Nat) /\ <<>> \in Seq(Pieces)
    OBVIOUS
  <2>2. 0 \in 0 .. 0 /\ 1 .. 0 = {} /\ 0 <= taken
    BY <1>3
  <2>3. /\ taken <= Len(windows) /\ faults \in Nat
        /\ DOMAIN attempts \subseteq 1 .. Len(windows) /\ \A w \in DOMAIN attempts : attempts[w] \in Nat
    BY <1>2 DEF LogTypes
  <2> QED
    BY <1>1, <1>3, <1>4, <2>1, <2>2, <2>3 DEF LogTypes
<1>8. Contained'
  <2>1. Harm(All, faults, attempts)
    BY <1>2, <1>4 DEF LogCore, Contained
  <2>2. \A m \in Len(All) .. Len(All) : m = Len(All)
    <3>1. \A n \in Nat : \A m \in n .. n : m = n
      OBVIOUS
    <3> QED
      BY <1>4, <3>1
  <2> QED
    BY <1>1, <1>4, <1>5, <2>1, <2>2 DEF Contained
<1>9. TornCounted'
  BY <1>1, <1>2, <1>5 DEF LogCore, TornCounted
<1>10. Owed' /\ BatchLanded'
  <2>1. Len(<<>>) = 0 /\ 1 .. 0 = {} /\ 0 + 1 .. 0 = {}
    OBVIOUS
  <2> QED
    BY <1>1, <2>1 DEF Owed, BatchLanded
<1>11. AckedLanded'
  <2>1. \A w \in acked : Landed(All, exposed, w)
    BY <1>2 DEF LogCore, AckedLanded
  <2>2. \A i \in 1 .. Len(batch) : Landed(All, exposed, batch[i])
    BY <1>1, <1>2 DEF LogCore, BatchLanded
  <2>3. \A w \in acked \cup ToSet(batch) : Landed(All, exposed, w)
    BY <1>6, <2>1, <2>2
  <2> QED
    BY <1>1, <1>5, <2>3 DEF AckedLanded
<1>12. InOrder'
  <2> SUFFICES ASSUME faults = 0
               PROVE  /\ Back(All) = [w \in 1 .. taken |-> w]
                      /\ acked \cup ToSet(batch) = 1 .. taken
    <3>1. Len(<<>>) = 0 /\ taken - 0 + 0 = taken /\ taken - 0 = taken
      BY <1>3
    <3> QED
      BY <1>1, <1>5, <3>1 DEF InOrder
  <2> DEFINE b == Len(batch)
  <2>1. Back(All) = [w \in 1 .. taken - b + b |-> w] /\ acked = 1 .. taken - b
    BY <1>1, <1>2 DEF LogCore, InOrder
  <2>2. b \in Nat /\ taken - b + b = taken /\ taken - b \in Nat
    BY <1>3
  <2>3. \A i \in 1 .. b : batch[i] = taken - b + i
    BY <1>3
  <2> HIDE DEF b
  <2>4. \A w \in 1 .. taken : w \in 1 .. taken - b \/ (w - (taken - b) \in 1 .. b /\ taken - b + (w - (taken - b)) = w)
    BY <1>3, <2>2
  <2>5. \A w \in 1 .. taken - b : w \in 1 .. taken
    BY <1>3, <2>2
  <2>6. \A i \in 1 .. b : taken - b + i \in 1 .. taken
    BY <1>3, <2>2
  <2>7. {batch[i] : i \in 1 .. b} \subseteq 1 .. taken
    BY <2>3, <2>6
  <2>8. \A w \in 1 .. taken : w \in 1 .. taken - b \/ w \in {batch[i] : i \in 1 .. b}
    BY <2>3, <2>4
  <2>9. (1 .. taken - b) \cup {batch[i] : i \in 1 .. b} = 1 .. taken
    BY <2>5, <2>7, <2>8
  <2> QED
    BY <1>6, <2>1, <2>2, <2>9 DEF b
<1> QED
  BY <1>7, <1>8, <1>9, <1>10, <1>11, <1>12 DEF LogInd, LogCore

\* Where the file ends with a newline its tip is blank.
LEMMA LineStarts ==
  ASSUME file \in Seq(Pieces), AtLineStart
  PROVE  Tip(file) = <<>>
<1>1. CASE file = <<>>
  BY <1>1, PartedNone
<1>2. CASE file # <<>> /\ Last(file) = Newline
  <2> DEFINE n == Len(file)
             F == SubSeq(file, 1, n - 1)
  <2>1. n \in Nat /\ n # 0 /\ n - 1 \in Nat /\ (n - 1) + 1 = n /\ file[n] = Newline
    BY <1>2 DEF Last
  <2>2. F \in Seq(Pieces) /\ Len(F) = n - 1 /\ \A i \in 1 .. n - 1 : F[i] = file[i]
    BY <2>1
  <2>3. Newline \in Pieces
    BY DEF Pieces
  <2> DEFINE G == Append(F, Newline)
  <2> HIDE DEF F, n
  <2>4. G \in Seq(Pieces) /\ Len(G) = n /\ G[n] = Newline /\ \A i \in 1 .. n - 1 : G[i] = F[i]
    BY <2>1, <2>2, <2>3
  <2> HIDE DEF G
  <2>5. \A i \in 1 .. n : i \in 1 .. n - 1 \/ i = n
    BY <2>1
  <2>6. \A i \in 1 .. n : G[i] = file[i]
    BY <2>1, <2>2, <2>4, <2>5
  <2>7. G = file
    BY <2>4, <2>6 DEF n
  <2>8. Tip(G) = <<>>
    BY <2>2, <2>3, AllParted, PartedMore DEF G
  <2> QED
    BY <2>7, <2>8
<1> QED
  BY <1>1, <1>2 DEF AtLineStart

\* A batch begins: each of its windows has an attempt more.
LEMMA LogBegin ==
  ASSUME LogInd, WriteBegin, Len(windows) \in Nat
  PROVE  LogInd'
<1> DEFINE d == Len(windows) - taken
<1>1. /\ batch = <<>> /\ taken < Len(windows)
      /\ batch' = [i \in 1 .. d |-> taken + i]
      /\ written' = 0 /\ taken' = Len(windows) /\ file' = file
      /\ exposed' = IF AtLineStart THEN exposed ELSE exposed \cup {taken + 1}
      /\ attempts' = [w \in 1 .. Len(windows) |->
                        IF w > taken THEN IF w \in DOMAIN attempts THEN attempts[w] + 1 ELSE 1
                        ELSE IF w \in DOMAIN attempts THEN attempts[w] ELSE 0]
      /\ UNCHANGED <<buffered, acked, faults, windows>>
  BY DEF WriteBegin, Opened, vars
<1>2. LogTypes /\ LogCore
  BY DEF LogInd
<1>3. /\ file \in Seq(Pieces) /\ buffered \in Seq(Pieces) /\ taken \in Nat /\ faults \in Nat
      /\ DOMAIN attempts \subseteq 1 .. Len(windows) /\ \A w \in DOMAIN attempts : attempts[w] \in Nat
  BY <1>2 DEF LogTypes
<1>4. d \in Nat /\ d >= 1 /\ Len(windows) - d = taken /\ d <= Len(windows)
  BY <1>1, <1>3
<1> HIDE DEF d
<1>5. batch' \in Seq(Nat) /\ Len(batch') = d /\ \A i \in 1 .. d : batch'[i] = taken + i
  <2>1. \A i \in 1 .. d : taken + i \in Nat
    BY <1>3, <1>4
  <2>2. batch' \in [1 .. d -> Nat]
    BY <1>1, <2>1
  <2> QED
    BY <1>1, <1>4, <2>2
<1>6. /\ All' = All /\ All = file /\ Len(file) \in Nat
      /\ All \in Seq(Pieces)
  <2>1. All = file /\ Len(file) \in Nat /\ All \in Seq(Pieces)
    BY <1>1, <1>2, LogFiles
  <2>2. All' = All
    BY <1>1 DEF All
  <2> QED
    BY <2>1, <2>2
<1>7. LogTypes'
  <2>1. 0 \in 0 .. d
    BY <1>4
  <2>2. batch' # <<>>
    BY <1>4, <1>5
  <2>3. DOMAIN attempts' = 1 .. Len(windows) /\ \A w \in DOMAIN attempts' : attempts'[w] \in Nat
    BY <1>1, <1>3
  <2>4. \A i \in 1 .. Len(batch') : batch'[i] = taken' - Len(batch') + i
    BY <1>1, <1>4, <1>5
  <2>5. taken' \in Nat /\ taken' <= Len(windows') /\ Len(batch') <= taken' /\ written' \in 0 .. Len(batch')
    BY <1>1, <1>4, <1>5, <2>1
  <2> QED
    BY <1>1, <1>3, <1>5, <2>2, <2>3, <2>4, <2>5 DEF LogTypes
<1>8. ASSUME NEW u \in Nat
      PROVE  /\ Att(attempts, u) \in Nat /\ Att(attempts', u) \in Nat
             /\ Att(attempts, u) <= Att(attempts', u)
             /\ u \in taken + 1 .. Len(windows) => Att(attempts', u) = Att(attempts, u) + 1
  <2>1. DOMAIN attempts' = 1 .. Len(windows)
    BY <1>1
  <2>2. Att(attempts, u) \in Nat
    BY <1>3 DEF Att
  <2>3. CASE u \in 1 .. Len(windows)
    <3>1. Att(attempts', u) = attempts'[u]
      BY <2>1, <2>3 DEF Att
    <3>2. attempts'[u] = IF u > taken THEN Att(attempts, u) + 1 ELSE Att(attempts, u)
      <4>1. attempts'[u] = IF u > taken THEN IF u \in DOMAIN attempts THEN attempts[u] + 1 ELSE 1
                           ELSE IF u \in DOMAIN attempts THEN attempts[u] ELSE 0
        BY <1>1, <2>3
      <4> QED
        BY <4>1 DEF Att
    <3>3. u \in taken + 1 .. Len(windows) => u > taken
      BY <1>3
    <3> QED
      BY <2>2, <3>1, <3>2, <3>3
  <2>4. CASE u \notin 1 .. Len(windows)
    <3>1. Att(attempts', u) = 0 /\ Att(attempts, u) = 0
      BY <1>3, <2>1, <2>4 DEF Att
    <3>2. u \notin taken + 1 .. Len(windows)
      BY <1>3, <2>4
    <3> QED
      BY <3>1, <3>2
  <2> QED
    BY <2>3, <2>4
<1>9. \A u \in Nat : Copies(Back(All), u) \in Nat /\ Copies(Back(All), u) <= Att(attempts, u)
  <2>1. Harm(All, faults, attempts)
    BY <1>2, <1>6, LogFiles DEF LogCore, Contained
  <2> QED
    BY <1>6, <2>1, LogNumbers DEF Harm
<1>10. Contained'
  <2>1. Harm(All, faults, attempts)
    BY <1>2, <1>6, LogFiles DEF LogCore, Contained
  <2>2. \A u \in Nat : Copies(Back(All), u) <= Att(attempts', u)
    BY <1>8, <1>9
  <2>3. Harm(All, faults, attempts')
    BY <2>1, <2>2 DEF Harm
  <2>4. \A n \in Nat : \A m \in n .. n : m = n
    OBVIOUS
  <2>5. SubSeq(All, 1, Len(All)) = All
    BY <1>6, AllOfIt
  <2> QED
    BY <1>1, <1>6, <2>3, <2>4, <2>5 DEF Contained
<1>11. TornCounted'
  BY <1>1, <1>2, <1>6 DEF LogCore, TornCounted
<1>12. Owed'
  <2>1. ASSUME NEW i \in 1 .. d
        PROVE  Copies(Back(All), taken + i) + 1 <= Att(attempts', taken + i)
    <3>1. taken + i \in Nat /\ taken + i \in taken + 1 .. Len(windows)
      BY <1>3, <1>4
    <3>2. /\ Copies(Back(All), taken + i) \in Nat /\ Att(attempts, taken + i) \in Nat
          /\ Copies(Back(All), taken + i) <= Att(attempts, taken + i)
          /\ Att(attempts', taken + i) = Att(attempts, taken + i) + 1
      BY <1>8, <1>9, <3>1
    <3> QED
      BY <3>2
  <2>2. 0 + 1 = 1
    OBVIOUS
  <2> QED
    BY <1>1, <1>5, <1>6, <2>1, <2>2 DEF Owed
<1>13. ASSUME NEW F, NEW w, Landed(F, exposed, w) PROVE Landed(F, exposed', w)
  BY <1>1, <1>13 DEF Landed
<1>14. AckedLanded'
  BY <1>1, <1>2, <1>6, <1>13 DEF LogCore, AckedLanded
<1>15. BatchLanded'
  <2>1. 1 .. 0 = {} /\ 1 \in 1 .. d
    BY <1>4
  <2>2. batch'[1] = taken + 1
    BY <1>5, <2>1, <1>3
  <2>3. Tip(All) # <<>> => taken + 1 \in exposed'
    BY <1>1, <1>3, <1>6, LineStarts
  <2> QED
    BY <1>1, <1>6, <2>1, <2>2, <2>3 DEF BatchLanded
<1>16. InOrder'
  <2>1. Len(batch) = 0 /\ written = 0
    <3>1. written \in 0 .. Len(batch) /\ Len(<<>>) = 0
      BY <1>2 DEF LogTypes
    <3> QED
      BY <1>1, <3>1
  <2>2. taken - Len(batch) + written = taken /\ taken - Len(batch) = taken
    BY <1>3, <2>1
  <2>3. taken' - Len(batch') + written' = taken /\ taken' - Len(batch') = taken
    BY <1>1, <1>3, <1>4, <1>5
  <2>4. InOrder
    BY <1>2 DEF LogCore
  <2> QED
    BY <1>1, <1>6, <2>2, <2>3, <2>4 DEF InOrder
<1> QED
  BY <1>7, <1>10, <1>11, <1>12, <1>14, <1>15, <1>16 DEF LogInd, LogCore

\* One sequence after another.
LEMMA ConcatParts ==
  ASSUME NEW X, NEW t \in Seq(X), NEW s \in Seq(X)
  PROVE  /\ t \o s \in Seq(X) /\ Len(t \o s) = Len(t) + Len(s)
         /\ \A i \in 1 .. Len(t) : (t \o s)[i] = t[i]
         /\ \A i \in 1 .. Len(s) : (t \o s)[Len(t) + i] = s[i]
  OBVIOUS

\* Three elements appended one after the other.
LEMMA ThreeAppended ==
  ASSUME NEW X, NEW t \in Seq(X), NEW a \in X, NEW b \in X, NEW c \in X
  PROVE  t \o <<a, b, c>> = Append(Append(Append(t, a), b), c)
<1> DEFINE n == Len(t)
           s == <<a, b, c>>
           t1 == Append(t, a)
           t2 == Append(t1, b)
           t3 == Append(t2, c)
           u == t \o s
<1>1. n \in Nat /\ s \in Seq(X) /\ Len(s) = 3 /\ s[1] = a /\ s[2] = b /\ s[3] = c
  OBVIOUS
<1>2. t1 \in Seq(X) /\ Len(t1) = n + 1 /\ t1[n + 1] = a /\ \A i \in 1 .. n : t1[i] = t[i]
  OBVIOUS
<1> HIDE DEF s, t1
<1>3. t2 \in Seq(X) /\ Len(t2) = n + 2 /\ t2[n + 2] = b /\ \A i \in 1 .. n + 1 : t2[i] = t1[i]
  BY <1>1, <1>2
<1> HIDE DEF t2
<1>4. t3 \in Seq(X) /\ Len(t3) = n + 3 /\ t3[n + 3] = c /\ \A i \in 1 .. n + 2 : t3[i] = t2[i]
  BY <1>1, <1>3
<1> HIDE DEF t3
<1>5. /\ u \in Seq(X) /\ Len(u) = n + 3 /\ \A i \in 1 .. n : u[i] = t[i]
      /\ u[n + 1] = s[1] /\ u[n + 2] = s[2] /\ u[n + 3] = s[3]
  <2>0. /\ u \in Seq(X) /\ Len(u) = n + Len(s) /\ \A i \in 1 .. n : u[i] = t[i]
        /\ \A i \in 1 .. Len(s) : u[n + i] = s[i]
    <3>1. s \in Seq(X)
      BY <1>1
    <3>2. u \in Seq(X) /\ Len(u) = Len(t) + Len(s)
      BY <3>1, ConcatParts
    <3>3. \A i \in 1 .. Len(t) : u[i] = t[i]
      BY <3>1, ConcatParts
    <3>4. \A i \in 1 .. Len(s) : u[Len(t) + i] = s[i]
      BY <3>1, ConcatParts
    <3> HIDE DEF u
    <3> QED
      BY <3>2, <3>3, <3>4
  <2>1. u \in Seq(X) /\ Len(u) = n + 3 /\ \A i \in 1 .. n : u[i] = t[i]
    <3> HIDE DEF u, n
    <3> QED
      BY <1>1, <2>0
  <2>2. \A i \in 1 .. 3 : u[n + i] = s[i]
    <3> HIDE DEF u, n
    <3> QED
      BY <1>1, <2>0
  <2>3. 1 \in 1 .. 3 /\ 2 \in 1 .. 3 /\ 3 \in 1 .. 3
    OBVIOUS
  <2> HIDE DEF u, n
  <2> QED
    BY <2>1, <2>2, <2>3
<1> HIDE DEF u, n
<1>6. ASSUME NEW i \in 1 .. n + 3 PROVE u[i] = t3[i]
  <2>1. CASE i \in 1 .. n
    <3>1. i \in 1 .. n + 1 /\ i \in 1 .. n + 2
      BY <1>1, <2>1
    <3> QED
      BY <1>2, <1>3, <1>4, <1>5, <2>1, <3>1
  <2>2. CASE i = n + 1
    <3>1. n + 1 \in 1 .. n + 1 /\ n + 1 \in 1 .. n + 2
      BY <1>1
    <3> QED
      BY <1>1, <1>2, <1>3, <1>4, <1>5, <2>2, <3>1
  <2>3. CASE i = n + 2
    <3>1. n + 2 \in 1 .. n + 2
      BY <1>1
    <3> QED
      BY <1>1, <1>3, <1>4, <1>5, <2>3, <3>1
  <2>4. CASE i = n + 3
    BY <1>1, <1>4, <1>5, <2>4
  <2> QED
    BY <1>1, <2>1, <2>2, <2>3, <2>4
<1>7. u = t3
  BY <1>4, <1>5, <1>6
<1> QED
  BY <1>7 DEF u, t3, t2, t1, s

\* The pieces of a window after those of a file.
LEMMA LineAppended ==
  ASSUME NEW s \in Seq(Pieces), NEW t \in Seq(Pieces), NEW w \in Nat
  PROVE  Adds(s \o t, w, Append(s \o t, Start(w)), Append(Append(s \o t, Start(w)), Rest(w)),
              s \o (t \o LineOf(w)))
<1>1. Start(w) \in Pieces /\ Rest(w) \in Pieces /\ Newline \in Pieces
  BY DEF Pieces, Start, Rest
<1>2. t \o LineOf(w) = Append(Append(Append(t, Start(w)), Rest(w)), Newline)
  <2>1. LineOf(w) = <<Start(w), Rest(w), Newline>>
    BY DEF LineOf, Start, Rest
  <2>2. t \o <<Start(w), Rest(w), Newline>> = Append(Append(Append(t, Start(w)), Rest(w)), Newline)
    BY <1>1, ThreeAppended
  <2> QED
    BY <2>1, <2>2
<1> DEFINE t1 == Append(t, Start(w))
           t2 == Append(t1, Rest(w))
           t3 == Append(t2, Newline)
<1>3. t1 \in Seq(Pieces)
  BY <1>1
<1> HIDE DEF t1
<1>4. t2 \in Seq(Pieces)
  BY <1>1, <1>3
<1> HIDE DEF t2
<1>5. s \o t1 = Append(s \o t, Start(w))
  BY <1>1, AppendedLast DEF t1
<1>6. s \o t2 = Append(s \o t1, Rest(w))
  BY <1>1, <1>3, AppendedLast DEF t2
<1>7. s \o t3 = Append(s \o t2, Newline)
  BY <1>1, <1>4, AppendedLast
<1>8. t \o LineOf(w) = t3
  BY <1>2 DEF t1, t2
<1> HIDE DEF t3
<1> QED
  BY <1>5, <1>6, <1>7, <1>8 DEF Adds

\* A window is written: its pieces go to the BufWriter.
LEMMA LogWrite ==
  ASSUME LogInd, WriteWindow
  PROVE  LogInd'
<1> DEFINE k == written + 1
           w == batch[k]
           F1 == Append(All, Start(w))
           F2 == Append(F1, Rest(w))
           F3 == file \o (buffered \o LineOf(w))
           b == Len(batch)
<1>1. /\ written < b /\ buffered' = buffered \o LineOf(w) /\ written' = k
      /\ UNCHANGED <<file, batch, taken, acked, exposed, attempts, faults, windows>>
  BY DEF WriteWindow, vars
<1>2. LogTypes /\ LogCore
  BY DEF LogInd
<1>3. /\ file \in Seq(Pieces) /\ buffered \in Seq(Pieces) /\ batch \in Seq(Nat)
      /\ written \in 0 .. b /\ taken \in Nat /\ b <= taken /\ faults \in Nat
      /\ \A i \in 1 .. b : batch[i] = taken - b + i
      /\ \A u \in DOMAIN attempts : attempts[u] \in Nat
  BY <1>2 DEF LogTypes
<1>4. b \in Nat /\ written \in Nat /\ k \in 1 .. b /\ k \in 0 .. b /\ batch # <<>>
  BY <1>1, <1>3
<1>5. w \in Nat /\ w = taken - b + k
  <2> HIDE DEF k, b
  <2> QED
    BY <1>3, <1>4 DEF b
<1>6. All' = F3
  BY <1>1 DEF All
<1>7. All \in Seq(Pieces) /\ Adds(All, w, F1, F2, F3)
  <2> HIDE DEF w
  <2> QED
    BY <1>3, <1>5, LineAppended, LogFiles, <1>2 DEF All
<1>8. buffered \o LineOf(w) \in Seq(Pieces)
  <2> HIDE DEF w
  <2>1. LineOf(w) = <<Start(w), Rest(w), Newline>>
    BY DEF LineOf, Start, Rest
  <2>2. Start(w) \in Pieces /\ Rest(w) \in Pieces /\ Newline \in Pieces
    BY <1>5 DEF Start, Rest, Pieces
  <2>3. \A x, y, z \in Pieces : <<x, y, z>> \in Seq(Pieces)
    OBVIOUS
  <2>4. LineOf(w) \in Seq(Pieces)
    BY <2>1, <2>2, <2>3
  <2> QED
    BY <1>3, <2>4
<1> HIDE DEF F1, F2, F3, w
<1>9. F1 \in Seq(Pieces) /\ F2 \in Seq(Pieces) /\ F3 \in Seq(Pieces)
  BY <1>5, <1>7, LinePieces
<1>10. /\ BadCount(All) \in Nat /\ BadCount(F1) = BadCount(All) /\ BadCount(F2) = BadCount(All)
       /\ BadCount(F3) = BadCount(All) + Torn(All) /\ Torn(F3) = 0 /\ Tip(F3) = <<>>
       /\ \A G \in {F1, F2, F3} : \A u \in Nat :
            Copies(Back(G), u) <= Copies(Back(All), u) + More(u, w)
       /\ \A e, u : Landed(All, e, u) => Landed(F3, e, u)
       /\ \A e : (Tip(All) = <<>> \/ w \in e) => Landed(F3, e, w)
       /\ Tip(All) = <<>> => Back(F3) = Append(Back(All), w)
  BY <1>5, <1>7, LineWritten
<1>11. LogTypes'
  <2> HIDE DEF k
  <2> QED
    BY <1>1, <1>2, <1>4, <1>8 DEF LogTypes
<1>12. \A u \in Nat : Att(attempts, u) \in Nat
  BY <1>3 DEF Att
<1>13. Torn(All) \in {0, 1} /\ BadCount(All) + Torn(All) <= faults
  BY <1>2, <1>7, LogNumbers DEF LogCore, TornCounted
<1>14. ASSUME NEW u \in Nat PROVE Copies(Back(All), u) + More(u, w) <= Att(attempts, u)
  <2>1. Copies(Back(All), u) \in Nat /\ Copies(Back(All), u) <= Att(attempts, u)
    BY <1>2, <1>7, LogFiles, LogNumbers DEF LogCore, Contained, Harm
  <2>2. CASE u = w
    <3>1. Copies(Back(All), w) + 1 <= Att(attempts, w)
      <4>1. k \in written + 1 .. b
        BY <1>4
      <4>2. Owed
        BY <1>2 DEF LogCore
      <4> QED
        BY <4>1, <4>2 DEF Owed, w
    <3> QED
      BY <2>2, <3>1 DEF More
  <2>3. CASE u # w
    BY <1>12, <2>1, <2>3 DEF More
  <2> QED
    BY <2>2, <2>3
<1>15. ASSUME NEW G \in {F1, F2, F3} PROVE Harm(G, faults, attempts)
  <2>1. BadCount(G) <= faults
    <3>1. BadCount(G) = BadCount(All) \/ BadCount(G) = BadCount(All) + Torn(All)
      BY <1>10
    <3> QED
      BY <1>3, <1>10, <1>13, <3>1
  <2>2. ASSUME NEW u \in Nat PROVE Copies(Back(G), u) <= Att(attempts, u)
    <3>1. G \in Seq(Pieces)
      BY <1>9
    <3>2. Copies(Back(G), u) \in Nat /\ Copies(Back(All), u) \in Nat
      BY <1>7, <3>1, LogNumbers
    <3>3. Copies(Back(G), u) <= Copies(Back(All), u) + More(u, w)
      BY <1>10
    <3>4. More(u, w) \in Nat
      BY DEF More
    <3> QED
      BY <1>12, <1>14, <3>2, <3>3, <3>4
  <2> QED
    BY <2>1, <2>2 DEF Harm
<1>16. Contained'
  <2> DEFINE n == Len(All)
  <2>1. n \in Nat /\ Len(file) \in Nat
    BY <1>2, LogFiles
  <2>2. /\ F1 = Append(All, Start(w)) /\ F2 = Append(F1, Rest(w)) /\ F3 = Append(F2, Newline)
    BY <1>7 DEF Adds
  <2>3. Start(w) \in Pieces /\ Rest(w) \in Pieces /\ Newline \in Pieces
    BY <1>5 DEF Start, Rest, Pieces
  <2>4. Len(F1) = n + 1
    BY <1>7, <2>2, <2>3
  <2>5. Len(F2) = n + 2
    BY <1>9, <2>1, <2>2, <2>3, <2>4
  <2>6. Len(F3) = n + 3
    BY <1>9, <2>1, <2>2, <2>3, <2>5
  <2> HIDE DEF n
  <2>7. ASSUME NEW m \in Len(file) .. n + 3 PROVE Harm(SubSeq(F3, 1, m), faults, attempts)
    <3>1. m \in Nat /\ m \in 0 .. n + 3
      BY <2>1
    <3>2. CASE m = n + 3
      <4>1. SubSeq(F3, 1, m) = F3
        BY <1>9, <2>6, <3>2, AllOfIt
      <4> QED
        BY <1>15, <4>1
    <3>3. CASE m # n + 3
      <4>1. m \in 0 .. n + 2 /\ m \in 0 .. Len(F2) + 1 /\ m # Len(F2) + 1
        BY <2>1, <2>5, <3>1, <3>3
      <4>2. SubSeq(F3, 1, m) = SubSeq(F2, 1, m)
        BY <1>9, <2>2, <2>3, <4>1, PrefixMore
      <4>3. CASE m = n + 2
        <5>1. SubSeq(F2, 1, m) = F2
          BY <1>9, <2>5, <4>3, AllOfIt
        <5> QED
          BY <1>15, <4>2, <5>1
      <4>4. CASE m # n + 2
        <5>1. m \in 0 .. n + 1 /\ m \in 0 .. Len(F1) + 1 /\ m # Len(F1) + 1
          BY <2>1, <2>4, <4>1, <4>4
        <5>2. SubSeq(F2, 1, m) = SubSeq(F1, 1, m)
          BY <1>9, <2>2, <2>3, <5>1, PrefixMore
        <5>3. CASE m = n + 1
          <6>1. SubSeq(F1, 1, m) = F1
            BY <1>9, <2>4, <5>3, AllOfIt
          <6> QED
            BY <1>15, <4>2, <5>2, <6>1
        <5>4. CASE m # n + 1
          <6>1. m \in 0 .. n + 1 /\ m # n + 1 /\ m \in Len(file) .. n
            BY <2>1, <5>1, <5>4
          <6>2. SubSeq(F1, 1, m) = SubSeq(All, 1, m)
            BY <1>7, <2>2, <2>3, <6>1, PrefixMore DEF n
          <6>3. Harm(SubSeq(All, 1, m), faults, attempts)
            BY <1>2, <6>1 DEF LogCore, Contained, n
          <6> QED
            BY <4>2, <5>2, <6>2, <6>3
        <5> QED
          BY <5>3, <5>4
      <4> QED
        BY <4>3, <4>4
    <3> QED
      BY <3>2, <3>3
  <2> QED
    BY <1>1, <1>6, <2>6, <2>7 DEF Contained
<1>17. TornCounted'
  <2>1. BadCount(F3) + Torn(F3) <= faults
    BY <1>10, <1>13, <1>3
  <2> QED
    BY <1>1, <1>6, <2>1 DEF TornCounted
<1>18. Owed'
  <2>1. ASSUME NEW i \in k + 1 .. b
        PROVE  Copies(Back(F3), batch[i]) + 1 <= Att(attempts, batch[i])
    <3>1. i \in 1 .. b /\ i \in written + 1 .. b /\ i # k
      BY <1>4
    <3>2. batch[i] \in Nat /\ batch[i] # w
      BY <1>3, <1>4, <1>5, <3>1
    <3> DEFINE u == batch[i]
    <3>3. Copies(Back(All), u) + 1 <= Att(attempts, u)
      BY <1>2, <3>1 DEF LogCore, Owed
    <3>4. Copies(Back(F3), u) \in Nat /\ Copies(Back(All), u) \in Nat
      BY <1>7, <1>9, <3>2, LogNumbers
    <3>5. Copies(Back(F3), u) <= Copies(Back(All), u) + More(u, w) /\ More(u, w) = 0
      BY <1>10, <3>2 DEF More
    <3>6. Att(attempts, u) \in Nat
      BY <1>12, <3>2
    <3> HIDE DEF u
    <3>7. Copies(Back(F3), u) + 1 <= Att(attempts, u)
      BY <3>3, <3>4, <3>5, <3>6
    <3> QED
      BY <3>7 DEF u
  <2> QED
    BY <1>1, <1>6, <2>1 DEF Owed
<1>19. AckedLanded'
  BY <1>1, <1>2, <1>6, <1>10 DEF LogCore, AckedLanded
<1>20. BatchLanded'
  <2>1. BatchLanded
    BY <1>2 DEF LogCore
  <2>2. Tip(All) = <<>> \/ w \in exposed
    <3> SUFFICES ASSUME Tip(All) # <<>> PROVE w \in exposed
      OBVIOUS
    <3>1. written = 0 /\ batch[1] \in exposed
      BY <1>4, <2>1 DEF BatchLanded
    <3>2. k = 1
      BY <3>1
    <3> HIDE DEF k
    <3> QED
      BY <3>1, <3>2 DEF w
  <2>3. Landed(F3, exposed, w)
    BY <1>10, <2>2
  <2>4. ASSUME NEW i \in 1 .. k PROVE Landed(F3, exposed, batch[i])
    <3>1. i \in 1 .. written \/ i = k
      BY <1>4
    <3>2. i \in 1 .. written => Landed(F3, exposed, batch[i])
      BY <1>10, <2>1 DEF BatchLanded
    <3> HIDE DEF k
    <3>3. i = k => Landed(F3, exposed, batch[i])
      BY <2>3 DEF w
    <3> QED
      BY <3>1, <3>2, <3>3
  <2> HIDE DEF k
  <2> QED
    BY <1>1, <1>6, <1>10, <2>4 DEF BatchLanded
<1>21. InOrder'
  <2> SUFFICES ASSUME faults = 0
               PROVE  /\ Back(F3) = [x \in 1 .. taken - b + k |-> x]
                      /\ acked = 1 .. taken - b
    BY <1>1, <1>6 DEF InOrder
  <2> DEFINE n == taken - b + written
             out == Back(All)
             new == [x \in 1 .. n + 1 |-> x]
  <2>1. out = [x \in 1 .. n |-> x] /\ acked = 1 .. taken - b
    BY <1>2 DEF LogCore, InOrder
  <2>2. Tip(All) = <<>>
    <3>1. Torn(All) = 0
      BY <1>10, <1>13
    <3>2. 0 # 1
      OBVIOUS
    <3> QED
      BY <3>1, <3>2 DEF Torn
  <2>3. Back(F3) = Append(out, w)
    BY <1>10, <2>2
  <2>4. n \in Nat /\ w = n + 1 /\ taken - b + k = n + 1
    BY <1>3, <1>4, <1>5
  <2> HIDE DEF n
  <2>5. out \in Seq(Nat) /\ Len(out) = n /\ \A i \in 1 .. n : out[i] = i
    <3>1. out \in [1 .. n -> Nat]
      BY <2>1, <2>4
    <3> HIDE DEF out
    <3> QED
      BY <2>1, <2>4, <3>1
  <2> HIDE DEF out
  <2>6. /\ Append(out, w) \in Seq(Nat) /\ Len(Append(out, w)) = n + 1 /\ Append(out, w)[n + 1] = w
        /\ \A i \in 1 .. n : Append(out, w)[i] = out[i]
    BY <1>5, <2>4, <2>5
  <2>7. new \in Seq(Nat) /\ Len(new) = n + 1 /\ \A i \in 1 .. n + 1 : new[i] = i
    <3>1. new \in [1 .. n + 1 -> Nat] /\ \A i \in 1 .. n + 1 : new[i] = i
      BY <2>4
    <3> HIDE DEF new
    <3> QED
      BY <2>4, <3>1
  <2>8. \A i \in 1 .. n + 1 : i \in 1 .. n \/ i = n + 1
    BY <2>4
  <2> HIDE DEF new
  <2>9. \A i \in 1 .. n + 1 : Append(out, w)[i] = new[i]
    BY <2>4, <2>5, <2>6, <2>7, <2>8
  <2>10. Append(out, w) = new
    BY <2>6, <2>7, <2>9
  <2> QED
    BY <2>1, <2>3, <2>4, <2>10 DEF new
<1> QED
  BY <1>11, <1>16, <1>17, <1>18, <1>19, <1>20, <1>21 DEF LogInd, LogCore

\* An empty file.
LEMMA NothingRead ==
  /\ BadOf(Whole(<<>>)) = {} /\ BadCount(<<>>) = 0 /\ Tip(<<>>) = <<>> /\ Torn(<<>>) = 0
  /\ Back(<<>>) = <<>> /\ \A u : Copies(Back(<<>>), u) = 0
<1>1. Whole(<<>>) = <<>> /\ Tip(<<>>) = <<>> /\ <<>> \in Seq(Pieces)
  BY PartedNone
<1>2. Len(<<>>) = 0 /\ 1 .. 0 = {}
  OBVIOUS
<1>3. BadOf(<<>>) = {}
  BY <1>2 DEF BadOf
<1>4. BadCount(<<>>) = 0
  BY <1>1, <1>3, FS_EmptySet DEF BadCount
<1>5. OfWhole(<<>>) = <<>>
  BY <1>1, ReadNone DEF OfWhole
<1>6. Back(<<>>) = <<>>
  BY <1>1, <1>5, TipReads
<1>7. \A u : PlacesOf(<<>>, u) = {}
  BY <1>2 DEF PlacesOf
<1>8. \A u : Copies(<<>>, u) = 0
  BY <1>7, FS_EmptySet DEF Copies
<1> QED
  BY <1>1, <1>3, <1>4, <1>6, <1>8 DEF Torn

\* The invariant of the log holds at the start.
LEMMA LogStarts ==
  ASSUME LogInit
  PROVE  LogInd
<1>1. /\ file = <<>> /\ buffered = <<>> /\ batch = <<>> /\ written = 0 /\ windows = <<>>
      /\ taken = 0 /\ acked = {} /\ exposed = {} /\ attempts = <<>> /\ faults = 0
  BY DEF LogInit, Init
<1>2. /\ Len(<<>>) = 0 /\ 1 .. 0 = {} /\ DOMAIN <<>> = {} /\ 0 \in 0 .. 0 /\ 0 + 1 .. 0 = {}
      /\ <<>> \in Seq(Nat) /\ <<>> \in Seq(Pieces) /\ 0 \in Nat /\ 0 <= 0
  OBVIOUS
<1>3. All = <<>>
  <2>1. <<>> \o <<>> = <<>>
    OBVIOUS
  <2> QED
    BY <1>1, <2>1 DEF All
<1>4. LogTypes
  BY <1>1, <1>2 DEF LogTypes
<1>5. Harm(<<>>, 0, <<>>)
  <2>1. \A u : Att(<<>>, u) = 0
    BY <1>2 DEF Att
  <2> QED
    BY <1>2, <2>1, NothingRead DEF Harm
<1>6. Contained
  <2>1. SubSeq(<<>>, 1, 0) = <<>>
    BY <1>2, AllOfIt
  <2>2. \A m \in 0 .. 0 : m = 0
    OBVIOUS
  <2> QED
    BY <1>1, <1>2, <1>3, <1>5, <2>1, <2>2 DEF Contained
<1>7. TornCounted
  BY <1>1, <1>3, NothingRead DEF TornCounted
<1>8. Owed /\ AckedLanded /\ BatchLanded
  BY <1>1, <1>2 DEF Owed, AckedLanded, BatchLanded
<1>9. InOrder
  <2>1. 0 - 0 + 0 = 0 /\ 0 - 0 = 0
    OBVIOUS
  <2>2. [w \in 1 .. 0 |-> w] = <<>>
    OBVIOUS
  <2> QED
    BY <1>1, <1>2, <1>3, <2>1, <2>2, NothingRead DEF InOrder
<1> QED
  BY <1>4, <1>6, <1>7, <1>8, <1>9 DEF LogInd, LogCore

\* Every step keeps the invariant of the log.
LEMMA LogSteps ==
  ASSUME BuilderInd, LogInd, [LogNext]_<<vars, logVars>>
  PROVE  LogInd'
<1>1. Len(windows) \in Nat
  BY DEF BuilderInd, BuilderTypes
<1>2. CASE batch = <<>> /\ Next /\ UNCHANGED logVars
  <2>1. Len(windows') \in Nat /\ Len(windows) <= Len(windows')
    <3>1. CASE \E event \in Events : Ingest(event)
      BY <1>1, <3>1 DEF Ingest
    <3>2. ASSUME NEW order, Closes(order)
          PROVE  Len(windows') \in Nat /\ Len(windows) <= Len(windows')
      <4>1. Len(order) \in Nat /\ Len(windows') = Len(windows) + Len(order)
        BY <3>2, ClosedWindows
      <4> QED
        BY <1>1, <4>1
    <3> QED
      BY <1>2, <3>1, <3>2, DrainCloses, FinalizeCloses DEF Next
  <2> QED
    BY <1>1, <1>2, <2>1, LogBuilder
<1>3. CASE WriteBegin
  BY <1>1, <1>3, LogBegin
<1>4. CASE WriteWindow
  BY <1>4, LogWrite
<1>5. CASE Spill
  BY <1>5, LogSpill
<1>6. CASE FlushOk
  BY <1>6, LogFlush
<1>7. CASE WriteFails \/ Crash
  BY <1>1, <1>7, LogFault
<1>8. CASE UNCHANGED <<vars, logVars>>
  <2>1. UNCHANGED logVars /\ windows' = windows
    BY <1>8 DEF vars
  <2> QED
    BY <1>1, <2>1, LogBuilder
<1> QED
  BY <1>2, <1>3, <1>4, <1>5, <1>6, <1>7, <1>8 DEF LogNext

\* The inductive invariant of the log: whatever the BufWriter has handed over when
\* a write fails or the process ends, the lines damaged are no more than the faults,
\* and the windows of the batches acknowledged are in the file.
THEOREM LogIndHolds == LogSpec => []LogInd
<1>1. LogInit => LogInd
  BY LogStarts
<1>2. BuilderInd /\ LogInd /\ [LogNext]_<<vars, logVars>> => LogInd'
  BY LogSteps
<1> QED
  BY <1>1, <1>2, BuilderIndHolds, PTL DEF LogSpec

\* What read_windows gives of a file, and which of its lines are bad.
LEMMA FileRead ==
  ASSUME NEW F \in Seq(Pieces)
  PROVE  /\ Back(F) \in Seq(Nat) /\ ToSet(OfWhole(F)) \subseteq ToSet(Back(F))
         /\ BadOf(Whole(F)) \subseteq BadOf(Lines(F))
         /\ Tip(F) = <<>> => BadOf(Lines(F)) = BadOf(Whole(F))
         /\ BadCount(F) \in Nat /\ IsFiniteSet(BadOf(Whole(F)))
         /\ Cardinality(BadOf(Lines(F))) <= BadCount(F) + Torn(F)
         /\ ReadOk(Lines(F)) <=> BadOf(Lines(F)) = {}
<1> DEFINE c == Whole(F)
           tip == Tip(F)
           out == OfWhole(F)
<1>1. c \in Seq(Seq(Pieces)) /\ tip \in Seq(Pieces) /\ Lines(F) = Append(c, tip)
  BY AllParted DEF Parted
<1>2. Back(F) = NextLine(out, tip) /\ Back(F) \in Seq(Nat) /\ out \in Seq(Nat)
  BY TipReads
<1>3. ToSet(out) \subseteq ToSet(Back(F))
  <2>1. CASE Parses(tip)
    <3> DEFINE id == tip[1][1]
               T == Nat \cup {id}
    <3>1. Back(F) = Append(out, id)
      BY <1>2, <2>1 DEF NextLine
    <3>2. out \in Seq(T) /\ id \in T
      BY <1>2
    <3> HIDE DEF id, T, out
    <3>3. ToSet(Append(out, id)) = ToSet(out) \cup {id}
      BY <3>2, MembersMore
    <3> QED
      BY <3>1, <3>3
  <2>2. CASE ~Parses(tip)
    BY <1>2, <2>2 DEF NextLine
  <2> QED
    BY <2>1, <2>2
<1> HIDE DEF c, tip, out
<1>4. /\ IsFiniteSet(BadOf(c)) /\ Cardinality(BadOf(c)) \in Nat
      /\ BadOf(Lines(F)) =
           IF tip # <<>> /\ ~Parses(tip) THEN BadOf(c) \cup {Len(c) + 1} ELSE BadOf(c)
      /\ Cardinality(BadOf(Lines(F))) =
           IF tip # <<>> /\ ~Parses(tip) THEN Cardinality(BadOf(c)) + 1 ELSE Cardinality(BadOf(c))
  BY <1>1, BadMore
<1>5. Cardinality(BadOf(Lines(F))) <= BadCount(F) + Torn(F)
  BY <1>4 DEF BadCount, Torn, c, tip
<1>6. ReadOk(Lines(F)) <=> BadOf(Lines(F)) = {}
  BY DEF ReadOk, BadOf
<1> QED
  BY <1>2, <1>3, <1>4, <1>5, <1>6 DEF c, tip, out, BadCount

\* As long as no write failed, read_windows gives back the windows of every batch
\* that returned Ok, in order; after faults it gives back all of them or fails: for
\* every number of events, windows and faults, and wherever the BufWriter was
\* interrupted.
THEOREM LogReadsBack == LogSpec => []ReadsBack
<1>1. LogInd => ReadsBack
  <2> SUFFICES ASSUME LogInd PROVE ReadsBack
    OBVIOUS
  <2>1. LogTypes /\ LogCore
    BY DEF LogInd
  <2>2. file \in Seq(Pieces) /\ taken \in Nat /\ written \in 0 .. Len(batch) /\ faults \in Nat
    BY <2>1 DEF LogTypes
  <2>3. ASSUME ReadOk(Lines(file)) PROVE acked \subseteq ToSet(Back(file))
    <3>1. BadOf(Whole(file)) = {} /\ ToSet(OfWhole(file)) \subseteq ToSet(Back(file))
      BY <2>2, <2>3, FileRead
    <3>2. \A w \in acked : Landed(file, exposed, w)
      BY <2>1 DEF LogCore, AckedLanded
    <3> QED
      BY <3>1, <3>2 DEF Landed
  <2>4. ASSUME faults = 0, batch = <<>>
        PROVE  ReadOk(Lines(file)) /\ Back(file) = [w \in 1 .. Cardinality(acked) |-> w]
    <3>1. All = file
      BY <2>1, <2>4, LogFiles
    <3>2. Torn(file) \in {0, 1} /\ BadCount(file) \in Nat /\ BadCount(file) + Torn(file) <= 0
      BY <2>1, <2>2, <2>4, <3>1, LogNumbers DEF LogCore, TornCounted
    <3>3. Torn(file) = 0 /\ BadCount(file) = 0
      BY <3>2
    <3>4. Tip(file) = <<>>
      <4>1. 0 # 1
        OBVIOUS
      <4> QED
        BY <3>3, <4>1 DEF Torn
    <3>5. BadOf(Whole(file)) = {}
      BY <2>2, <3>3, FileRead, FS_EmptySet DEF BadCount
    <3>6. ReadOk(Lines(file))
      BY <2>2, <3>4, <3>5, FileRead
    <3>7. Len(<<>>) = 0 /\ written = 0 /\ taken - 0 + 0 = taken /\ taken - 0 = taken
      BY <2>2, <2>4
    <3>8. Back(file) = [w \in 1 .. taken |-> w] /\ acked = 1 .. taken
      BY <2>1, <2>4, <3>1, <3>7 DEF LogCore, InOrder
    <3>9. Cardinality(acked) = taken
      <4>1. Cardinality(1 .. taken) = IF 1 > taken THEN 0 ELSE taken - 1 + 1
        BY <2>2, FS_Interval
      <4> QED
        BY <2>2, <3>8, <4>1
    <3> QED
      BY <3>6, <3>8, <3>9
  <2> QED
    BY <2>3, <2>4 DEF ReadsBack, Back
<1> QED
  BY <1>1, LogIndHolds, PTL

\* A window that is in what was read has a copy.
LEMMA ReadHasCopies ==
  ASSUME NEW out \in Seq(Nat), NEW w \in ToSet(out)
  PROVE  w \in Nat /\ Copies(out, w) \in Nat /\ Copies(out, w) # 0
<1>1. DOMAIN out = 1 .. Len(out) /\ Len(out) \in Nat /\ 0 \in Nat
  OBVIOUS
<1>2. PICK n \in 1 .. Len(out) : out[n] = w
  BY <1>1 DEF ToSet
<1>3. w \in Nat
  BY <1>1, <1>2
<1>4. n \in PlacesOf(out, w)
  BY <1>2 DEF PlacesOf
<1>5. IsFiniteSet(PlacesOf(out, w))
  <2>1. PlacesOf(out, w) \subseteq 1 .. Len(out)
    BY DEF PlacesOf
  <2>2. IsFiniteSet(1 .. Len(out))
    BY <1>1, FS_Interval
  <2> QED
    BY <2>1, <2>2, FS_Subset
<1>6. Cardinality(PlacesOf(out, w)) # 0
  BY <1>4, <1>5, FS_EmptySet
<1> QED
  BY <1>1, <1>3, <1>6, CopiesMore DEF Copies

\* A fault damages at most one line, an acknowledged window that is not on a line of
\* its own was the first of a batch appended to a torn line, and no window is read
\* back more often than it was tried to write it.
THEOREM LogDamageContained == LogSpec => []DamageContained
<1>1. LogInd => DamageContained
  <2> SUFFICES ASSUME LogInd PROVE DamageContained
    OBVIOUS
  <2>1. LogTypes /\ LogCore
    BY DEF LogInd
  <2>2. /\ file \in Seq(Pieces) /\ faults \in Nat
        /\ \A w \in DOMAIN attempts : attempts[w] \in Nat
    BY <2>1 DEF LogTypes
  <2>3. Harm(file, faults, attempts)
    BY <2>1, LogFiles DEF LogCore, Contained
  <2> DEFINE bad == Cardinality(BadOf(Lines(file)))
  <2>4. /\ BadCount(file) \in Nat /\ Torn(file) \in {0, 1} /\ BadCount(file) <= faults
        /\ bad <= BadCount(file) + Torn(file) /\ bad \in Nat
    <3>1. Lines(file) \in Seq(Seq(Pieces))
      <4> DEFINE S == Seq(Pieces)
      <4>1. Whole(file) \in Seq(S) /\ Tip(file) \in S /\ Lines(file) = Append(Whole(file), Tip(file))
        BY <2>2, AllParted DEF Parted
      <4> HIDE DEF S
      <4>2. Lines(file) \in Seq(S)
        BY <4>1
      <4> QED
        BY <4>2 DEF S
    <3>2. bad \in Nat
      <4>1. <<>> \in Seq(Pieces)
        OBVIOUS
      <4> QED
        BY <3>1, <4>1, BadMore
    <3> QED
      BY <2>2, <2>3, <3>2, FileRead, LogNumbers DEF Harm
  <2>5. bad <= faults + (IF batch = <<>> THEN 0 ELSE 1)
    <3>1. CASE batch = <<>>
      <4>1. BadCount(file) + Torn(file) <= faults
        BY <2>1, <3>1, LogFiles DEF LogCore, TornCounted
      <4> HIDE DEF bad
      <4> QED
        BY <2>2, <2>4, <3>1, <4>1
    <3>2. CASE batch # <<>>
      <4> HIDE DEF bad
      <4> QED
        BY <2>2, <2>4, <3>2
    <3> QED
      BY <3>1, <3>2
  <2>6. acked \ ToSet(Back(file)) \subseteq exposed
    <3>1. ToSet(OfWhole(file)) \subseteq ToSet(Back(file))
      BY <2>2, FileRead
    <3>2. \A w \in acked : Landed(file, exposed, w)
      BY <2>1 DEF LogCore, AckedLanded
    <3> QED
      BY <3>1, <3>2 DEF Landed
  <2>7. ASSUME NEW w \in ToSet(Back(file)) PROVE Copies(Back(file), w) <= attempts[w]
    <3>1. w \in Nat /\ Copies(Back(file), w) \in Nat /\ Copies(Back(file), w) # 0
      BY <2>2, FileRead, ReadHasCopies
    <3>2. Copies(Back(file), w) <= Att(attempts, w)
      BY <2>3, <3>1 DEF Harm
    <3>3. w \in DOMAIN attempts
      BY <3>1, <3>2 DEF Att
    <3> QED
      BY <3>2, <3>3 DEF Att
  <2> QED
    BY <2>5, <2>6, <2>7 DEF DamageContained, Back, BadOf, Copies, PlacesOf
<1> QED
  BY <1>1, LogIndHolds, PTL

===============================================================================
