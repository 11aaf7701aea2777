---------------------------- MODULE WindowBuilder -----------------------------
(***************************************************************************)
(* The window builder of the pipeline (window_builder.rs): it groups the   *)
(* trace events by transaction, keeps at most max_window_size of them per  *)
(* open window, and gives a window out when its transaction is finalized   *)
(* or when everything is drained.                                          *)
(*                                                                         *)
(* Events of several transactions arrive interleaved, and an event may     *)
(* arrive after its transaction was finalized: it opens a new window.  An  *)
(* event is a record of its transaction, its slot and its timestamp, here  *)
(* the number of the arrival.                                              *)
(***************************************************************************)
EXTENDS Naturals, Sequences, SequencesExt, FiniteSets

CONSTANTS Txs,              \* transaction ids
          Slots,            \* slots the events come from
          max_window_size,  \* events a window may hold
          MaxEvents         \* bound: events that arrive

ASSUME WindowAssumption == max_window_size \in Nat /\ MaxEvents \in Nat

VARIABLES pending,   \* open windows: a function from some transactions to events
          windows,   \* history: the windows given out, in order
          ingested   \* history: the events that arrived, in order

vars == <<pending, windows, ingested>>

Events == [tx : Txs, slot : Slots, ts : 1 .. MaxEvents]

-------------------------------------------------------------------------------
(* The operations, as functions of the map of open windows *)

\* ingest's test before it pushes.  The mutants are off by one either way.
HasRoom_Mut(events) == Len(events) <= max_window_size
HasRoom_LowMut(events) == Len(events) + 1 < max_window_size
HasRoom(events) == Len(events) < max_window_size

\* entry(tx).or_default(): the open window of tx, opened empty if there is none.
Entry(open, tx) == IF tx \in DOMAIN open THEN open[tx] ELSE <<>>

\* ingest(event)
AfterIngest(open, event) ==
  [tx \in DOMAIN open \cup {event.tx} |->
     IF tx = event.tx /\ HasRoom(Entry(open, tx))
     THEN Append(Entry(open, tx), event) ELSE Entry(open, tx)]

\* remove(tx).  The mutant leaves the window open.
AfterRemove_Mut(open, tx) == open
AfterRemove(open, tx) == [t \in DOMAIN open \ {tx} |-> open[t]]

\* The window made of the events that are open under tx.
WindowFrom(open, tx) ==
  [tx |-> tx, slot |-> Head(open[tx]).slot, events |-> open[tx],
   start_ts |-> Head(open[tx]).ts, end_ts |-> Last(open[tx]).ts]

\* The window that finalize(tx) gives out, as a sequence of at most one: none if
\* the transaction has no open window or an empty one.
Finalized(open, tx) == IF Entry(open, tx) = <<>> THEN <<>> ELSE <<WindowFrom(open, tx)>>

\* drain_all() finalizes the transactions in the order of the map's keys, which
\* may be any, and keeps the windows it gets: those that are not empty.
DrainOrders(open) == SetToSeqs({tx \in DOMAIN open : open[tx] # <<>>})

Drained(open, order) == [i \in 1 .. Len(order) |-> WindowFrom(open, order[i])]

-------------------------------------------------------------------------------
Init == pending = <<>> /\ windows = <<>> /\ ingested = <<>>

Ingest(event) ==
  /\ Len(ingested) < MaxEvents /\ event.ts = Len(ingested) + 1
  /\ pending' = AfterIngest(pending, event)
  /\ ingested' = Append(ingested, event)
  /\ UNCHANGED windows

Finalize(tx) ==
  /\ windows' = windows \o Finalized(pending, tx)
  /\ pending' = AfterRemove(pending, tx)
  /\ UNCHANGED ingested

DrainAll ==
  /\ \E order \in DrainOrders(pending) : windows' = windows \o Drained(pending, order)
  /\ pending' = <<>>
  /\ UNCHANGED ingested

Next == (\E event \in Events : Ingest(event)) \/ (\E tx \in Txs : Finalize(tx)) \/ DrainAll

Spec == Init /\ [][Next]_vars

-------------------------------------------------------------------------------
(* Properties *)

\* Open windows hold events of their transaction, within the size limit.
TypeOK ==
  /\ DOMAIN pending \subseteq Txs
  /\ \A tx \in DOMAIN pending :
       /\ Len(pending[tx]) <= max_window_size
       /\ \A i \in 1 .. Len(pending[tx]) : pending[tx][i] \in Events /\ pending[tx][i].tx = tx

\* The windows of a transaction: the places of those given out, and all of them,
\* with the open one, as sequences of events.
GivenOf(tx) == {i \in 1 .. Len(windows) : windows[i].tx = tx}

WindowsOf(tx) == {windows[i].events : i \in GivenOf(tx)} \cup {Entry(pending, tx)}

Earlier(v, w) == \A i \in 1 .. Len(v), j \in 1 .. Len(w) : v[i].ts < w[j].ts

\* Put one after the other, the windows of a transaction are its events in the
\* order they arrived, none twice and none of another transaction: the windows
\* given out for one transaction never overlap, however often it is finalized.
OrderKept ==
  \A tx \in Txs :
    /\ \A w \in WindowsOf(tx) :
         /\ \A i \in 1 .. Len(w) : w[i] = ingested[w[i].ts] /\ w[i].tx = tx
         /\ \A i, j \in 1 .. Len(w) : i < j => w[i].ts < w[j].ts
    /\ \A a \in GivenOf(tx) :
         /\ Earlier(windows[a].events, Entry(pending, tx))
         /\ \A b \in GivenOf(tx) : a < b => Earlier(windows[a].events, windows[b].events)

\* Event n is in a window, or found the window of its transaction full: the last
\* one begun before it already held max_window_size events, all older.
KeptOrFull(n) ==
  LET all == WindowsOf(ingested[n].tx)
      begun == {w \in all : w # <<>> /\ Head(w).ts < n}
  IN  (\A w \in all : \A i \in 1 .. Len(w) : w[i] # ingested[n]) =>
        \E w \in begun : /\ Len(w) = max_window_size /\ Last(w).ts < n
                         /\ \A v \in begun : Head(v).ts <= Head(w).ts
===============================================================================
