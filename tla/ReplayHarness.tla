---------------------------- MODULE ReplayHarness -----------------------------
(***************************************************************************)
(* The replay binary (replay_harness.rs): it reads a snapshot, a line per  *)
(* recorded transaction, rebuilds the events of each line, passes them     *)
(* through a window builder and writes the windows it gets to the output.  *)
(*                                                                         *)
(* The snapshot comes from a generator, or it is a file of any origin: a   *)
(* line of it may be blank or not parse, may have no events array or an    *)
(* empty one, may lack an id, a slot or a time, for which the harness has  *)
(* defaults, and two lines may carry the same transaction id.              *)
(*                                                                         *)
(* pending is the harness's window builder, windows what has been written. *)
(***************************************************************************)
EXTENDS WindowBuilder, WorkloadGenerator

CONSTANTS ZeroTx,        \* zero_tx_id, read for a missing id
          ForeignLines   \* lines of a file that no generator wrote

\* The lines a file can hold: one that is skipped, or a recorded transaction.
SnapshotLines ==
  [kind : {"skipped"}]
    \cup [kind : {"window"}, tx : Optional(Txs), slot : Optional(Nat),
          events : Seq([id : Optional(Nat), ts : Optional(Nat)])]

\* The builder's windows, of 128 events, hold the longest generated transaction.
ASSUME ReplayAssumption ==
  ZeroTx \in Txs /\ ForeignLines \subseteq SnapshotLines /\ max_window_size >= 13

VARIABLES origin, at, phase, total_events, total_txs

replayVars == <<genVars, origin, at, phase, total_events, total_txs, vars>>

\* as_u64().unwrap_or(default), and the like for the transaction id.
OrElse(field, default) == IF field = <<>> THEN default ELSE field[1]

TxOf(line) == OrElse(line.tx, ZeroTx)

\* The events as the harness rebuilds them.
EventsOf(line) ==
  [i \in 1 .. Len(line.events) |->
     [tx |-> TxOf(line), slot |-> OrElse(line.slot, 0),
      id |-> OrElse(line.events[i].id, 1), ts |-> OrElse(line.events[i].ts, 0)]]

-------------------------------------------------------------------------------
ReplayInit ==
  /\ Init /\ GeneratorInit
  /\ origin \in {"file", "workload", "mock"}
  /\ at = 1 /\ phase = "write" /\ total_events = 0 /\ total_txs = 0

\* The snapshot is written before the harness reads it.
WriteSnapshot ==
  /\ phase = "write"
  /\ \/ origin = "workload" /\ \E tx \in Txs : GenerateTransaction(tx)
     \/ origin = "mock" /\ \E tx \in Txs : MockTransaction(tx)
     \/ /\ origin = "file" /\ Len(snapshot) < MaxLines
        /\ \E line \in ForeignLines : snapshot' = Append(snapshot, line)
        /\ UNCHANGED <<gen_ts, gen_slot>>
  /\ UNCHANGED <<origin, at, phase, total_events, total_txs, vars>>

\* The harness starts and has the whole snapshot.
StartReplay ==
  /\ phase = "write" /\ phase' = "replay"
  /\ UNCHANGED <<genVars, origin, at, total_events, total_txs, vars>>

Reading(kind) == phase = "replay" /\ at <= Len(snapshot) /\ snapshot[at].kind = kind

SkipLine ==
  /\ Reading("skipped")
  /\ at' = at + 1
  /\ UNCHANGED <<genVars, origin, phase, total_events, total_txs, vars>>

\* Every event of the line is ingested and counted, then its transaction is
\* finalized; the window, if there is one, is written and counted.  A write that
\* fails ends the program.
ReplayLine ==
  /\ Reading("window")
  /\ LET line == snapshot[at]
         open == FoldLeft(AfterIngest, pending, EventsOf(line))
         out  == Finalized(open, TxOf(line))
     IN  /\ ingested' = ingested \o EventsOf(line)
         /\ pending' = AfterRemove(open, TxOf(line))
         /\ total_events' = total_events + Len(line.events)
         /\ \/ /\ windows' = windows \o out /\ total_txs' = total_txs + Len(out)
               /\ at' = at + 1 /\ UNCHANGED phase
            \/ /\ out # <<>> /\ phase' = "failed"
               /\ UNCHANGED <<windows, total_txs, at>>
  /\ UNCHANGED <<genVars, origin>>

\* After the last line, what is still open is drained, written and counted.
DrainRest ==
  /\ phase = "replay" /\ at > Len(snapshot)
  /\ \E order \in DrainOrders(pending) :
       /\ windows' = windows \o Drained(pending, order)
       /\ total_txs' = total_txs + Len(Drained(pending, order))
  /\ pending' = <<>> /\ phase' = "flush"
  /\ UNCHANGED <<genVars, origin, at, total_events, ingested>>

Flush ==
  /\ phase = "flush" /\ phase' \in {"done", "failed"}
  /\ UNCHANGED <<genVars, origin, at, total_events, total_txs, vars>>

ReplayNext == WriteSnapshot \/ StartReplay \/ SkipLine \/ ReplayLine \/ DrainRest \/ Flush

ReplaySpec == ReplayInit /\ [][ReplayNext]_replayVars

-------------------------------------------------------------------------------
(* Properties *)

\* The lines read so far that hold at least one event, and how many of them there
\* are up to a line.
Fruitful == {k \in 1 .. at - 1 : snapshot[k].kind = "window" /\ snapshot[k].events # <<>>}
Rank(k) == Cardinality({j \in Fruitful : j <= k})

\* The window that a line should give: as many of its events as fit, and no others.
WindowOf(line) ==
  LET kept == SubSeq(EventsOf(line), 1, Min({Len(line.events), max_window_size}))
  IN  [tx |-> TxOf(line), slot |-> kept[1].slot, events |-> kept,
       start_ts |-> kept[1].ts, end_ts |-> Last(kept).ts]

\* The output has one window per line that has events, in the order of the lines
\* and with what the line holds: lines that share a transaction id, or lack one,
\* do not flow into one window, nothing is left over for the final drain, and the
\* transactions reported are the windows written.
LineByLine ==
  /\ total_txs = Len(windows)
  /\ Len(windows) = Cardinality(Fruitful)
  /\ \A k \in Fruitful : windows[Rank(k)] = WindowOf(snapshot[k])

\* A generated trace comes through the replay whole: no window is too small for a
\* transaction, slots never go back and none has more than PerSlot transactions.
\* In a workload, though not in a mock snapshot, the windows of successive
\* transactions are also apart in time.
GeneratedComesThrough ==
  origin # "file" =>
    /\ phase # "failed" => FoldLeft(LAMBDA n, w : n + Len(w.events), 0, windows) = total_events
    /\ \A i, j \in 1 .. Len(windows) : i < j =>
         /\ windows[i].slot <= windows[j].slot
         /\ origin = "workload" => windows[i].end_ts < windows[j].start_ts
    /\ \A i \in 1 .. Len(windows) :
         Cardinality({j \in 1 .. Len(windows) : windows[j].slot = windows[i].slot}) <= PerSlot
===============================================================================
