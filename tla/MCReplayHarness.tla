--------------------------- MODULE MCReplayHarness ----------------------------
(* Snapshots of up to four lines.  Windows hold 13 events, which the longest *)
(* generated transaction just fills and one line of a foreign file exceeds.  *)
EXTENDS ReplayHarness

CONSTANTS t0, t1

MCTxs == {t0, t1}

Recorded(tx, slot, events) == [kind |-> "window", tx |-> tx, slot |-> slot, events |-> events]
Recall(id, ts) == [id |-> id, ts |-> ts]

MCForeignLines ==
  {[kind |-> "skipped"],
   Recorded(<<t0>>, <<1>>, <<>>),
   Recorded(<<t1>>, <<1>>, [i \in 1 .. 14 |-> Recall(<<CLOCK>>, <<i>>)]),
   Recorded(<<t1>>, <<2>>, <<Recall(<<SHA256>>, <<9>>), Recall(<<LOG>>, <<4>>)>>),
   Recorded(<<>>, <<>>, <<Recall(<<>>, <<3>>), Recall(<<LOG>>, <<>>)>>),
   Recorded(<<t0>>, <<3>>, <<Recall(<<RENT>>, <<5>>)>>)}
===============================================================================
