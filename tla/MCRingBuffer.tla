----------------------------- MODULE MCRingBuffer -----------------------------
(* Model values for RingBuffer: three slots, so that two events fill the     *)
(* buffer, and enough pushes for both indices to wrap.                       *)
EXTENDS RingBuffer, TLC

CONSTANTS e1, e2

MCEvents == {e1, e2}
===============================================================================
