------------------------------ MODULE TraceQueue ------------------------------
(***************************************************************************)
(* What a bounded trace buffer promises its two ends, whatever it is made  *)
(* of: events come out in the order in which they were accepted, each one  *)
(* once, none invented, and never more than Capacity of them are held.     *)
(*                                                                         *)
(* accepted is every event ever taken in, delivered every event ever given *)
(* back.  The lock-free ring buffer of the pipeline (module RingBuffer) is  *)
(* shown to implement this specification.                                  *)
(***************************************************************************)
EXTENDS Naturals, Sequences

CONSTANTS Events,    \* the trace events that can be recorded
          Capacity   \* how many accepted events may await delivery

VARIABLES accepted, delivered

queueVars == <<accepted, delivered>>

QueueTypeOK == /\ accepted \in Seq(Events)
               /\ delivered \in Seq(Events)

QueueInit == accepted = <<>> /\ delivered = <<>>

Enqueue(e) == /\ Len(accepted) < Len(delivered) + Capacity
              /\ accepted' = Append(accepted, e)
              /\ UNCHANGED delivered

Dequeue == /\ Len(delivered) < Len(accepted)
           /\ delivered' = Append(delivered, accepted[Len(delivered) + 1])
           /\ UNCHANGED accepted

QueueNext == Dequeue \/ \E e \in Events : Enqueue(e)

QueueSpec == QueueInit /\ [][QueueNext]_queueVars
===============================================================================
