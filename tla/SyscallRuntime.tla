---------------------------- MODULE SyscallRuntime ----------------------------
(***************************************************************************)
(* The runtime binary (src/bin/syscallmind_runtime.rs): main calls handle  *)
(* for TotalEvents events and advances the slot now and then, a second     *)
(* thread drains the trace channel, and at the end main drops the handler, *)
(* which closes the channel, and joins the drain thread.  The handler and  *)
(* the channel are those of SyscallHandler; main is the only caller that   *)
(* takes steps.                                                            *)
(***************************************************************************)
EXTENDS SyscallHandler

CONSTANTS main,         \* the main thread
          TotalEvents,  \* total_events
          SlotPeriod    \* 432: the slot advances when i % 432 == 0

ASSUME RuntimeAssumption ==
  /\ main \in Callers
  /\ TotalEvents \in Nat /\ SlotPeriod \in Nat \ {0}
  /\ MaxCalls >= TotalEvents /\ MaxSlot >= TotalEvents

VARIABLES mainPc, i,         \* main: where it is, and its loop counter
          drainPc, count,    \* the drain thread, and the events it counted
          processed          \* what join returned

mainVars == <<mainPc, i, processed>>
drainVars == <<drainPc, count>>
runtimeVars == <<handlerVars, mainVars, drainVars>>

RuntimeInit == /\ HandlerInit
               /\ mainPc = "loop" /\ i = 0 /\ processed = 0
               /\ drainPc = "recv" /\ count = 0

-------------------------------------------------------------------------------
(* main *)

MainCall(id) ==
  /\ mainPc = "loop" /\ i < TotalEvents
  /\ HandleBegin(main, id)
  /\ mainPc' = "call"
  /\ UNCHANGED <<i, processed, drainVars>>

MainInHandle ==
  /\ mainPc = "call"
  /\ HandleStep(main)
  /\ mainPc' = IF pc'[main] = "idle" THEN "slot" ELSE "call"
  /\ UNCHANGED <<i, processed, drainVars>>

SlotIsDue == i % SlotPeriod = 0

MainSlot ==
  /\ mainPc = "slot"
  /\ \/ SlotIsDue /\ AdvanceSlot(main)
     \/ ~SlotIsDue /\ UNCHANGED handlerVars
  /\ i' = i + 1
  /\ mainPc' = "loop"
  /\ UNCHANGED <<processed, drainVars>>

\* drop(handler) drops the emitter and with it the only sender.
SenderAfterDrop_Mut == senderUp
SenderAfterDrop == FALSE

MainDropHandler ==
  /\ mainPc = "loop" /\ i = TotalEvents
  /\ senderUp' = SenderAfterDrop
  /\ mainPc' = "join"
  /\ UNCHANGED <<slots, counterVars, channel, receiverUp, emitted, received, unheard,
                 callerVars, i, processed, drainVars>>

MainJoin ==
  /\ mainPc = "join" /\ drainPc = "exited"
  /\ processed' = count
  /\ mainPc' = "done"
  /\ UNCHANGED <<handlerVars, i, drainVars>>

-------------------------------------------------------------------------------
(* The drain thread: while let Ok(_event) = rx.recv() { count += 1 }         *)

DrainReceives ==
  /\ drainPc = "recv"
  /\ Receive
  /\ count' = count + 1
  /\ UNCHANGED <<mainVars, drainPc>>

\* recv fails only when the channel is empty and its sender gone; try_recv in
\* its place fails as soon as the channel is empty.
RecvFails_Mut == channel = <<>>
RecvFails == channel = <<>> /\ ~senderUp

DrainExits ==
  /\ drainPc = "recv" /\ RecvFails
  /\ drainPc' = "exited"
  /\ receiverUp' = FALSE
  /\ UNCHANGED <<slots, counterVars, channel, senderUp, emitted, received, unheard,
                 callerVars, mainVars, count>>

-------------------------------------------------------------------------------
Main == \/ \E id \in Ids : MainCall(id)
        \/ MainInHandle \/ MainSlot \/ MainDropHandler \/ MainJoin

Drain == DrainReceives \/ DrainExits

RuntimeNext == Main \/ Drain

\* Two running threads, neither of which the scheduler stops for ever.
RuntimeSpec == /\ RuntimeInit /\ [][RuntimeNext]_runtimeVars
               /\ WF_runtimeVars(Main) /\ WF_runtimeVars(Drain)

-------------------------------------------------------------------------------
(* Properties *)

\* The count of processed events that main prints is complete: when join has
\* returned, every event of the simulation is in it or in the emitter's count of
\* dropped ones (which main does not print), and none met a closed channel or was
\* left behind in it.
ReportComplete ==
  mainPc = "done" => /\ processed + dropped = TotalEvents
                     /\ received = emitted /\ unheard = 0

\* The program ends: dropping the handler wakes the drain thread, and join
\* returns.
RuntimeEnds == <>(mainPc = "done")
===============================================================================
