--------------------------- MODULE MCSyscallRuntime ---------------------------
(* The simulation with few events, a channel shorter than the simulation and *)
(* a slot that changes in the middle of it.                                  *)
EXTENDS SyscallRuntime

MCCallers == {main}
MCIds == {CLOCK, INVOKE_SIGNED}
===============================================================================
