--------------------------- MODULE MCSyscallHandler ---------------------------
(* Two callers that share a handler and a channel of one event, so that it   *)
(* is full while another call is under way.  One syscall is enough: the id   *)
(* of a call only selects the counter it is added to.                        *)
EXTENDS SyscallHandler

CONSTANTS t1, t2

MCCallers == {t1, t2}
MCIds == {CLOCK}
===============================================================================
