---------------------------- MODULE MCSafetyLayer -----------------------------
(* Sequences of up to three calls of two programs, with a syscall of every   *)
(* kind; 99 is an id that no table knows.  The calls that the batcher takes  *)
(* are among them.                                                           *)
EXTENDS Batcher

CONSTANTS p1, p2

MCPrograms == {p1, p2}
ProgramSymmetry == Permutations(MCPrograms)

MCIds == {CLOCK, STAKE_HISTORY, LOG, SHA256, INVOKE_SIGNED, SET_RETURN_DATA,
          GET_RETURN_DATA, MEMSET, MEMCMP, PANIC, 99}
===============================================================================
