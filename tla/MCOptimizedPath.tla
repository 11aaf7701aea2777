---------------------------- MODULE MCOptimizedPath ---------------------------
(* Two prefetch threads at a threshold of 0.30, which is exactly what the    *)
(* clock has at the beginning; the second prediction is too weak.  After a   *)
(* clock the rent sysvar is fetched, which nobody reads.                     *)
(*                                                                           *)
(* Log, memory write and comparison are the eligible calls with an effect or *)
(* with a result that depends on one, and ABORT is a call that bypasses the  *)
(* table.                                                                    *)
EXTENDS OptimizedPath

CONSTANTS t1, t2, p1, f1, f2

MCTxs == {t1, t2}
MCPrograms == {p1}
MCPrefetchers == {f1, f2}
PathSymmetry == Permutations(MCTxs) \cup Permutations(MCPrefetchers)

MCIds == {CLOCK, LOG, MEMSET, MEMCMP, ABORT}
===============================================================================
