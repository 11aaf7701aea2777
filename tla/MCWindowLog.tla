----------------------------- MODULE MCWindowLog ------------------------------
(* Two transactions whose events arrive interleaved, windows of two, and one *)
(* fault while the windows are written to the file.                          *)
EXTENDS WindowLog

CONSTANTS t1, t2

MCTxs == {t1, t2}
TxSymmetry == Permutations(MCTxs)
===============================================================================
