----------------------------- MODULE MCDedupTable -----------------------------
(* Two transactions, executed three times between them.  The return-data     *)
(* calls are the ones whose result changes within a transaction.             *)
EXTENDS DedupTable

CONSTANTS t1, t2, p1

MCTxs == {t1, t2}
MCPrograms == {p1}

ReturnIds == {CLOCK, SET_RETURN_DATA, GET_RETURN_DATA}
===============================================================================
