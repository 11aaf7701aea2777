---------------------------- MODULE MCSysvarCache -----------------------------
(* Three keys, one per policy as get applies it, in a cache of two entries,  *)
(* shared by two clients.                                                    *)
EXTENDS SysvarCache, TLC

CONSTANTS c1, c2

MCClients == {c1, c2}
ClientSymmetry == Permutations(MCClients)

MCIds == {SLOT_HASHES, SHA256, STAKE_HISTORY}
ClockOnly == {CLOCK}
StakeHistoryOnly == {STAKE_HISTORY}
===============================================================================
