------------------------------- MODULE Predictor ------------------------------
(***************************************************************************)
(* The predictor (predictor.rs): a table of transitions between syscalls   *)
(* and a fallback distribution.  Probabilities are in units of 1/100000,   *)
(* in which all of the table's and the fallback's are whole numbers.       *)
(*                                                                         *)
(* The model that HotReloadablePredictor swaps in is built from the same   *)
(* table whatever the model file holds, so a reload changes nothing that   *)
(* predict_next returns.                                                   *)
(***************************************************************************)
EXTENDS SyscallTable, Sequences

\* build_transition_table: after each of four syscalls, the likely next ones.
transitions ==
  [id \in {CLOCK, SHA256, RENT, INVOKE_SIGNED} |->
     CASE id = CLOCK  -> << <<RENT, 40000>>, <<SHA256, 25000>>, <<INVOKE_SIGNED, 20000>>,
                            <<LOG, 10000>>, <<KECCAK256, 5000>> >>
       [] id = SHA256 -> << <<SECP256K1_RECOVER, 35000>>, <<SHA256, 25000>>,
                            <<INVOKE_SIGNED, 20000>>, <<LOG, 12000>>, <<KECCAK256, 8000>> >>
       [] id = RENT   -> << <<CLOCK, 30000>>, <<INVOKE_SIGNED, 30000>>, <<SHA256, 20000>>,
                            <<LOG, 15000>>, <<SET_RETURN_DATA, 5000>> >>
       [] id = INVOKE_SIGNED -> << <<CLOCK, 35000>>, <<SHA256, 25000>>, <<LOG, 20000>>,
                                   <<RENT, 15000>>, <<SET_RETURN_DATA, 5000>> >>]

\* default_distribution: 0.30 * 0.7^i for the i-th of five.
defaults == << <<CLOCK, 30000>>, <<SHA256, 21000>>, <<LOG, 14700>>,
               <<RENT, 10290>>, <<INVOKE_SIGNED, 7203>> >>

Take(candidates, top_k) ==
  SubSeq(candidates, 1, IF top_k < Len(candidates) THEN top_k ELSE Len(candidates))

\* predict_next: what follows the last call of the history.
predict_next(history, top_k) ==
  IF history # <<>> /\ history[Len(history)] \in DOMAIN transitions
  THEN Take(transitions[history[Len(history)]], top_k)
  ELSE Take(defaults, top_k)
===============================================================================
