--------------------------- MODULE SyscallSemantics ---------------------------
(***************************************************************************)
(* What executing syscalls does, as far as the optimizations can change    *)
(* it: exec(S) of docs/safety_proofs.md, the return values of a sequence   *)
(* of calls and the state they leave.  The syscalls are implemented by the *)
(* blockchain runtime, not by this repository; this module is taken from   *)
(* what the classification and the documents say each of them does.        *)
(*                                                                         *)
(* A call is a record of the program that makes it, the syscall and its    *)
(* argument.  The state is the slot the transaction executes in, which     *)
(* fixes the sysvars it sees, the return data of the transaction, the log, *)
(* the memory of each program (one cell) and whether execution aborted.    *)
(***************************************************************************)
EXTENDS SyscallTable, Sequences, SequencesExt

NoResult == <<"none">>

StartState(Programs, slot) ==
  [slot |-> slot, ret |-> NoResult, log |-> <<>>,
   mem |-> [p \in Programs |-> 0], dead |-> FALSE]

\* The value a call returns in state st.
ResultOf(st, call) ==
  CASE st.dead                    -> NoResult
    [] call.id \in SysvarIds      -> <<"sysvar", call.id, st.slot>>
    [] call.id \in CryptoIds      -> <<"digest", call.id, call.arg>>
    [] call.id = GET_RETURN_DATA  -> st.ret
    [] call.id = MEMCMP           -> <<"order", st.mem[call.program], call.arg>>
    [] OTHER                      -> NoResult

\* The state a call leaves.  A program invoked by another one may log and set
\* the return data.
StateAfter(st, call) ==
  CASE st.dead                     -> st
    [] call.id \in LogIds          -> [st EXCEPT !.log = Append(@, <<"line", call.arg>>)]
    [] call.id = SET_RETURN_DATA   -> [st EXCEPT !.ret = <<"data", call.arg>>]
    [] call.id = MEMSET            -> [st EXCEPT !.mem[call.program] = call.arg]
    [] call.id = INVOKE_SIGNED     -> [st EXCEPT !.log = Append(@, <<"cpi", call.arg>>),
                                                 !.ret = <<"cpi", call.arg>>]
    [] call.id \in {PANIC, ABORT}  -> [st EXCEPT !.dead = TRUE]
    [] OTHER                       -> st

\* Executing the calls of S in the given order of their positions: the state
\* they leave and the result that each position gets.
ExecInOrder(Programs, S, order) ==
  FoldLeft(LAMBDA acc, i : [state |-> StateAfter(acc.state, S[i]),
                            results |-> [acc.results EXCEPT ![i] = ResultOf(acc.state, S[i])]],
           [state |-> StartState(Programs, 0), results |-> [i \in 1 .. Len(S) |-> NoResult]],
           order)

Exec(Programs, S) == ExecInOrder(Programs, S, [i \in 1 .. Len(S) |-> i])

Orders(n) == {p \in [1 .. n -> 1 .. n] : IsInjective(p)}

\* The members of a set of numbers, the smallest first.
Ascending(T) ==
  CHOOSE order \in [1 .. Cardinality(T) -> T] :
    \A a, b \in 1 .. Cardinality(T) : a < b => order[a] < order[b]
===============================================================================
