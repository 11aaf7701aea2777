------------------------------ MODULE DedupTable ------------------------------
(***************************************************************************)
(* The intra-transaction deduplication table of the optimizer (dedup.rs)   *)
(* under the transactions that use it.  One table serves all of them: its  *)
(* keys begin with the transaction's id, and clear_transaction drops the   *)
(* keys of a transaction that completes.                                   *)
(*                                                                         *)
(* The caller is the synchronous path of the README: if validate_dedup     *)
(* approves the syscall it asks check_and_count, and on a miss it executes *)
(* the call and records the result.  The table is taken by &mut, so each   *)
(* call of it is one step, but other transactions take steps between a     *)
(* miss and the record that follows it.  A transaction may be executed     *)
(* again, in a later slot, under the same id.                              *)
(***************************************************************************)
EXTENDS SyscallSemantics, FiniteSets

CONSTANTS Txs,        \* transaction ids
          Programs,   \* programs that run in them
          Ids,        \* the syscalls they make
          Args,       \* the arguments (args_hash, taken to be free of collisions)
          MaxCalls,   \* bound: calls in one execution of a transaction
          MaxRuns     \* bound: executions started

ASSUME DedupAssumption == /\ Ids \subseteq Nat
                          /\ MaxCalls \in Nat /\ MaxRuns \in Nat

VARIABLES table,        \* (transaction, syscall, args_hash) -> recorded result
          dedup_count,  \* lookups answered from the table
          phase,        \* of each transaction: idle, running, executing (missed)
          pending,      \* the call a transaction has missed and executes, or none
          actual,       \* the state each transaction is in, with deduplication
          made,         \* history: the calls it made in this execution
          given,        \* history: the results it was given for them
          runs          \* executions started, which is also the slot

vars == <<table, dedup_count, phase, pending, actual, made, given, runs>>

Calls == [program : Programs, id : Ids, arg : Args]

\* The key of an entry.  The mutant leaves the transaction out of it.
Key_Mut(tx, call) == <<call.id, call.arg>>
Key(tx, call) == <<tx, call.id, call.arg>>

-------------------------------------------------------------------------------
Init ==
  /\ table = <<>> /\ dedup_count = 0 /\ runs = 0
  /\ phase = [tx \in Txs |-> "idle"]
  /\ pending = [tx \in Txs |-> <<>>]
  /\ actual = [tx \in Txs |-> StartState(Programs, 0)]
  /\ made = [tx \in Txs |-> <<>>]
  /\ given = [tx \in Txs |-> <<>>]

\* A transaction begins to execute.
Begin(tx) ==
  /\ phase[tx] = "idle" /\ runs < MaxRuns
  /\ runs' = runs + 1
  /\ phase' = [phase EXCEPT ![tx] = "running"]
  /\ actual' = [actual EXCEPT ![tx] = StartState(Programs, runs + 1)]
  /\ UNCHANGED <<table, dedup_count, pending, made, given>>

\* A transaction that has aborted makes no further call.
MayCall(tx) == phase[tx] = "running" /\ Len(made[tx]) < MaxCalls /\ ~actual[tx].dead

Give(tx, call, result) ==
  /\ made' = [made EXCEPT ![tx] = Append(@, call)]
  /\ given' = [given EXCEPT ![tx] = Append(@, result)]

\* The call really is executed.
Perform(tx, call) ==
  /\ Give(tx, call, ResultOf(actual[tx], call))
  /\ actual' = [actual EXCEPT ![tx] = StateAfter(@, call)]

\* A call that validate_dedup rejects goes straight to its implementation.
Bypass(tx, call) ==
  /\ MayCall(tx) /\ ~validate_dedup(call.id)
  /\ Perform(tx, call)
  /\ UNCHANGED <<table, dedup_count, phase, pending, runs>>

\* check_and_count finds the key: the caller gets the recorded result and the
\* call is not executed.
CheckHit(tx, call) ==
  /\ MayCall(tx) /\ validate_dedup(call.id)
  /\ Key(tx, call) \in DOMAIN table
  /\ dedup_count' = dedup_count + 1
  /\ Give(tx, call, table[Key(tx, call)])
  /\ UNCHANGED <<table, phase, pending, actual, runs>>

\* check_and_count does not find it.
CheckMiss(tx, call) ==
  /\ MayCall(tx) /\ validate_dedup(call.id)
  /\ Key(tx, call) \notin DOMAIN table
  /\ phase' = [phase EXCEPT ![tx] = "executing"]
  /\ pending' = [pending EXCEPT ![tx] = <<call>>]
  /\ UNCHANGED <<table, dedup_count, actual, made, given, runs>>

\* HashMap::insert: the entry replaces one under the same key.
record(key, result) ==
  table' = [k \in DOMAIN table \cup {key} |-> IF k = key THEN result ELSE table[k]]

\* The missed call is executed and its result recorded.
Record(tx) ==
  /\ phase[tx] = "executing"
  /\ Perform(tx, Head(pending[tx]))
  /\ record(Key(tx, Head(pending[tx])), ResultOf(actual[tx], Head(pending[tx])))
  /\ phase' = [phase EXCEPT ![tx] = "running"]
  /\ pending' = [pending EXCEPT ![tx] = <<>>]
  /\ UNCHANGED <<dedup_count, runs>>

\* The keys that clear_transaction retains.  The mutant is a clear that is forgotten.
Retained_Mut(tx) == DOMAIN table
Retained(tx) == {k \in DOMAIN table : k[1] # tx}

\* The transaction completes: clear_transaction.  Its history ends.
Complete(tx) ==
  /\ phase[tx] = "running"
  /\ table' = [k \in Retained(tx) |-> table[k]]
  /\ phase' = [phase EXCEPT ![tx] = "idle"]
  /\ made' = [made EXCEPT ![tx] = <<>>]
  /\ given' = [given EXCEPT ![tx] = <<>>]
  /\ actual' = [actual EXCEPT ![tx] = StartState(Programs, 0)]
  /\ UNCHANGED <<dedup_count, pending, runs>>

Next ==
  \E tx \in Txs :
    \/ Begin(tx) \/ Record(tx) \/ Complete(tx)
    \/ \E call \in Calls : Bypass(tx, call) \/ CheckHit(tx, call) \/ CheckMiss(tx, call)

Spec == Init /\ [][Next]_vars

-------------------------------------------------------------------------------
(* Properties *)

\* What the execution of tx would be without deduplication, so far.
Reference(tx) ==
  FoldLeft(LAMBDA acc, call : [state |-> StateAfter(acc.state, call),
                               results |-> Append(acc.results, ResultOf(acc.state, call))],
           [state |-> StartState(Programs, actual[tx].slot), results |-> <<>>],
           made[tx])

\* Deduplication is safe: every transaction gets the results, and is in the
\* state, of its execution without the table.
DedupSafe ==
  \A tx \in Txs : /\ given[tx] = Reference(tx).results
                  /\ actual[tx] = Reference(tx).state

\* The table is exactly what the current executions have done: under a
\* transaction it holds the keys of the eligible calls made since it began, no
\* fewer (a call is never executed twice) and no more (nothing survives from an
\* earlier execution, and no transaction records under another's id).
TableHoldsOwnCalls ==
  DOMAIN table =
    UNION {{<<tx, made[tx][i].id, made[tx][i].arg>> :
              i \in {j \in 1 .. Len(made[tx]) : validate_dedup(made[tx][j].id)}} :
           tx \in {t \in Txs : phase[t] # "idle"}}
===============================================================================
