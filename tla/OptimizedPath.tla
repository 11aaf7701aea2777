---------------------------- MODULE OptimizedPath -----------------------------
(***************************************************************************)
(* The synchronous path of the repository's README, as far as it shares    *)
(* results between calls: the validator, then the deduplication table,     *)
(* then the prefetch buffer, then the real syscall.  No code puts these    *)
(* together, so the order is the README's and the steps are those of       *)
(* DedupTable and Prefetcher.                                              *)
(*                                                                         *)
(* The transactions run while prefetch threads trigger what the predictor  *)
(* expects next.  The caller of trigger adds the args_hash of an earlier   *)
(* call, here any.                                                         *)
(***************************************************************************)
EXTENDS DedupTable, Prefetcher

CONSTANT top_k   \* predictions asked for

ASSUME PathAssumption == top_k \in Nat \ {0}

VARIABLE fromBuffer   \* history: per transaction, the keys that consume served

pathVars == <<vars, prefetchVars, fromBuffer>>

PathInit == Init /\ PrefetchInit /\ fromBuffer = [tx \in Txs |-> {}]

CallKey(call) == <<call.id, call.arg>>

PathComplete(tx) ==
  /\ Complete(tx)
  /\ fromBuffer' = [fromBuffer EXCEPT ![tx] = {}]
  /\ UNCHANGED prefetchVars

\* The call misses the table and finds its result in the buffer: it gets and
\* records this result and is not executed.
ServePrefetched(tx) ==
  LET call == Head(pending[tx])
  IN  /\ phase[tx] = "executing"
      /\ ConsumeHit(CallKey(call))
      /\ Give(tx, call, buffer[CallKey(call)])
      /\ record(Key(tx, call), buffer[CallKey(call)])
      /\ phase' = [phase EXCEPT ![tx] = "running"]
      /\ pending' = [pending EXCEPT ![tx] = <<>>]
      /\ fromBuffer' = [fromBuffer EXCEPT ![tx] = @ \cup {CallKey(call)}]
      /\ UNCHANGED <<dedup_count, actual, runs>>

\* It finds nothing there and is executed.
Fallthrough(tx) ==
  /\ phase[tx] = "executing"
  /\ ConsumeMiss(CallKey(Head(pending[tx])))
  /\ Record(tx)
  /\ UNCHANGED fromBuffer

\* The predictions for what follows the calls of tx, with an argument.
PredictionsFor(tx, arg) ==
  LET next == predict_next([i \in 1 .. Len(made[tx]) |-> made[tx][i].id], top_k)
  IN  [i \in 1 .. Len(next) |-> <<next[i][1], arg, next[i][2]>>]

PrefetchStep(t) ==
  /\ \/ \E tx \in Txs, arg \in Args :
          phase[tx] = "running" /\ TriggerBegin(t, PredictionsFor(tx, arg))
     \/ TriggerSkip(t)
     \/ TriggerFetch(t)
     \/ TriggerInsert(t)
  /\ UNCHANGED <<vars, fromBuffer>>

PathNext ==
  \/ \E tx \in Txs :
       \/ PathComplete(tx) \/ ServePrefetched(tx) \/ Fallthrough(tx)
       \/ /\ \/ Begin(tx)
             \/ \E call \in Calls : Bypass(tx, call) \/ CheckHit(tx, call) \/ CheckMiss(tx, call)
          /\ UNCHANGED <<prefetchVars, fromBuffer>>
  \/ \E t \in Prefetchers : PrefetchStep(t)

PathSpec == PathInit /\ [][PathNext]_pathVars

-------------------------------------------------------------------------------
(* Properties *)

\* The call was answered without being executed: the buffer served its key to
\* this execution, or the execution made it before.
Skipped(tx, i) ==
  /\ validate_dedup(made[tx][i].id)
  /\ \/ CallKey(made[tx][i]) \in fromBuffer[tx]
     \/ \E j \in 1 .. i - 1 : CallKey(made[tx][j]) = CallKey(made[tx][i])

\* The return data may have changed since tx first made its i-th call.
SetSince(tx, i) ==
  \E j, k \in 1 .. i - 1 : /\ j < k
                           /\ CallKey(made[tx][j]) = CallKey(made[tx][i])
                           /\ made[tx][k].id \in {SET_RETURN_DATA, INVOKE_SIGNED}

\* A write or comparison of memory was skipped, the i-th call included.
MemorySkipped(tx, i) ==
  \E k \in 1 .. i : Skipped(tx, k) /\ made[tx][k].id \in {MEMSET, MEMCMP}

\* How far the optimized path strays from plain execution, whatever calls are
\* made, also by other transactions.  Return data, abort and slot of a transaction
\* are those of plain execution, since no call that mutates them is ever skipped.
\* A result is that of plain execution, except for what the buffer served to this
\* very execution, which is what simulate_fetch makes up for the syscall; for a
\* repeated read of return data that were set in between; and for a comparison of
\* memory after a call on memory was skipped.
DeviationsConfined ==
  \A tx \in Txs :
    LET plain == Reference(tx)
    IN  /\ actual[tx].slot = plain.state.slot
        /\ actual[tx].ret = plain.state.ret
        /\ actual[tx].dead = plain.state.dead
        /\ \A i \in 1 .. Len(made[tx]) :
             LET call == made[tx][i]
             IN  IF CallKey(call) \in fromBuffer[tx]
                 THEN given[tx][i] = simulate_fetch(call.id)
                 ELSE \/ given[tx][i] = plain.results[i]
                      \/ call.id = GET_RETURN_DATA /\ SetSince(tx, i)
                      \/ call.id = MEMCMP /\ MemorySkipped(tx, i)

\* A transaction that reads something twice gets the same answer twice, also if
\* the buffer served the first read and has since been filled anew.
RepeatableReads ==
  \A tx \in Txs : \A i, j \in 1 .. Len(made[tx]) :
    /\ validate_dedup(made[tx][i].id)
    /\ CallKey(made[tx][i]) = CallKey(made[tx][j])
    => given[tx][i] = given[tx][j]
===============================================================================
