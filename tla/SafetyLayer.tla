----------------------------- MODULE SafetyLayer ------------------------------
(***************************************************************************)
(* The safety crate (classifier.rs, dependency_checker.rs, validator.rs)   *)
(* and the predictor's reorder_safe, which answers the same question.  All *)
(* of them are functions of a sequence of trace events.  The state is that *)
(* sequence, to which the events of a transaction are added one by one,    *)
(* and the properties compare the verdicts on it with what executing it,   *)
(* in its order or another, really does.                                   *)
(***************************************************************************)
EXTENDS SyscallSemantics

CONSTANTS Programs,             \* programs that run in the transaction
          Ids,                  \* the syscalls they make
          Args,                 \* the arguments they make them with
          enforce_determinism,  \* the flag given to SafetyValidator::new
          MaxLen                \* bound: events in the sequence

ASSUME SafetyAssumption == Ids \subseteq Nat /\ MaxLen \in Nat
                           /\ enforce_determinism \in BOOLEAN

VARIABLE sequence

Calls == [program : Programs, id : Ids, arg : Args]

-------------------------------------------------------------------------------
(* DependencyChecker *)

Mutating(id) == classify(id) \in {"StateChanging", "OrderSensitive"}

\* The pairs of positions that can be dependent: for j in i+1 ..
Later_Mut(S, i) == i + 2 .. Len(S)
Later(S, i) == i + 1 .. Len(S)

check_sequence(S) ==
  {d \in (1 .. Len(S)) \X (1 .. Len(S)) :
     /\ Mutating(S[d[1]].id) /\ d[2] \in Later(S, d[1])
     /\ S[d[1]].program = S[d[2]].program
     /\ classify(S[d[2]].id) \in Optimizable}

has_dependencies(S) == check_sequence(S) # {}

AllReadOnly(S) == \A i \in 1 .. Len(S) : classify(S[i].id) = "ReadOnly"

is_safe_to_reorder(S) == ~has_dependencies(S) /\ AllReadOnly(S)

-------------------------------------------------------------------------------
(* SafetyValidator: the approved field of each verdict *)

validate_cache(id) == ~enforce_determinism \/ classifier_eligible(id)

validate_batch(ids) == \A id \in ids : classifier_eligible(id)

validate_reorder(S) == ~has_dependencies(S) /\ is_safe_to_reorder(S)

-------------------------------------------------------------------------------
(* The predictor's heuristic *)

\* The mutant lets the id after the bound through.
reorder_safe_Mut(S) == \A i \in 1 .. Len(S) : S[i].id <= 30
reorder_safe(S) == \A i \in 1 .. Len(S) : S[i].id <= 29

-------------------------------------------------------------------------------
Init == sequence = <<>>

\* The next syscall of the transaction is traced.
Trace(call) == Len(sequence) < MaxLen /\ sequence' = Append(sequence, call)

Next == \E call \in Calls : Trace(call)

Spec == Init /\ [][Next]_sequence

-------------------------------------------------------------------------------
(* Properties *)

\* A sequence that may be executed in any order.
Commutes(S) ==
  \A order \in Orders(Len(S)) : ExecInOrder(Programs, S, order) = Exec(Programs, S)

\* Whatever validate_reorder approves may be reordered at will: every order
\* gives each call the same return value and leaves the same state.
ReorderSound == validate_reorder(sequence) => Commutes(sequence)

\* The two ways to ask about reordering agree: validate_reorder, which looks at
\* the whole sequence and its dependencies, approves exactly the sequences in
\* which can_reorder allows every two calls to change places.  Its verdict
\* therefore does not depend on the order the sequence is in already.
VerdictPairwise ==
  validate_reorder(sequence) <=>
    \A i, j \in 1 .. Len(sequence) : can_reorder(sequence[i].id, sequence[j].id)

\* The places of the calls that are not mutating.
Reads(S) == {i \in 1 .. Len(S) : ~Mutating(S[i].id)}

\* Within one program check_sequence misses no read after a write: if it reports
\* nothing, no mutating call has changed what an optimizable call returns, which
\* is what it would return had the mutating calls not been made.
RawDependenciesFound ==
  /\ ~has_dependencies(sequence)
  /\ \A i, j \in 1 .. Len(sequence) : sequence[i].program = sequence[j].program
  => LET alone == ExecInOrder(Programs, sequence, Ascending(Reads(sequence)))
     IN  \A i \in Reads(sequence) : alone.results[i] = Exec(Programs, sequence).results[i]

\* The runtime's registry and the safety crate's classifier, two tables kept by
\* hand, agree on every traced call: handle reports it as eligible exactly when
\* the validator would let it be deduplicated.
EligibilityAgrees ==
  \A i \in 1 .. Len(sequence) :
    registry_eligible(sequence[i].id) <=> validate_dedup(sequence[i].id)

\* The predictor's reorder_safe, which looks at the ids alone, is right but for
\* logs: what it approves may be reordered exactly if the logging calls in it,
\* which it lets through, all write the same line.
PredictorSoundButForLogs ==
  reorder_safe(sequence) =>
    LET logs == {i \in 1 .. Len(sequence) : sequence[i].id \in LogIds}
    IN  Commutes(sequence) <=> \A i, j \in logs : sequence[i].arg = sequence[j].arg
===============================================================================
