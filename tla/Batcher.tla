------------------------------- MODULE Batcher --------------------------------
(***************************************************************************)
(* The batcher of the optimizer (batcher.rs) in front of the safety layer. *)
(* batch_sysvar_reads is a function of the pending calls; these are the    *)
(* sequence of SafetyLayer, to which calls are added one by one.           *)
(***************************************************************************)
EXTENDS SafetyLayer

can_batch(id) == id \in 1 .. 9

\* hashes.push unless hashes.contains.  The mutant looks at the last one only.
WithHash_Mut(hashes, hash) ==
  IF hashes # <<>> /\ Last(hashes) = hash THEN hashes ELSE Append(hashes, hash)
WithHash(hashes, hash) == IF Contains(hashes, hash) THEN hashes ELSE Append(hashes, hash)

\* groups: the hashes asked for under each batchable id.
WithCall(groups, p) ==
  IF ~can_batch(p.id) THEN groups
  ELSE [id \in DOMAIN groups \cup {p.id} |->
          IF id # p.id THEN groups[id]
          ELSE WithHash(IF id \in DOMAIN groups THEN groups[id] ELSE <<>>, p.arg)]

Groups(pending) == FoldLeft(WithCall, <<>>, pending)

\* The order in which the groups are given out: sort_unstable.  The mutant is the
\* map's own order, here the descending one.
SortedIds_Mut(groups) == Reverse(Ascending(DOMAIN groups))
SortedIds(groups) == Ascending(DOMAIN groups)

batch_sysvar_reads(pending) ==
  LET groups == Groups(pending)
      ids == SortedIds(groups)
  IN  [i \in 1 .. Len(ids) |->
         [syscall_ids |-> [j \in 1 .. Len(groups[ids[i]]) |-> ids[i]],
          args_hashes |-> groups[ids[i]]]]

-------------------------------------------------------------------------------
(* Properties *)

\* The fetches of a list of batches, each by its batch and its place there: f comes
\* before g when the batches are carried out in the order they are given out.
Places(batches) ==
  UNION {{<<b, k>> : k \in 1 .. Len(batches[b].args_hashes)} : b \in 1 .. Len(batches)}

Fetched(batches, f) == <<batches[f[1]].syscall_ids[f[2]], batches[f[1]].args_hashes[f[2]]>>

Before(f, g) == f[1] < g[1] \/ (f[1] = g[1] /\ f[2] < g[2])

\* Whether the i-th call of S asks for the given id and hash.
Asks(S, i, wanted) == wanted = <<S[i].id, S[i].arg>>

\* The batches fetch what is pending: every sysvar read is answered by exactly
\* one fetch, calls with the same id and hash share it, no other call is, and
\* nothing is fetched that no call asks for.  (Of the ids that the registry
\* knows; can_batch also accepts 7 to 9, which it does not.)
FetchedOnce ==
  LET batches == batch_sysvar_reads(sequence)
      answers(i) == {f \in Places(batches) : Asks(sequence, i, Fetched(batches, f))}
  IN  /\ \A f \in Places(batches) : \E i \in 1 .. Len(sequence) : f \in answers(i)
      /\ \A i \in 1 .. Len(sequence) :
           sequence[i].id \in KnownIds =>
             Cardinality(answers(i)) = IF get_class(sequence[i].id) = "SysvarRead" THEN 1 ELSE 0

\* Two runtimes that have the same calls pending give out the same batches, in
\* the same order, whatever order the calls of different ids arrived in: the ids
\* are sorted, and within an id what was asked for first is fetched first.
BatchesDeterministic ==
  LET batches == batch_sysvar_reads(sequence)
  IN  \A f, g \in Places(batches) :
        Before(f, g) =>
          \/ Fetched(batches, f)[1] < Fetched(batches, g)[1]
          \/ /\ Fetched(batches, f)[1] = Fetched(batches, g)[1]
             /\ \E i \in 1 .. Len(sequence) :
                  /\ Asks(sequence, i, Fetched(batches, f))
                  /\ \A j \in 1 .. i : ~Asks(sequence, j, Fetched(batches, g))
===============================================================================
