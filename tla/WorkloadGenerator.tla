-------------------------- MODULE WorkloadGenerator ---------------------------
(***************************************************************************)
(* The two generators of synthetic traces: the workload generator          *)
(* (workload_generator.rs) and the mock snapshot that the replay binary    *)
(* makes up when its file does not exist (replay_harness.rs).  Each writes *)
(* a line per transaction.                                                 *)
(*                                                                         *)
(* A line is a record of what the JSON may hold: a field that may be       *)
(* missing is a sequence of at most one value.  Times are in units of 50   *)
(* microseconds, in which the generators' steps are whole numbers.  The    *)
(* draws of the random generator are bounded by constants.                 *)
(***************************************************************************)
EXTENDS SyscallTable, Sequences

CONSTANTS CryptoCounts,  \* draws of n_crypto, in 2 .. 7
          ReadCounts,    \* draws of n_reads, in 3 .. 9
          CryptoPool,    \* draws of a crypto syscall
          MockCounts,    \* draws of n_events, in 3 .. 9
          MockPool,      \* draws from syscall_pool
          PerSlot,       \* transactions in a slot, 432
          MaxLines       \* bound: lines of a trace

ASSUME GeneratorAssumption ==
  /\ CryptoCounts \subseteq 2 .. 7 /\ ReadCounts \subseteq 3 .. 9 /\ MockCounts \subseteq 3 .. 9
  /\ CryptoPool \subseteq {SHA256, KECCAK256, SECP256K1_RECOVER}
  /\ MockPool \subseteq {CLOCK, RENT, SHA256, KECCAK256, LOG, INVOKE_SIGNED}
  /\ PerSlot \in Nat \ {0} /\ MaxLines \in Nat

\* A field that may be missing.
Optional(S) == {v \in Seq(S) : Len(v) <= 1}

VARIABLES snapshot,  \* the lines of the file
          gen_ts, gen_slot

genVars == <<snapshot, gen_ts, gen_slot>>

Interval == 8   \* 400 microseconds per syscall

\* The syscalls of one transaction, by profile.
generate_syscall_sequence(profile) ==
  CASE profile = "DeFi" ->
         {<<CLOCK, RENT>> \o crypto \o <<INVOKE_SIGNED, LOG>> :
            crypto \in UNION {[1 .. n -> CryptoPool] : n \in CryptoCounts}}
    [] profile = "Nft" ->
         {<<CLOCK>> \o [i \in 1 .. n |-> LOG] \o <<SHA256, INVOKE_SIGNED, SET_RETURN_DATA>> :
            n \in ReadCounts}
    [] profile = "TokenTransfer" ->
         {<<CLOCK, RENT, LOG, INVOKE_SIGNED, SET_RETURN_DATA>>}

\* The line of a transaction that makes the given calls from time ts on.  What the
\* replay does not read of it (hashes, depth, start and end) is left out.
LineFor(tx, in_slot, ids, ts) ==
  [kind |-> "window", tx |-> <<tx>>, slot |-> <<in_slot>>,
   events |-> [i \in 1 .. Len(ids) |-> [id |-> <<ids[i]>>, ts |-> <<ts + (i - 1) * Interval>>]]]

\* The time of the next transaction: the calls and a gap of 50 microseconds.  The
\* mutant ends a transaction with its last call.
NextTs_Mut(ids) == gen_ts + (Len(ids) - 1) * Interval
NextTs(ids) == gen_ts + Len(ids) * Interval + 1

GeneratorInit == snapshot = <<>> /\ gen_ts = 0 /\ gen_slot = 0

\* One round of the workload generator's loop; the index is the number of lines
\* written.  The slot advances after the first transaction and then after every
\* PerSlot.
GenerateTransaction(tx) ==
  /\ Len(snapshot) < MaxLines
  /\ \E profile \in {"DeFi", "Nft", "TokenTransfer"} :
       \E ids \in generate_syscall_sequence(profile) :
         /\ snapshot' = Append(snapshot, LineFor(tx, gen_slot, ids, gen_ts))
         /\ gen_ts' = NextTs(ids)
  /\ gen_slot' = IF Len(snapshot) % PerSlot = 0 THEN gen_slot + 1 ELSE gen_slot

\* One round of generate_mock_snapshot: a transaction per millisecond, whatever
\* the length of the one before.
MockTransaction(tx) ==
  /\ Len(snapshot) < MaxLines
  /\ \E n \in MockCounts : \E ids \in [1 .. n -> MockPool] :
       snapshot' = Append(snapshot, LineFor(tx, Len(snapshot) \div PerSlot, ids,
                                            20 * Len(snapshot)))
  /\ UNCHANGED <<gen_ts, gen_slot>>
===============================================================================
