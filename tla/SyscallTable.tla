----------------------------- MODULE SyscallTable -----------------------------
(***************************************************************************)
(* The syscall ids of the common crate and the two tables that classify    *)
(* them: the registry of the runtime crate, which decides what handle      *)
(* reports as eligible, and the classifier of the safety crate, which      *)
(* decides what the validator approves.  An id is the u32 of the source.   *)
(***************************************************************************)
EXTENDS Naturals

CLOCK == 1
RENT == 2
EPOCH_SCHEDULE == 3
FEES == 4
SLOT_HASHES == 5
STAKE_HISTORY == 6
SysvarIds == {CLOCK, RENT, EPOCH_SCHEDULE, FEES, SLOT_HASHES, STAKE_HISTORY}

LOG == 10
LogIds == 10 .. 13               \* log, log_64, log_pubkey, log_compute_units

SHA256 == 20
KECCAK256 == 21
SECP256K1_RECOVER == 22
ED25519_VERIFY == 23
CryptoIds == 20 .. 23            \* sha256, keccak256, secp256k1, ed25519

INVOKE_SIGNED == 30
SET_RETURN_DATA == 40
GET_RETURN_DATA == 41

MEMSET == 53
MEMCMP == 54
MemoryIds == 50 .. 54            \* alloc_free, memcpy, memmove, memset, memcmp

PANIC == 60
ABORT == 61

KnownIds == SysvarIds \cup LogIds \cup CryptoIds \cup MemoryIds
              \cup {INVOKE_SIGNED, SET_RETURN_DATA, GET_RETURN_DATA, PANIC, ABORT}

SafetyClasses == {"ReadOnly", "Idempotent", "StateChanging", "OrderSensitive"}
Optimizable == {"ReadOnly", "Idempotent"}

-------------------------------------------------------------------------------
(* SyscallRegistry *)

get_class(id) ==
  CASE id \in SysvarIds -> "SysvarRead"
    [] id \in LogIds \cup MemoryIds \cup {GET_RETURN_DATA} -> "AccountRead"
    [] id \in CryptoIds -> "Crypto"
    [] id = INVOKE_SIGNED -> "CPI"
    [] id = SET_RETURN_DATA -> "StateChange"
    [] id \in {PANIC, ABORT} -> "Abort"
    [] OTHER -> "Unknown"

get_safety(id) ==
  CASE id \in SysvarIds \cup {GET_RETURN_DATA, MEMCMP} -> "ReadOnly"
    [] id \in LogIds \cup CryptoIds \cup (MemoryIds \ {MEMCMP}) -> "Idempotent"
    [] id = INVOKE_SIGNED -> "OrderSensitive"
    [] OTHER -> "StateChanging"

registry_eligible(id) == get_safety(id) \in Optimizable

-------------------------------------------------------------------------------
(* SyscallClassifier *)

\* Memory operations put among the pure reads.
classify_Mut(id) ==
  CASE id \in SysvarIds \cup MemoryIds \cup {GET_RETURN_DATA} -> "ReadOnly"
    [] id \in LogIds \cup CryptoIds -> "Idempotent"
    [] id = INVOKE_SIGNED -> "OrderSensitive"
    [] OTHER -> "StateChanging"

\* An id missing from the table taken for a harmless one.
classify_DefaultMut(id) ==
  CASE id \in SysvarIds \cup {GET_RETURN_DATA} -> "ReadOnly"
    [] id = INVOKE_SIGNED -> "OrderSensitive"
    [] id \in {SET_RETURN_DATA, PANIC, ABORT} -> "StateChanging"
    [] OTHER -> "Idempotent"

classify(id) ==
  CASE id \in SysvarIds \cup {GET_RETURN_DATA} -> "ReadOnly"
    [] id \in LogIds \cup CryptoIds \cup MemoryIds -> "Idempotent"
    [] id = INVOKE_SIGNED -> "OrderSensitive"
    [] OTHER -> "StateChanging"

classifier_eligible(id) == classify(id) \in Optimizable

\* SafetyValidator's verdict on deduplicating calls of a syscall.
validate_dedup(id) == classify(id) \in Optimizable

can_reorder(a, b) == classify(a) = "ReadOnly" /\ classify(b) = "ReadOnly"
===============================================================================
