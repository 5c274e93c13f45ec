----------------------------- MODULE EventKeys -----------------------------
(***************************************************************************)
(* Storage keys of the event store (event-store/src/serialization.rs).     *)
(*                                                                         *)
(* An envelope is a record with at least the fields timestamp (an integer  *)
(* number of nanoseconds since the epoch, of any size: chrono's DateTime   *)
(* spans far more than an i64 of nanoseconds) and event_id (a UUID, here a *)
(* natural number ordered as its bytes).                                   *)
(***************************************************************************)
EXTENDS Integers, Sequences

CONSTANT I64Bound   \* 2^63: an i64 lies in -I64Bound .. I64Bound - 1

ASSUME I64BoundAssumption == I64Bound \in Nat \ {0}

I64 == -I64Bound .. (I64Bound - 1)

\* timestamp_nanos_opt().unwrap_or(0): None outside the i64 range.
NanosOrZero(t) == IF t \in I64 THEN t ELSE 0

\* `as u64` on an i64: two's complement.
AsU64(n) == IF n < 0 THEN n + 2 * I64Bound ELSE n

generate_time_key_prefix(t) == AsU64(NanosOrZero(t))

\* 8 big-endian bytes of time, then the 16 bytes of the UUID.
generate_event_key(e) == <<generate_time_key_prefix(e.timestamp), e.event_id>>

\* RocksDB's bytewise order on 24-byte keys.
KeyLess(k, l) == k[1] < l[1] \/ (k[1] = l[1] /\ k[2] < l[2])

----------------------------------------------------------------------------
(* A write batch: a sequence of envelopes put in order, the last put of a  *)
(* key being the one that stays.                                           *)

KeysOf(b) == {generate_event_key(b[i]) : i \in DOMAIN b}

LastPuts(b) ==
    {b[i] : i \in {j \in DOMAIN b : \A m \in DOMAIN b :
                       m > j => generate_event_key(b[m]) # generate_event_key(b[j])}}

EnvelopesOf(b) == {b[i] : i \in DOMAIN b}

DistinctKeys(b) ==
    \A i, j \in DOMAIN b : generate_event_key(b[i]) = generate_event_key(b[j]) => i = j
============================================================================
