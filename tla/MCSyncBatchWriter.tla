------------------------- MODULE MCSyncBatchWriter -------------------------
(* Instances of SyncBatchWriter for TLC. *)
EXTENDS SyncBatchWriter

Envelope(t, id, body) == [timestamp |-> t, event_id |-> id, body |-> body]

\* a and aa share a key: one UUID, and timestamps outside the i64 range of
\* nanoseconds (I64Bound = 8), which both give 0.
a  == Envelope(8, 1, "a")
aa == Envelope(-9, 1, "aa")
b  == Envelope(2, 1, "b")

MCEnvelopes == {a, aa, b}

\* Whatever the writer may have pending.
MCBatches == SeqOf(MCEnvelopes, MaxAdds)

\* The other client appends a batch that overlaps whatever the writer appends and
\* is longer than LargeBatch = 1, reads and compacts.
MCOtherCalls ==
    {[op |-> "append_events_optimized", envs |-> <<b, a>>]}
    \cup {r \in Calls : r.op \in {"compact", "read"}}

MCConfigs == {high_throughput(DefaultConfig), high_durability(DefaultConfig)}
============================================================================
