---------------------------- MODULE MCEventStore ----------------------------
(* Instances of EventStore for TLC. *)
EXTENDS EventStore

Envelope(t, id) == [timestamp |-> t, event_id |-> id, body |-> "body"]

a == Envelope(1, 1)
b == Envelope(2, 1)

MCEnvelopes == {a, b}

\* The batch of two is longer than LargeBatch = 1.
MCBatches == {<<a>>, <<a, b>>}

MCSync      == {high_durability(DefaultConfig)}
MCEncodings == {DefaultConfig, development(DefaultConfig)}
============================================================================
