-------------------------- MODULE MCBatchProcessor --------------------------
(* Instances of BatchProcessor for TLC. *)
EXTENDS BatchProcessor, TLC

Envelope(t, body) == [timestamp |-> t, event_id |-> 1, body |-> body]

\* The second producer's envelope has the key of the first producer's first
\* (a retry).
MCInput == "r1" :> <<Envelope(1, "a"), Envelope(2, "b")>>
           @@ "r2" :> <<Envelope(1, "again")>>
============================================================================
