--------------------------- MODULE AppendOnlyLog ---------------------------
(***************************************************************************)
(* What the event store promises its callers: a set of immutable events,   *)
(* at most one per key, that only grows, by whole batches of fresh keys;   *)
(* a power failure may take back events that were not yet durable, and     *)
(* nothing else ever removes or changes one.                               *)
(***************************************************************************)
EXTENDS EventKeys

CONSTANT Envelopes

VARIABLES
    events,    \* the envelopes a reader can see
    durable,   \* those that are on disk
    epoch      \* number of power failures so far

vars == <<events, durable, epoch>>

StoredKeys == {generate_event_key(e) : e \in events}

Init == events = {} /\ durable = {} /\ epoch = 0

\* A batch is added as a whole, under keys nobody has used; when the write is
\* synchronous everything written so far becomes durable with it.
AddEvents(S, sync) ==
    /\ S # {}
    /\ \A e \in S : generate_event_key(e) \notin StoredKeys
    /\ \A e, f \in S : generate_event_key(e) = generate_event_key(f) => e = f
    /\ events' = events \cup S
    /\ durable' = IF sync THEN events' ELSE durable
    /\ UNCHANGED epoch

Sync == durable' = events /\ UNCHANGED <<events, epoch>>

PowerFailure ==
    /\ epoch' = epoch + 1
    /\ events' \in {S \in SUBSET events : durable \subseteq S}
    /\ durable' = events'

Next ==
    \/ \E S \in SUBSET Envelopes, sync \in BOOLEAN : AddEvents(S, sync)
    \/ Sync
    \/ PowerFailure

Spec == Init /\ [][Next]_vars
============================================================================
