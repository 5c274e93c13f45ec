---------------------------- MODULE MCEventQuery ----------------------------
(* Instances of EventQuery for TLC. *)
EXTENDS EventQuery

Envelope(t, id, type, accounts) ==
    [timestamp |-> t, event_id |-> id, event_type |-> type, accounts |-> accounts]

\* Timestamps from the epoch to the end of the i64 range (I64Bound = 8), two at
\* one time, one UUID at two times, a transaction between both accounts and an
\* event that names none.
MCEnvelopes == {
    Envelope(0, 2, "AccountCreated", {"A"}),
    Envelope(1, 1, "TransactionProcessed", {"A", "B"}),
    Envelope(1, 3, "BalanceUpdated", {"A"}),
    Envelope(3, 1, "MerkleRootGenerated", {}),
    Envelope(7, 5, "BalanceUpdated", {"A"})}

Query(account, start, end, limit, offset, types) ==
    [account_id |-> account, start_time |-> start, end_time |-> end,
     limit |-> limit, offset |-> offset, event_types |-> types]

\* Every combination of filters, with no limit, zero and less than the default.
MCQueries ==
    {Query(a, s, e, l, o, ty) :
        a \in {None, "A"}, s \in {None, 1}, e \in {None, 1, 3},
        l \in {None, 0, 2}, o \in {None, 1},
        ty \in {None, {"TransactionProcessed", "BalanceUpdated"}}}

MCNoQueries == {}

MCPagedQueries == {q \in MCQueries : q.start_time = None /\ q.end_time = None /\ q.offset = None
                                     /\ q.event_types = None /\ q.limit = 2}

\* Ranges that start before and after the epoch.
MCFarQueries == {Query(None, s, 7, None, None, None) : s \in {-1, 1}}
============================================================================
