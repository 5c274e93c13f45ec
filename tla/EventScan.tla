----------------------------- MODULE EventScan -----------------------------
(***************************************************************************)
(* What the reads of the event store compute (event-store/src/store.rs):   *)
(* scans of the stored envelopes in key order.  Each is an operator on the *)
(* set S of stored envelopes, since a call holds the read lock from        *)
(* beginning to end.                                                       *)
(*                                                                         *)
(* An envelope has the fields timestamp, event_id and, where a filter asks *)
(* for them, event_type and accounts (those that event_data names).        *)
(***************************************************************************)
EXTENDS EventKeys, SequencesExt

CONSTANTS
    None,           \* Option::None
    DefaultLimit    \* 1000 in the code

ASSUME EventScanAssumption == DefaultLimit \in Nat \ {0}

\* S in the strict order Less, by rank (no two of S are equal under it).
Sorted(S, Less(_, _)) ==
    [i \in 1 .. Cardinality(S) |-> CHOOSE e \in S : Cardinality({f \in S : Less(f, e)}) = i - 1]

\* What db.iterator(IteratorMode::Start) goes through.
Scan(S) == Sorted(S, LAMBDA e, f : KeyLess(generate_event_key(e), generate_event_key(f)))

\* IteratorMode::From(&start_key, Forward): the 8-byte prefix sorts before every
\* key that it is a prefix of.
ScanFrom(S, start) ==
    IF start = None THEN Scan(S)
    ELSE Scan({e \in S : generate_event_key(e)[1] >= generate_time_key_prefix(start)})

\* The Merkle and digest events name no account.
event_matches_account(e, account) == account \in e.accounts

OrElse(option, default) == IF option = None THEN default ELSE option

WrongAccount(q, e) == q.account_id # None /\ ~event_matches_account(e, q.account_id)

\* Mutant: end_time is excluded.
PastEndInclusive(q, e) == q.end_time # None /\ e.timestamp >= q.end_time

PastEnd(q, e) == q.end_time # None /\ e.timestamp > q.end_time

WrongType(q, e) == q.event_types # None /\ e.event_type \notin q.event_types

\* One turn of the loop of query_events, in the order of its tests; stop is its
\* `break`, s unchanged its `continue`.
Visit(q, s, e) ==
    IF s.stop \/ WrongAccount(q, e) THEN s
    ELSE IF PastEnd(q, e) THEN [s EXCEPT !.stop = TRUE]
    ELSE IF WrongType(q, e) THEN s
    ELSE IF s.count < OrElse(q.offset, 0) THEN [s EXCEPT !.count = @ + 1]
    ELSE IF Len(s.events) >= OrElse(q.limit, DefaultLimit) THEN [s EXCEPT !.stop = TRUE]
    ELSE [events |-> Append(s.events, e), count |-> s.count + 1, stop |-> FALSE]

\* The loop over the envelopes of scan, after each of its turns.
QueryTurns(q, scan) ==
    LET after[i \in 0 .. Len(scan)] ==
            IF i = 0 THEN [events |-> <<>>, count |-> 0, stop |-> FALSE]
            ELSE Visit(q, after[i - 1], scan[i])
    IN  after

\* The events when the loop is through.
QueryEnd(q, S) ==
    LET scan == ScanFrom(S, q.start_time)
    IN  QueryTurns(q, scan)[Len(scan)].events

\* Mutant: has_more waits for more than limit envelopes.
query_events_strict(q, S) ==
    LET events == QueryEnd(q, S)
    IN  [events |-> events, has_more |-> Len(events) > OrElse(q.limit, DefaultLimit)]

query_events(q, S) ==
    LET events == QueryEnd(q, S)
    IN  [events |-> events, has_more |-> Len(events) = OrElse(q.limit, DefaultLimit)]

AllOf == [account_id |-> None, start_time |-> None, end_time |-> None,
          limit |-> None, offset |-> None, event_types |-> None]

\* The query with another offset.
WithOffset(q, n) ==
    [account_id |-> q.account_id, start_time |-> q.start_time, end_time |-> q.end_time,
     limit |-> q.limit, offset |-> n, event_types |-> q.event_types]

get_account_events(account, S) == query_events([AllOf EXCEPT !.account_id = account], S).events

get_events_in_range(start, end, S) ==
    query_events([AllOf EXCEPT !.start_time = start, !.end_time = end], S).events

\* The first match of a scan, or None.
get_event(id, S) ==
    LET scan  == Scan(S)
        found == {i \in DOMAIN scan : scan[i].event_id = id}
    IN  IF found = {} THEN None ELSE scan[Min(found)]

\* The iterator from the end, cut at limit, then reversed.
get_latest_events(limit, S) ==
    LET backward == Reverse(Scan(S))
    IN  Reverse(SubSeq(backward, 1, IF limit < Len(backward) THEN limit ELSE Len(backward)))

\* Mutant: newest and oldest follow one comparison.
CountOldest(s, e) ==
    LET t == IF s.oldest_event = None \/ e.timestamp < OrElse(s.oldest_event, 0)
               THEN e.timestamp ELSE s.oldest_event
    IN  [total_events |-> s.total_events + 1, oldest_event |-> t, newest_event |-> t]

\* The loop of get_statistics.
Count(s, e) ==
    [total_events |-> s.total_events + 1,
     oldest_event |-> IF s.oldest_event = None \/ e.timestamp < OrElse(s.oldest_event, 0)
                        THEN e.timestamp ELSE s.oldest_event,
     newest_event |-> IF s.newest_event = None \/ e.timestamp > OrElse(s.newest_event, 0)
                        THEN e.timestamp ELSE s.newest_event]

CountTurns(scan) ==
    LET after[i \in 0 .. Len(scan)] ==
            IF i = 0 THEN [total_events |-> 0, oldest_event |-> None, newest_event |-> None]
            ELSE Count(after[i - 1], scan[i])
    IN  after

get_statistics(S) == LET scan == Scan(S) IN CountTurns(scan)[Len(scan)]

----------------------------------------------------------------------------
(* Reference definitions.                                                  *)

\* The envelopes a query asks for, by what its fields say.
Matching(q, S) ==
    {e \in S : /\ q.account_id = None \/ q.account_id \in e.accounts
               /\ q.start_time = None \/ e.timestamp >= q.start_time
               /\ q.end_time = None \/ e.timestamp <= q.end_time
               /\ q.event_types = None \/ e.event_type \in q.event_types}

\* Envelopes in the order of their time.
ByTime(S) ==
    Sorted(S, LAMBDA e, f : KeyLess(<<e.timestamp, e.event_id>>, <<f.timestamp, f.event_id>>))

\* The page [offset, offset + limit) of a sequence.
Page(s, offset, limit) ==
    SubSeq(s, offset + 1, IF offset + limit < Len(s) THEN offset + limit ELSE Len(s))
============================================================================
