----------------------------- MODULE EventQuery -----------------------------
(***************************************************************************)
(* The read side of the event store (event-store/src/store.rs): what its   *)
(* reads answer, and a client that pages through an answer with offset and *)
(* has_more while others append.                                           *)
(***************************************************************************)
EXTENDS EventScan

CONSTANTS
    Envelopes,
    Queries,        \* records [account_id, start_time, end_time, limit, offset, event_types]
    PagedQueries    \* those the paging client may ask

ASSUME EventQueryAssumption ==
    /\ PagedQueries \subseteq Queries
    /\ None \notin Int /\ None \notin Envelopes
    /\ \A e \in Envelopes : e.timestamp \in Int /\ e.event_id \in Nat /\ None \notin e.accounts
    /\ \A q \in Queries :
          /\ q.limit \in Nat \cup {None} /\ q.offset \in Nat \cup {None}
          /\ q.start_time \in Int \cup {None} /\ q.end_time \in Int \cup {None}

VARIABLES
    db,         \* envelopes in the database
    phase,      \* the client is "idle", "paging" or "done"
    query,      \* what it asks, with the offset of the next page
    returned,   \* the envelopes of the pages so far
    atStart,    \* history: the envelopes that matched when it began
    inserted    \* history: an append landed before an envelope already returned

vars == <<db, phase, query, returned, atStart, inserted>>

----------------------------------------------------------------------------
(* The paging client.                                                      *)

Init ==
    /\ db = {} /\ phase = "idle" /\ query = AllOf
    /\ returned = <<>> /\ atStart = {} /\ inserted = FALSE

\* append_event of an envelope whose key is new
AppendEvent(e) ==
    /\ \A f \in db : generate_event_key(f) # generate_event_key(e)
    /\ db' = db \cup {e}
    /\ inserted' = (inserted \/ /\ Matching(query, {e}) # {}
                                /\ \E i \in DOMAIN returned :
                                      KeyLess(generate_event_key(e), generate_event_key(returned[i])))
    /\ UNCHANGED <<phase, query, returned, atStart>>

FirstQuery(q) ==
    /\ phase = "idle"
    /\ phase' = "paging"
    /\ query' = WithOffset(q, 0)
    /\ atStart' = Matching(q, db)
    /\ UNCHANGED <<db, returned, inserted>>

\* Mutant: the offset grows by the page size asked for.
NextPageByLimit ==
    /\ phase = "paging"
    /\ LET page == query_events(query, db)
       IN  /\ returned' = returned \o page.events
           /\ query' = WithOffset(query, query.offset + query.limit)
           /\ phase' = IF page.has_more THEN "paging" ELSE "done"
    /\ UNCHANGED <<db, atStart, inserted>>

NextPage ==
    /\ phase = "paging"
    /\ LET page == query_events(query, db)
       IN  /\ returned' = returned \o page.events
           /\ query' = WithOffset(query, query.offset + Len(page.events))
           /\ phase' = IF page.has_more THEN "paging" ELSE "done"
    /\ UNCHANGED <<db, atStart, inserted>>

Next ==
    \/ \E e \in Envelopes : AppendEvent(e)
    \/ \E q \in PagedQueries : FirstQuery(q)
    \/ NextPage

Spec == Init /\ [][Next]_vars

----------------------------------------------------------------------------
TypeOK ==
    /\ db \in SUBSET Envelopes
    /\ phase \in {"idle", "paging", "done"}
    /\ returned \in Seq(Envelopes)
    /\ atStart \in SUBSET Envelopes
    /\ inserted \in BOOLEAN
    /\ IF phase = "idle" THEN query = AllOf
       ELSE \E q \in PagedQueries : query = WithOffset(q, Len(returned))

\* query_events gives the page of the matching envelopes in time order that
\* limit and offset select, and says FALSE for has_more only when nothing
\* follows it, whatever the combination of filters.
QueryMatches ==
    \A q \in Queries :
        LET limit  == OrElse(q.limit, DefaultLimit)
            offset == OrElse(q.offset, 0)
            all    == ByTime(Matching(q, db))
            answer == query_events(q, db)
        IN  /\ answer.events = Page(all, offset, limit)
            /\ ~answer.has_more => Len(all) <= offset + Len(answer.events)

\* Following has_more from page to page gives every envelope that matched at
\* the start once and no envelope twice, as long as appends do not land before
\* what was already returned.
PagingExact ==
    ~inserted => /\ IsInjective(returned)
                 /\ phase = "done" => atStart \subseteq EnvelopesOf(returned)

\* get_latest_events gives the newest envelopes, each once, in whatever order;
\* get_account_events gives envelopes of the account only, and all of them in the
\* order of time where no more than the default limit are stored; get_statistics
\* gives the size and the extent in time of the store, get_event an envelope
\* exactly for stored ids.
SummariesAgree ==
    LET all == ByTime(db) IN
    /\ \A n \in 0 .. Len(all) + 1 :
           LET newest == Page(all, IF n < Len(all) THEN Len(all) - n ELSE 0, n)
               latest == get_latest_events(n, db)
           IN  EnvelopesOf(latest) = EnvelopesOf(newest) /\ Len(latest) = Len(newest)
    /\ \A a \in UNION {e.accounts : e \in db} :
           LET own == {e \in db : a \in e.accounts}
           IN  /\ EnvelopesOf(get_account_events(a, db)) \subseteq own
               /\ Cardinality(own) <= DefaultLimit => get_account_events(a, db) = ByTime(own)
    /\ get_statistics(db) =
           [total_events |-> Cardinality(db),
            oldest_event |-> IF db = {} THEN None ELSE Head(all).timestamp,
            newest_event |-> IF db = {} THEN None ELSE Last(all).timestamp]
    /\ \A e \in Envelopes :
           get_event(e.event_id, db) # None <=> \E f \in db : f.event_id = e.event_id

----------------------------------------------------------------------------
(* What comments in the code say, and the code does not do.                *)

\* "Get events in a time range", from any start time
RangeComplete ==
    \A q \in Queries : q.start_time # None /\ q.end_time # None =>
        EnvelopesOf(get_events_in_range(q.start_time, q.end_time, db))
          = Matching([AllOf EXCEPT !.start_time = q.start_time, !.end_time = q.end_time], db)
============================================================================
