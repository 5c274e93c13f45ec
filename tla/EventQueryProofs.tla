-------------------------- MODULE EventQueryProofs --------------------------
(***************************************************************************)
(* Theorems about EventQuery, for any envelopes and queries, and stores of *)
(* any size.                                                               *)
(***************************************************************************)
EXTENDS EventQuery, EventScanProofs

\* Appends keep to the envelopes, and to one for each key.
StoreInv == db \subseteq Envelopes /\ IsFiniteSet(db) /\ OneKey(db)

\* Nothing is returned before the first query.
IdleInv == phase = "idle" => returned = <<>>

QueryInv == TypeOK /\ StoreInv /\ IdleInv

\* The envelopes of a store have a time.
LEMMA StoreTimed == ASSUME NEW S \in SUBSET Envelopes PROVE Timed(S)
BY EventQueryAssumption DEF Timed

\* The fields of a query with another offset.
LEMMA OffsetFields ==
    ASSUME NEW q, NEW n
    PROVE  LET r == WithOffset(q, n)
           IN  /\ r.account_id = q.account_id /\ r.start_time = q.start_time /\ r.end_time = q.end_time
               /\ r.limit = q.limit /\ r.offset = n /\ r.event_types = q.event_types
BY DEF WithOffset

LEMMA OffsetAgain ==
    ASSUME NEW q, NEW n, NEW k PROVE WithOffset(WithOffset(q, n), k) = WithOffset(q, k)
BY DEF WithOffset

\* What matches does not depend on the offset.
LEMMA OffsetMatching == ASSUME NEW q, NEW n, NEW S PROVE Matching(WithOffset(q, n), S) = Matching(q, S)
BY OffsetFields DEF Matching

\* The store keeps one envelope for each key.
LEMMA StoreStep == StoreInv /\ [Next]_vars => StoreInv'
<1> SUFFICES ASSUME StoreInv, [Next]_vars PROVE StoreInv'
    OBVIOUS
<1>1. ASSUME NEW e \in Envelopes, AppendEvent(e) PROVE StoreInv'
  <2>1. db' = db \cup {e} /\ \A f \in db : generate_event_key(f) # generate_event_key(e)
        BY <1>1 DEF AppendEvent
  <2>2. IsFiniteSet(db')
        BY <2>1, FS_AddElement DEF StoreInv
  <2> QED BY <2>1, <2>2 DEF StoreInv, OneKey
<1>2. CASE db' = db
      BY <1>2 DEF StoreInv
<1> QED BY <1>1, <1>2 DEF Next, FirstQuery, NextPage, vars

\* Every step keeps the types.
LEMMA QueryStep == QueryInv /\ [Next]_vars => QueryInv'
<1> SUFFICES ASSUME QueryInv, [Next]_vars PROVE QueryInv'
    OBVIOUS
<1>0. TypeOK /\ StoreInv /\ StoreInv' /\ IdleInv
      BY StoreStep DEF QueryInv
<1>5. IdleInv'
      BY <1>0 DEF IdleInv, Next, AppendEvent, FirstQuery, NextPage, vars
<1>1. ASSUME NEW e \in Envelopes, AppendEvent(e) PROVE TypeOK'
      BY <1>0, <1>1 DEF AppendEvent, TypeOK
<1>2. ASSUME NEW q \in PagedQueries, FirstQuery(q) PROVE TypeOK'
  <2>1. /\ phase = "idle" /\ phase' = "paging" /\ query' = WithOffset(q, 0)
        /\ atStart' = Matching(q, db) /\ UNCHANGED <<db, returned, inserted>>
        BY <1>2 DEF FirstQuery
  <2>2. Matching(q, db) \subseteq Envelopes
        BY <1>0 DEF Matching, StoreInv
  <2>3. returned = <<>> => query' = WithOffset(q, Len(returned'))
        BY <2>1
  <2> QED BY <1>0, <2>1, <2>2, <2>3 DEF TypeOK, IdleInv
<1>3. ASSUME NextPage PROVE TypeOK'
  <2> DEFINE page == query_events(query, db)
  <2>1. /\ phase = "paging" /\ returned' = returned \o page.events
        /\ query' = WithOffset(query, query.offset + Len(page.events))
        /\ phase' \in {"paging", "done"} /\ UNCHANGED <<db, atStart, inserted>>
        BY <1>3 DEF NextPage
  <2>2. page.events \in Seq(db)
    <3>1. page.events = QueryEnd(query, db)
          BY DEF query_events
    <3> QED BY <1>0, <3>1, StoreTimed, QueryEndTyped DEF StoreInv
  <2> HIDE DEF page
  <2>3. page.events \in Seq(Envelopes) /\ returned \in Seq(Envelopes)
        BY <1>0, <2>2 DEF TypeOK, StoreInv
  <2>4. returned' \in Seq(Envelopes) /\ Len(returned') = Len(returned) + Len(page.events)
        BY <2>1, <2>3
  <2>5. PICK q \in PagedQueries : query = WithOffset(q, Len(returned))
        BY <1>0, <2>1 DEF TypeOK
  <2>6. query' = WithOffset(q, Len(returned'))
        BY <2>1, <2>4, <2>5, OffsetFields, OffsetAgain
  <2> QED BY <1>0, <2>1, <2>4, <2>6 DEF TypeOK
<1>4. ASSUME UNCHANGED vars PROVE TypeOK'
      BY <1>0, <1>4 DEF TypeOK, vars
<1> QED BY <1>0, <1>1, <1>2, <1>3, <1>4, <1>5 DEF Next, QueryInv

\* The client starts with an empty store.
LEMMA QueryStart == Init => QueryInv
<1> SUFFICES ASSUME Init PROVE QueryInv
    OBVIOUS
<1>1. <<>> \in Seq(Envelopes) /\ IsFiniteSet({})
      BY FS_EmptySet
<1> QED BY <1>1 DEF Init, QueryInv, TypeOK, StoreInv, OneKey, IdleInv

LEMMA QueryAlways == Spec => []QueryInv
BY QueryStart, QueryStep, PTL DEF Spec

\* The store, the paging client and its history keep their types: the offset of
\* the next page is always the number of envelopes returned so far.
THEOREM TypesHold == Spec => []TypeOK
<1>1. QueryInv => TypeOK
      BY DEF QueryInv
<1> QED BY <1>1, QueryAlways, PTL

----------------------------------------------------------------------------
(* Queries.  The hypothesis of what follows is that envelopes and the      *)
(* start times of queries lie between 1970 and 2262: run event_query_range *)
(* shows that it cannot be left out.                                       *)

SinceEpoch == AfterEpoch(Envelopes) /\ \A q \in Queries : FromEpoch(q)

\* What a query of Queries, from any offset, answers.
LEMMA AnswerOf ==
    ASSUME SinceEpoch, NEW S \in SUBSET Envelopes, IsFiniteSet(S), OneKey(S), NEW p \in Queries,
           NEW q, q = p \/ \E n \in Nat : q = WithOffset(p, n)
    PROVE  LET all == ByTime(Matching(p, S))
               answer == query_events(q, S)
           IN  /\ all \in Seq(S) /\ Len(all) = Cardinality(Matching(p, S))
               /\ Offset(q) \in Nat /\ Limit(q) \in Nat
               /\ answer.events \in Seq(S)
               /\ answer.events = Page(all, Offset(q), Limit(q))
               /\ ~answer.has_more => Len(all) <= Offset(q) + Len(answer.events)
<1>1. Timed(S) /\ AfterEpoch(S)
      BY StoreTimed DEF SinceEpoch, AfterEpoch
<1>2. QueryTyped(q) /\ FromEpoch(q) /\ Matching(q, S) = Matching(p, S)
  <2>1. QueryTyped(p) /\ FromEpoch(p)
        BY EventQueryAssumption DEF QueryTyped, SinceEpoch
  <2>2. ASSUME NEW n \in Nat, q = WithOffset(p, n)
        PROVE  QueryTyped(q) /\ FromEpoch(q) /\ Matching(q, S) = Matching(p, S)
        BY <2>1, <2>2, OffsetFields, OffsetMatching DEF QueryTyped, FromEpoch
  <2> QED BY <2>1, <2>2
<1> DEFINE all == ByTime(Matching(q, S))
           ev  == QueryEnd(q, S)
<1>3. /\ all \in Seq(S) /\ Len(all) = Cardinality(Matching(q, S))
      /\ ev = Page(all, Offset(q), Limit(q)) /\ ev \in Seq(S)
      /\ Len(ev) # Limit(q) => Len(all) <= Offset(q) + Len(ev)
      BY <1>1, <1>2, QueryAnswers
<1>4. query_events(q, S).events = ev /\ (query_events(q, S).has_more <=> Len(ev) = Limit(q))
      BY DEF query_events, Limit
<1> HIDE DEF ev
<1> QED BY <1>2, <1>3, <1>4, OffsetLimit

\* From 1970 to 2262, query_events gives for every store and every query the
\* page of the matching envelopes in time order that limit and offset select,
\* and has_more is FALSE only when nothing follows it.
THEOREM QueriesMatch == ASSUME SinceEpoch PROVE Spec => []QueryMatches
<1>1. ASSUME QueryInv PROVE QueryMatches
  <2> SUFFICES ASSUME NEW q \in Queries
               PROVE  LET all == ByTime(Matching(q, db))
                          answer == query_events(q, db)
                      IN  /\ answer.events = Page(all, Offset(q), Limit(q))
                          /\ ~answer.has_more => Len(all) <= Offset(q) + Len(answer.events)
      BY DEF QueryMatches, Offset, Limit
  <2> QED BY <1>1, AnswerOf DEF QueryInv, StoreInv
<1> QED BY <1>1, QueryAlways, PTL

----------------------------------------------------------------------------
(* Paging.                                                                 *)

\* s is how all begins.
Begins(s, all) == Len(s) <= Len(all) /\ \A i \in 1 .. Len(s) : s[i] = all[i]

\* As long as nothing was inserted, what was returned is how the matching
\* envelopes of the store begin, as it is by now; those that matched at the
\* start still do, and when paging is done all of them were returned.
PageInv ==
    ~inserted /\ phase # "idle" =>
        /\ Begins(returned, ByTime(Matching(query, db)))
        /\ atStart \subseteq Matching(query, db)
        /\ phase = "done" => atStart \subseteq EnvelopesOf(returned)

\* An append that is no insertion keeps what was returned at the beginning.
LEMMA AppendKeepsPages ==
    ASSUME SinceEpoch, QueryInv, StoreInv', PageInv, NEW e \in Envelopes, AppendEvent(e)
    PROVE  PageInv'
<1> SUFFICES ASSUME ~inserted', phase # "idle"
             PROVE  /\ Begins(returned, ByTime(Matching(query, db')))
                    /\ atStart \subseteq Matching(query, db')
                    /\ phase = "done" => atStart \subseteq EnvelopesOf(returned)
  <2>1. UNCHANGED <<phase, query, returned, atStart>>
        BY DEF AppendEvent
  <2> QED BY <2>1 DEF PageInv
<1> DEFINE M == Matching(query, db)
           N == Matching(query, db')
           R == KeyOrder(db')
<1>1. /\ db' = db \cup {e} /\ e \notin db
      /\ ~inserted
      /\ Matching(query, {e}) = {} \/ \A i \in DOMAIN returned :
             ~KeyLess(generate_event_key(e), generate_event_key(returned[i]))
      BY DEF AppendEvent
<1>2. /\ Begins(returned, ByTime(M)) /\ atStart \subseteq M
      /\ phase = "done" => atStart \subseteq EnvelopesOf(returned)
      BY <1>1 DEF PageInv
<1>3. N = M \cup Matching(query, {e}) /\ Matching(query, {e}) \in {{}, {e}}
      BY <1>1 DEF Matching
<1>4. /\ IsFiniteSet(db') /\ Timed(db') /\ OneKey(db') /\ AfterEpoch(db') /\ M \in SUBSET db' /\ N \in SUBSET db'
      BY <1>1, StoreTimed DEF StoreInv, SinceEpoch, AfterEpoch, Matching
<1>5. returned \in Seq(Envelopes)
      BY DEF QueryInv, TypeOK
<1>6. CASE Matching(query, {e}) = {}
      BY <1>2, <1>3, <1>6
<1>7. CASE Matching(query, {e}) = {e}
  <2>1. N = M \cup {e}
        BY <1>3, <1>7
  <2>2. /\ IsFiniteSet(M) /\ StrictOrder(M, R) /\ StrictOrder(N, R) /\ IsFiniteSet(N)
        /\ ByTime(M) = SortedBy(M, R) /\ ByTime(N) = SortedBy(N, R)
        BY <1>4, ByTimeSorted
  <2>3. /\ Cardinality(M) \in Nat /\ Len(SortedBy(M, R)) = Cardinality(M)
        /\ \A i \in 1 .. Cardinality(M) : SortedBy(M, R)[i] \in M
        BY <2>2, SortedFacts
  <2>4. Len(ByTime(N)) = Cardinality(N) /\ Cardinality(N) \in Nat
        BY <2>2, SortedFacts
  <2> HIDE DEF M, N, R
  <2>5. ASSUME NEW i \in 1 .. Len(returned)
        PROVE  i \in 1 .. Cardinality(N) /\ returned[i] = ByTime(N)[i]
    <3>1. i \in 1 .. Cardinality(M) /\ returned[i] = SortedBy(M, R)[i] /\ i \in DOMAIN returned
          BY <1>2, <1>5, <2>2, <2>3 DEF Begins
    <3>2. returned[i] \in db' /\ e \in db'
          BY <1>1, <1>4, <2>3, <3>1
    <3>3. <<e, SortedBy(M, R)[i]>> \notin R
          BY <1>1, <1>7, <3>1, <3>2, OrderOf DEF R
    <3>4. i \in 1 .. Cardinality(N) /\ SortedBy(N, R)[i] = SortedBy(M, R)[i]
          BY ONLY <2>1, <2>2, <3>1, <3>3, StartStays
    <3> QED BY <2>2, <3>1, <3>4
  <2>6. Len(returned) <= Cardinality(N)
    <3>1. Len(returned) \in Nat
          BY <1>5
    <3>2. CASE Len(returned) = 0
          BY <2>4, <3>2
    <3>3. CASE Len(returned) # 0
      <4>1. Len(returned) \in 1 .. Len(returned)
            BY <3>1, <3>3
      <4>2. Len(returned) \in 1 .. Cardinality(N)
            BY <2>5, <4>1
      <4> QED BY <2>4, <3>1, <4>2
    <3> QED BY <3>2, <3>3
  <2>7. Begins(returned, ByTime(N))
        BY <2>4, <2>5, <2>6 DEF Begins
  <2> QED BY <1>2, <2>1, <2>7 DEF N
<1> QED BY <1>3, <1>6, <1>7

\* The first page begins with nothing.
LEMMA FirstKeepsPages ==
    ASSUME SinceEpoch, QueryInv, NEW q \in PagedQueries, FirstQuery(q)
    PROVE  PageInv'
<1>1. /\ phase' = "paging" /\ query' = WithOffset(q, 0) /\ atStart' = Matching(q, db)
      /\ db' = db /\ returned' = returned /\ returned = <<>>
      BY DEF FirstQuery, QueryInv, IdleInv
<1>2. Matching(query', db) = Matching(q, db)
      BY <1>1, OffsetMatching
<1>3. Len(ByTime(Matching(q, db))) \in Nat
      BY AnswerOf, EventQueryAssumption DEF QueryInv, StoreInv
<1>4. Begins(<<>>, ByTime(Matching(q, db)))
      BY <1>3 DEF Begins
<1> QED BY <1>1, <1>2, <1>4 DEF PageInv

\* A page goes on where the ones before it ended.
LEMMA NextKeepsPages ==
    ASSUME SinceEpoch, QueryInv, PageInv, NextPage
    PROVE  PageInv'
<1> DEFINE page == query_events(query, db)
           ev   == page.events
           all  == ByTime(Matching(query, db))
           k    == Len(returned)
<1>1. /\ phase = "paging" /\ returned' = returned \o ev
      /\ query' = WithOffset(query, query.offset + Len(ev))
      /\ phase' = IF page.has_more THEN "paging" ELSE "done"
      /\ UNCHANGED <<db, atStart, inserted>>
      BY DEF NextPage
<1>2. PICK q \in PagedQueries : query = WithOffset(q, k)
      BY <1>1 DEF QueryInv, TypeOK
<1>3. returned \in Seq(Envelopes) /\ k \in Nat
      BY DEF QueryInv, TypeOK
<1>4. Matching(query', db) = Matching(query, db) /\ Matching(query, db) = Matching(q, db) /\ query.offset = k
      BY <1>1, <1>2, OffsetMatching, OffsetFields
<1>5. Offset(query) = k
  <2>1. k # None
        BY <1>3, EventQueryAssumption
  <2> QED BY <1>4, <2>1 DEF Offset, OrElse
<1>6. /\ all \in Seq(db) /\ Limit(query) \in Nat /\ ev \in Seq(db)
      /\ ev = Page(all, k, Limit(query))
      /\ ~page.has_more => Len(all) <= k + Len(ev)
  <2>1. q \in Queries /\ db \in SUBSET Envelopes /\ IsFiniteSet(db) /\ OneKey(db)
        BY EventQueryAssumption DEF QueryInv, StoreInv
  <2> HIDE DEF k
  <2> QED BY <1>2, <1>3, <1>4, <1>5, <2>1, AnswerOf
<1> DEFINE top == IF k + Limit(query) < Len(all) THEN k + Limit(query) ELSE Len(all)
<1>7. ev = SubSeq(all, k + 1, top)
      BY <1>6 DEF Page
<1> SUFFICES ASSUME ~inserted
             PROVE  /\ Begins(returned', all)
                    /\ atStart \subseteq Matching(query, db)
                    /\ phase' = "done" => atStart \subseteq EnvelopesOf(returned')
    BY <1>1, <1>4 DEF PageInv
<1>8. Begins(returned, all) /\ atStart \subseteq Matching(query, db)
      BY <1>1 DEF PageInv
<1> HIDE DEF page, ev, all, k
<1>9. k <= Len(all) /\ \A i \in 1 .. k : returned[i] = all[i]
      BY <1>8 DEF Begins, k
<1>10. /\ top \in Nat /\ k <= top /\ top <= Len(all) /\ Len(all) \in Nat
       BY <1>3, <1>6, <1>9
<1> HIDE DEF top
<1>11. Len(ev) = top - k /\ \A i \in 1 .. (top - k) : ev[i] = all[k + i]
  <2>1. \A i \in (k + 1) .. top : all[i] \in db
    <3>1. \A i \in (k + 1) .. top : i \in 1 .. Len(all)
          BY <1>3, <1>10
    <3> QED BY <1>6, <3>1
  <2>2. /\ Len(ev) = IF k + 1 <= top THEN top - (k + 1) + 1 ELSE 0
        /\ \A i \in 1 .. top - (k + 1) + 1 : ev[i] = all[(k + 1) + i - 1]
        BY <1>3, <1>7, <1>10, <2>1, SubSeqProperties
  <2>3. top - (k + 1) + 1 = top - k /\ \A i \in 1 .. (top - k) : (k + 1) + i - 1 = k + i
        BY <1>3, <1>10
  <2>4. Len(ev) = top - k
        BY <1>3, <1>10, <2>2
  <2> QED BY <2>2, <2>3, <2>4
<1>12. /\ Len(returned') = top
       /\ \A i \in 1 .. k : returned'[i] = returned[i]
       /\ \A i \in 1 .. (top - k) : returned'[k + i] = ev[i]
  <2>1. ev \in Seq(Envelopes)
        BY <1>6 DEF QueryInv, StoreInv
  <2>2. /\ Len(returned') = k + Len(ev)
        /\ \A i \in 1 .. k : returned'[i] = returned[i]
        /\ \A i \in 1 .. Len(ev) : returned'[k + i] = ev[i]
        BY <1>1, <1>3, <2>1 DEF k
  <2> QED BY <1>3, <1>10, <1>11, <2>2
<1>13. ASSUME NEW i \in 1 .. top PROVE returned'[i] = all[i]
  <2>1. CASE i <= k
    <3>1. i \in 1 .. k
          BY <1>3, <2>1
    <3> QED BY <1>9, <1>12, <3>1
  <2>2. CASE ~(i <= k)
    <3> DEFINE j == i - k
    <3>1. j \in 1 .. (top - k) /\ k + j = i
          BY <1>3, <1>10, <2>2
    <3> HIDE DEF j
    <3> QED BY <1>11, <1>12, <3>1
  <2> QED BY <2>1, <2>2
<1>14. Begins(returned', all)
       BY <1>10, <1>12, <1>13 DEF Begins
<1>15. ASSUME phase' = "done" PROVE atStart \subseteq EnvelopesOf(returned')
  <2>1. top = Len(all)
        BY <1>1, <1>3, <1>6, <1>10, <1>11, <1>15
  <2>2. \A e \in Matching(query, db) : \E i \in 1 .. Len(all) : all[i] = e
    <3>1. /\ IsFiniteSet(db) /\ Timed(db) /\ OneKey(db) /\ AfterEpoch(db) /\ Matching(query, db) \in SUBSET db
          BY StoreTimed DEF QueryInv, StoreInv, SinceEpoch, AfterEpoch, Matching
    <3> DEFINE M == Matching(query, db)
               R == KeyOrder(db)
    <3>2. IsFiniteSet(M) /\ StrictOrder(M, R) /\ all = SortedBy(M, R)
          BY <3>1, ByTimeSorted DEF all
    <3> HIDE DEF M, R
    <3>3. /\ Len(SortedBy(M, R)) = Cardinality(M)
          /\ \A e \in M : Rank(M, R, e) + 1 \in 1 .. Cardinality(M) /\ SortedBy(M, R)[Rank(M, R, e) + 1] = e
          BY <3>2, SortedFacts
    <3> QED BY <3>2, <3>3 DEF M
  <2>3. DOMAIN returned' = 1 .. top
    <3>1. returned' \in Seq(Envelopes)
      <4>1. ev \in Seq(Envelopes)
            BY <1>6 DEF QueryInv, StoreInv
      <4> QED BY <1>1, <1>3, <4>1
    <3> QED BY <1>12, <3>1
  <2> QED BY <1>8, <1>13, <2>1, <2>2, <2>3 DEF EnvelopesOf
<1> QED BY <1>8, <1>14, <1>15

\* From 1970 to 2262, following has_more from page to page gives every envelope
\* that matched at the start once and no envelope twice, for any queries and
\* page sizes, as long as appends do not land before what was already returned.
THEOREM PagingAlwaysExact == ASSUME SinceEpoch PROVE Spec => []PagingExact
<1>1. Init => PageInv
      BY DEF Init, PageInv
<1>2. ASSUME QueryInv, QueryInv', PageInv, [Next]_vars PROVE PageInv'
  <2>1. ASSUME UNCHANGED vars PROVE PageInv'
        BY <1>2, <2>1 DEF PageInv, vars
  <2>2. StoreInv'
        BY <1>2 DEF QueryInv
  <2> QED BY <1>2, <2>1, <2>2, AppendKeepsPages, FirstKeepsPages, NextKeepsPages DEF Next
<1>3. ASSUME QueryInv, PageInv PROVE PagingExact
  <2> SUFFICES ASSUME ~inserted
               PROVE  IsInjective(returned) /\ (phase = "done" => atStart \subseteq EnvelopesOf(returned))
      BY DEF PagingExact
  <2>1. CASE phase = "idle"
        BY <1>3, <2>1 DEF QueryInv, IdleInv, IsInjective
  <2>2. CASE phase # "idle"
    <3> DEFINE M == Matching(query, db)
               R == KeyOrder(db)
    <3>1. /\ IsFiniteSet(db) /\ Timed(db) /\ OneKey(db) /\ AfterEpoch(db) /\ M \in SUBSET db
          BY <1>3, StoreTimed DEF QueryInv, StoreInv, SinceEpoch, AfterEpoch, Matching
    <3>2. Begins(returned, ByTime(M)) /\ (phase = "done" => atStart \subseteq EnvelopesOf(returned))
          BY <1>3, <2>2 DEF PageInv
    <3> HIDE DEF M, R
    <3>3. IsFiniteSet(M) /\ StrictOrder(M, R) /\ ByTime(M) = SortedBy(M, R)
          BY <3>1, ByTimeSorted DEF R
    <3>4. /\ Len(SortedBy(M, R)) = Cardinality(M) /\ Cardinality(M) \in Nat
          /\ \A i \in 1 .. Cardinality(M) : Rank(M, R, SortedBy(M, R)[i]) = i - 1
          BY <3>3, SortedFacts
    <3>5. returned \in Seq(Envelopes) /\ DOMAIN returned = 1 .. Len(returned) /\ Len(returned) \in Nat
          BY <1>3 DEF QueryInv, TypeOK
    <3>6. ASSUME NEW i \in 1 .. Len(returned), NEW j \in 1 .. Len(returned), returned[i] = returned[j]
          PROVE  i = j
      <4>1. /\ i \in 1 .. Cardinality(M) /\ j \in 1 .. Cardinality(M)
            /\ SortedBy(M, R)[i] = SortedBy(M, R)[j]
            BY <3>2, <3>3, <3>4, <3>5, <3>6 DEF Begins
      <4>2. i - 1 = j - 1
            BY <3>4, <4>1
      <4> QED BY <3>5, <4>2
    <3> QED BY <3>2, <3>5, <3>6 DEF IsInjective
  <2> QED BY <2>1, <2>2
<1> QED BY <1>1, <1>2, <1>3, QueryAlways, PTL DEF Spec

----------------------------------------------------------------------------
(* The other reads.                                                        *)

\* What fits on the first page is all there.
LEMMA FirstPage ==
    ASSUME NEW T, NEW s \in Seq(T), NEW n \in Nat
    PROVE  /\ EnvelopesOf(Page(s, 0, n)) \subseteq T
           /\ Len(s) <= n => Page(s, 0, n) = s
<1> DEFINE top == IF n < Len(s) THEN n ELSE Len(s)
           page == SubSeq(s, 1, top)
<1>1. Page(s, 0, n) = page
      BY DEF Page
<1>2. top \in Nat /\ top <= Len(s)
      OBVIOUS
<1>3. page \in Seq(T) /\ Len(page) = top /\ \A i \in 1 .. top : page[i] = s[i]
      BY <1>2
<1>4. Len(s) <= n => top = Len(s)
      OBVIOUS
<1> HIDE DEF top, page
<1>5. EnvelopesOf(page) \subseteq T
      BY <1>2, <1>3 DEF EnvelopesOf
<1>6. Len(s) <= n => page = s
      BY <1>3, <1>4
<1> QED BY <1>1, <1>5, <1>6

\* What they answer on a store.
LEMMA SummariesOf ==
    ASSUME SinceEpoch, NEW S \in SUBSET Envelopes, IsFiniteSet(S), OneKey(S)
    PROVE  LET all == ByTime(S) IN
           /\ \A n \in 0 .. Len(all) + 1 :
                  get_latest_events(n, S) = Page(all, IF n < Len(all) THEN Len(all) - n ELSE 0, n)
           /\ \A a \in UNION {e.accounts : e \in S} :
                  get_account_events(a, S) = Page(ByTime({e \in S : a \in e.accounts}), 0, DefaultLimit)
           /\ get_statistics(S) =
                  [total_events |-> Cardinality(S),
                   oldest_event |-> IF S = {} THEN None ELSE Head(all).timestamp,
                   newest_event |-> IF S = {} THEN None ELSE Last(all).timestamp]
           /\ \A e \in Envelopes :
                  get_event(e.event_id, S) # None <=> \E f \in S : f.event_id = e.event_id
<1> DEFINE all == ByTime(S)
           n   == Len(all)
<1>1. Timed(S) /\ AfterEpoch(S) /\ None \notin Int /\ None \notin S
      BY StoreTimed, EventQueryAssumption DEF SinceEpoch, AfterEpoch
<1>2. all = Scan(S) /\ InOrder(Scan(S), S)
      BY <1>1, ScanInOrder
<1>3. all \in Seq(S) /\ n \in Nat /\ n = Cardinality(S)
      BY <1>2 DEF InOrder
<1>4. ASSUME NEW k \in 0 .. n + 1
      PROVE  get_latest_events(k, S) = Page(all, IF k < n THEN n - k ELSE 0, k)
  <2>1. k \in Nat
        BY <1>3
  <2> HIDE DEF all
  <2> QED BY <1>2, <1>3, <2>1, LatestOf
<1>5. ASSUME NEW a \in UNION {e.accounts : e \in S}
      PROVE  get_account_events(a, S) = Page(ByTime({e \in S : a \in e.accounts}), 0, DefaultLimit)
  <2>1. a # None
        BY EventQueryAssumption
  <2> QED BY <1>1, <2>1, AccountOf
<1>6. get_statistics(S) =
          [total_events |-> Cardinality(S),
           oldest_event |-> IF S = {} THEN None ELSE Head(all).timestamp,
           newest_event |-> IF S = {} THEN None ELSE Last(all).timestamp]
  <2>1. get_statistics(S) = Counted(all, n)
    <3>1. get_statistics(S) = CountTurns(Scan(S))[Len(Scan(S))]
          BY DEF get_statistics
    <3> HIDE DEF all
    <3> QED BY <1>1, <1>2, <3>1, CountLoop
  <2>2. S = {} <=> n = 0
        BY <1>3, FS_EmptySet
  <2>3. Head(all) = all[1] /\ Last(all) = all[n]
        BY <1>3 DEF Last
  <2> HIDE DEF all, n
  <2> QED BY <1>3, <2>1, <2>2, <2>3 DEF Counted
<1>7. ASSUME NEW e \in Envelopes
      PROVE  get_event(e.event_id, S) # None <=> \E f \in S : f.event_id = e.event_id
      BY <1>1, <1>2, FoundExactly
<1> HIDE DEF all
<1> QED BY <1>4, <1>5, <1>6, <1>7 DEF all

\* From 1970 to 2262, get_latest_events gives the newest envelopes of every
\* store, get_account_events those of the account, all of them up to the default
\* limit, get_statistics its size and extent in time, get_event an envelope
\* exactly for the stored ids.
THEOREM SummariesAlwaysAgree == ASSUME SinceEpoch PROVE Spec => []SummariesAgree
<1>1. ASSUME QueryInv PROVE SummariesAgree
  <2>1. db \in SUBSET Envelopes /\ IsFiniteSet(db) /\ OneKey(db)
        BY <1>1 DEF QueryInv, StoreInv
  <2>2. ASSUME NEW a \in UNION {e.accounts : e \in db}
        PROVE  LET own == {e \in db : a \in e.accounts}
               IN  /\ EnvelopesOf(get_account_events(a, db)) \subseteq own
                   /\ Cardinality(own) <= DefaultLimit => get_account_events(a, db) = ByTime(own)
    <3> DEFINE own == {e \in db : a \in e.accounts}
    <3>1. get_account_events(a, db) = Page(ByTime(own), 0, DefaultLimit)
          BY <2>1, SummariesOf
    <3>2. ByTime(own) \in Seq(own) /\ Len(ByTime(own)) = Cardinality(own)
      <4>1. Timed(db) /\ AfterEpoch(db)
            BY <2>1, StoreTimed DEF SinceEpoch, AfterEpoch
      <4>2. own \in SUBSET db
            OBVIOUS
      <4> HIDE DEF own
      <4>3. IsFiniteSet(own) /\ StrictOrder(own, KeyOrder(db)) /\ ByTime(own) = SortedBy(own, KeyOrder(db))
            BY <2>1, <4>1, <4>2, ByTimeSorted
      <4>4. /\ SortedBy(own, KeyOrder(db)) \in Seq(own)
            /\ Len(SortedBy(own, KeyOrder(db))) = Cardinality(own)
            BY <4>3, SortedFacts
      <4> QED BY <4>3, <4>4
    <3>3. DefaultLimit \in Nat
          BY EventScanAssumption
    <3> HIDE DEF own
    <3>4. /\ EnvelopesOf(Page(ByTime(own), 0, DefaultLimit)) \subseteq own
          /\ Len(ByTime(own)) <= DefaultLimit => Page(ByTime(own), 0, DefaultLimit) = ByTime(own)
          BY <3>2, <3>3, FirstPage
    <3> QED BY <3>1, <3>2, <3>4 DEF own
  <2> QED BY <2>1, <2>2, SummariesOf, Zenon DEF SummariesAgree
<1> QED BY <1>1, QueryAlways, PTL
============================================================================
