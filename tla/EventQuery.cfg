\* Queries, lookups and statistics on every store of the envelopes, and paging
\* while they are appended.
SPECIFICATION Spec
CONSTANTS
    Envelopes <- MCEnvelopes
    Queries <- MCQueries
    PagedQueries <- MCPagedQueries
    None = None
    DefaultLimit = 3
    I64Bound = 8
CHECK_DEADLOCK FALSE
INVARIANTS
    TypeOK
    QueryMatches
    SummariesAgree
    PagingExact
