\* Two processors, with shutdown, a retry and a database error.
SPECIFICATION FairSpec
CONSTANTS
    Processors = {p1, p2}
    NoProcessor = NoProcessor
    Producers = {"r1", "r2"}
    Input <- MCInput
    MaxBatchSize = 2
    BufferSize = 2
    MaxErrors = 1
    I64Bound = 8
CHECK_DEADLOCK FALSE
INVARIANTS
    TypeOK
    NoneMissing
    NoneTwice
    MetricsAgree
    Bounded
    RejectedWithCause
PROPERTIES
    EventuallySettled
    ClosedExits
