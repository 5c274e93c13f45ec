\* Recovery while others append: what it reports is true.
SPECIFICATION Spec
CONSTANTS
    Envelopes <- MCEnvelopes
    Options <- MCOptions
    None = None
    DefaultLimit = 4
    I64Bound = 8
    MaxAge = 2
    MaxTime = 2
CHECK_DEADLOCK FALSE
INVARIANTS
    TypeOK
    BalancesExact
    VerdictTrue
    CountsTrue
