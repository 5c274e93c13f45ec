\* A range that starts before the epoch.
SPECIFICATION Spec
CONSTANTS
    Envelopes <- MCEnvelopes
    Queries <- MCFarQueries
    PagedQueries <- MCNoQueries
    None = None
    DefaultLimit = 8
    I64Bound = 8
CHECK_DEADLOCK FALSE
INVARIANTS
    RangeComplete
