\* An envelope that arrives just after a flush.
SPECIFICATION Spec
CONSTANTS
    MaxBatchDelay = 3
    MaxBatchSize = 2
    MaxLatency = 5
    MaxTime = 14
    MaxEvents = 4
CHECK_DEADLOCK FALSE
INVARIANTS
    MaxDelay
