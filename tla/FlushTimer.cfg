\* A delay of three units, flushes that may miss a tick, full batches and
\* partial ones.  The processor may stop, and the clock does.
SPECIFICATION Spec
CONSTANTS
    MaxBatchDelay = 3
    MaxBatchSize = 2
    MaxLatency = 5
    MaxTime = 14
    MaxEvents = 4
CHECK_DEADLOCK FALSE
INVARIANTS
    TypeOK
    WaitBounded
    AverageOfOneMore
