\* shutdown() while the processor is not in select!.
SPECIFICATION FairSpec
CONSTANTS
    Processors = {p1}
    NoProcessor = NoProcessor
    Producers = {"r1", "r2"}
    Input <- MCInput
    MaxBatchSize = 2
    BufferSize = 1
    MaxErrors = 0
    I64Bound = 8
CHECK_DEADLOCK FALSE
PROPERTY
    ShutdownStops
