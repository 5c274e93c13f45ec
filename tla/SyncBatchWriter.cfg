\* The writer and another client of the store, with overlapping batches, both
\* sync settings and a crash.
SPECIFICATION WriterSpec
CONSTANTS
    Clients = {w, c1}
    Writer = w
    NoClient = NoClient
    Envelopes <- MCEnvelopes
    Batches <- MCBatches
    LargeBatch = 1
    Configs <- MCConfigs
    MaxCrashes = 1
    I64Bound = 8
    OtherCalls <- MCOtherCalls
    MaxBatchSize = 1
    MaxAdds = 2
INVARIANTS
    TypeOK
    NoOverwrite
    AckedStored
    WriterTypeOK
    NothingForgotten
    NoGhostWrites
PROPERTIES
    Refinement
    CallsReturn
