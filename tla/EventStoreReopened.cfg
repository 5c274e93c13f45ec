\* A store written with compression is opened without it, or the other way round.
SPECIFICATION Spec
CONSTANTS
    Clients = {c1}
    NoClient = NoClient
    Envelopes <- MCEnvelopes
    Batches <- MCBatches
    LargeBatch = 1
    Configs <- MCEncodings
    MaxCrashes = 1
    I64Bound = 8
INVARIANT
    ReadsSucceed
