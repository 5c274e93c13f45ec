\* An optimized batch longer than LargeBatch with sync_writes.
SPECIFICATION Spec
CONSTANTS
    Clients = {c1}
    NoClient = NoClient
    Envelopes <- MCEnvelopes
    Batches <- MCBatches
    LargeBatch = 1
    Configs <- MCSync
    MaxCrashes = 1
    I64Bound = 8
INVARIANT
    AckedDurable
