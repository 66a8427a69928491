SPECIFICATION RFairSpec
CONSTANTS
    Keys = {k1, k2}
    KeySize = 1
    ValueSize = 1
    MemCapacity = 2
    MaxImmutables = 2
    MaxGc = 2
    GetInvalidates = FALSE
    FaultKinds = {}
    MaxEntries = 1
    MaxBatches = 3
    MaxFaults = 0
    MaxCrashes = 0
    Readers = {r1}
    MaxReads = 1
INVARIANTS
    ReadsAtomic
    SnapshotComplete
PROPERTIES
    ReadReturns
CHECK_DEADLOCK FALSE
