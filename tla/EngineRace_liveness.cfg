SPECIFICATION FairSpec
CONSTANTS
    Keys = {k1}
    KeySize = 1
    ValueSize = 1
    MemCapacity = 2
    MaxImmutables = 2
    MaxGc = 1
    GetInvalidates = FALSE
    FaultKinds = {"alloc", "prefetch", "memfile", "append", "add", "dump", "install", "gc"}
    MaxEntries = 1
    MaxBatches = 4
    MaxFaults = 2
    MaxCrashes = 0
PROPERTIES
    WriteReturns
    ImmutablesDrain
    RedoReclaimed
CHECK_DEADLOCK FALSE
