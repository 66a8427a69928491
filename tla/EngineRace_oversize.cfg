SPECIFICATION Spec
CONSTANTS
    Keys = {k1, k2}
    KeySize = 1
    ValueSize = 1
    MemCapacity = 3
    MaxImmutables = 2
    MaxGc = 2
    GetInvalidates = FALSE
    FaultKinds = {}
    MaxEntries = 2
    MaxBatches = 1
    MaxFaults = 0
    MaxCrashes = 0
INVARIANTS
    ViewsStayGood
CHECK_DEADLOCK FALSE
