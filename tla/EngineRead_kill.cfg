SPECIFICATION RSpec
CONSTANTS
    Keys = {k1}
    KeySize = 1
    ValueSize = 1
    MemCapacity = 2
    MaxImmutables = 1
    MaxGc = 2
    GetInvalidates = FALSE
    FaultKinds = {}
    MaxEntries = 1
    MaxBatches = 1
    MaxFaults = 0
    MaxCrashes = 1
    Readers = {r1}
    MaxReads = 1
INVARIANTS
    SurvivesRestart
CHECK_DEADLOCK FALSE
