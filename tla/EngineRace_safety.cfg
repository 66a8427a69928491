SPECIFICATION Spec
CONSTANTS
    Keys = {k1, k2}
    KeySize = 1
    ValueSize = 1
    MemCapacity = 4
    MaxImmutables = 2
    MaxGc = 2
    GetInvalidates = FALSE
    FaultKinds = {"alloc", "prefetch", "memfile", "append", "add", "schedule", "dump", "install", "gc"}
    MaxEntries = 2
    MaxBatches = 4
    MaxFaults = 1
    MaxCrashes = 1
SYMMETRY Symmetry
CONSTRAINTS KilledEarly LaterAreSimple
INVARIANTS
    TypeOK
    ImmutablesBounded
    OneDumpOfTheOldest
    CheckpointAsserts
    WalCoversMemory
    EveryValueOnDisk
    TablesMatchManifest
PROPERTIES
    ImplementsKvUpdater
CHECK_DEADLOCK FALSE
