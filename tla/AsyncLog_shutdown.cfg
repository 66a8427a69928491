SPECIFICATION FairSpec
CONSTANTS
    Clients = {c1, c2}
    Main = main
    Flusher = flusher
    c1 = c1
    c2 = c2
    w1 = w1
    w2 = w2
    Workers = {w1, w2}
    Capacity = 1
    NoItem = NoItem
    LogLevels <- MCLogLevels
    Level = 2
    FlushLevel = 4
    WorkerSets <- MCWorkerSets
    MaxPosts <- MCMaxPosts
    MaxFlushes = 1
INVARIANTS
    NoLineLost
    PoolOutlivesItsUsers
    EverythingLogged
PROPERTIES
    FlushIsABarrier
    ImplementsFifo
    EverybodyGetsThrough
CHECK_DEADLOCK FALSE
