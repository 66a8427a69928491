SPECIFICATION FairSpec
CONSTANTS
    NumThreads = 2
    Num = 2
    Benchmarks <- FillAndScan
    Rss = {1, 2}
    MaxTime = 2
INVARIANTS
    BarrierHolds
    LocalsOutliveTheirThreads
    ReportIsTrue
PROPERTIES
    AllBenchmarksRun
CHECK_DEADLOCK FALSE
