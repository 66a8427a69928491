SPECIFICATION SinksSpec
CONSTANTS
    max_size = 3
    max_files = 2
    DayLength = 2
    RotationTimes = {0, 1}
    Sizes = {1, 2, 4}
    MaxDelay = 1
    MaxLines = 4
    MaxClock = 4
    MaxFaults = 2
    MaxRestarts = 1
    Sinks = 2
    Characters <- MCCharacters
    Patterns <- MCPatterns
    Seconds = {1, 2}
    Lengths = {0, 1}
CONSTRAINTS FewTroubles FewDailyLines
INVARIANTS
    RotationKeepsTheNewest
    DailyFilesFaithful
    WritesHaveAFile
    LinesBearTheirTime
    ColoursWithinTheLine
CHECK_DEADLOCK FALSE
