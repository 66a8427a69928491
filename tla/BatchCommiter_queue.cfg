SPECIFICATION FairSpec
CONSTANTS
    Clients = {c1, c2}
    Retriers = {c1}
    PlugSize = 2
    MaxOps = 2
    MaxTickets = 4
INVARIANTS
    AppliedInOrder
    AnswersAreTrue
    NoTaskLost
    BufferStable
PROPERTIES
    NobodyWaitsForEver
CHECK_DEADLOCK FALSE
