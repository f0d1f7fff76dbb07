SPECIFICATION FairShutdownSpec
CONSTANTS
    Thread = {w1, k1, k2}
    Task = {k1, k2}
    CnxSet = {c1, c2}
    MaxDepth = 2
    Faults = {"language", "dbdown"}
    NoTask = NoTask
INVARIANTS OneOwner CleanWhenFree NoneLost
PROPERTIES WaitEnds ShutdownEnds
