SPECIFICATION FeedSpec
CONSTANTS
    Process = {p, q, r}
    Scheduler = {p, q}
    MaxCrashes = 2
    MaxThreads = 1
    Login = {d1, d2}
    LocalGroup = {g0}
    TeamGroup = {g1}
    DefaultGroup = {g0, g1}
    NoGroup = NoGroup
    MaxMoves = 2
    x1 = x1
    x2 = x2
    x3 = x3
    ExtId = {x1, x2, x3}
    TypeOf <- MCTypeOf
    Hint <- MCHint
    Given <- MCGiven
    Link <- MCLink
    MaxNeeds = 1
    MaxStream = 3
CHECK_DEADLOCK FALSE
INVARIANTS LockIsMarked DirectoryFollowed ImportComplete
PROPERTIES SynchronizedAgain
