SPECIFICATION Spec
CONSTANTS
    Cnx = {a, b}
    Manager = {a}
    s1 = s1
    s2 = s2
    x1 = x1
    x2 = x2
    k1 = k1
    go = go
    back = back
    enter = enter
    done = done
    redo = redo
    next = next
    detour = detour
    main = main
    sub = sub
    special = special
    State = {s1, s2, x1, x2, k1}
    Transition = {go, back, enter, done, redo, next, detour}
    Workflows = {main, sub, special}
    StateOf <- MCStateOf
    TransitionOf <- MCTransitionOf
    Initial <- MCInitial
    From <- MCFrom
    Destination <- MCDestination
    Sub <- MCSub
    Exits <- MCExits
    Automatic = {next}
    Restricted = {}
    Default = main
    Custom = special
    None = None
    Unread = Unread
    MaxHistory = 4
    MaxCalls = 2
INVARIANTS HistoryChain InItsWorkflow Settled
CHECK_DEADLOCK FALSE
