SPECIFICATION FairSpec
CONSTANTS
    p = p
    Process = {p}
    Cnx = {a, b, c}
    home <- OneHome
    Entity = {e1, e2}
    Value = {v1}
    NoValue = NoValue
    Unwritten = Unwritten
    Nobody = Nobody
    Faults = {"lateindex", "commitfails"}
CHECK_DEADLOCK FALSE
INVARIANTS UniqueCommitted
PROPERTIES LockFollowsTransaction LockGivenBack
