SPECIFICATION FairSpec
CONSTANTS
    n1 = n1
    n2 = n2
    l1 = l1
    s1 = s1
    s2 = s2
    NoOp = NoOp
    Op <- MixedOp
    Kind <- MixedKind
    Class <- MixedClass
    Row = {x1}
    Faults = {"sqlerror", "disconnect", "commitaborts", "commitkeeps", "crash"}
INVARIANTS EventHistory EventsTellTheOutcome RevertedInReverse
PROPERTIES PrecommitInKindOrder RefusedNeverCommits NoOperationForgotten TransactionEnds
