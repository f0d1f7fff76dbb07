SPECIFICATION Spec
CONSTANTS
    n1 = n1
    n2 = n2
    l1 = l1
    s1 = s1
    s2 = s2
    NoOp = NoOp
    Op <- PlainOp
    Kind <- PlainKind
    Class <- PlainClass
    Row = {x1, x2}
    Faults = {"sqlerror", "disconnect", "commitaborts", "commitkeeps", "crash"}
PROPERTIES AllOrNothing
