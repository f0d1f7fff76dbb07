SPECIFICATION Spec
CONSTANTS
    Cnx = {a, b}
    Subject = {s}
    Object = {o1, o2, o3}
    Valued = {o1}
    Plain = Plain
    Value = {v1, v2}
    Linked = Linked
    Absent = Absent
    Nobody = Nobody
    None = None
    Existing = {s, o1}
    MaxTx = 2
    MaxActions = 2
SYMMETRY UndoSymmetry
INVARIANTS RestoredOrReported NoOrphanRecord
PROPERTIES UndoIsInverse
