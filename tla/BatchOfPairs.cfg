SPECIFICATION Spec
CONSTANTS
    Cnx = {a}
    Subject = {s1, s2}
    Object = {o1, o2, o3, o4}
    Cards <- OptionalObject
    MaxBatch = 4
    MaxContested = 0
SYMMETRY CardinalitySymmetry
INVARIANTS AtMostOne
