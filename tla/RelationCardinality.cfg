SPECIFICATION Spec
CONSTANTS
    Cnx = {a, b}
    Subject = {s1, s2}
    Object = {o1, o2}
    Cards <- UsualCards
    MaxBatch = 2
    MaxContested = 1
SYMMETRY CardinalitySymmetry
INVARIANTS AtMostOne RequiredPresent BrokenIsChecked
