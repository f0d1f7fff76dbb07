SPECIFICATION DerivedSpec
CONSTANTS
    Instance = {i1, i2}
    Cnx = {a, b, c}
    Eid = {e1}
    NoEid = NoEid
    Faults = {"refused", "sqlerror", "commitfails", "lost"}
    Writer = {w1, w2}
    T = T
    U = U
    r = r
    n = n
    EType = {T, U}
    RType = {r, n}
    Attribute = {n}
    Def <- MCDef
    Constrained <- MCConstrained
    UniqueOn = {T}
    Guarded = {T}
    Start <- MCStart
    MaxChanges = 3
    Editor = {c1, c2}
    Prop = {p1, p2}
    Key = {k1, k2}
    Value = {v1, v2}
    Default = Default
    MaxEdits = 3
    Author = {u1, u2}
    Container = {l1, l2}
    Part = {t1}
    Nowhere = Nowhere
    MaxTexts = 3
    Person = {x, y}
    Nobody = Nobody
    NotCached = NotCached
    MaxWrites = 3
    Clerk = {k3, k4}
    Employee = {m1, m2}
    Company = {f1, f2}
    Birth = {1, 2}
    Null = Null
    Every = Every
    MaxHires = 2
SYMMETRY DerivedSymmetry
CHECK_DEADLOCK FALSE
INVARIANTS RolledBackForgotten DeletedForgotten MemoryInStep TablesInStep RegistryInStep
    FoundAsStored CachesFollow FormulasHold
