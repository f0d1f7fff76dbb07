SPECIFICATION StorageSpec
CONSTANTS
    Cnx = {a, b}
    Entity = {e1}
    Path = {f1, f2, f3}
    Imports = {f3}
    Null = Null
    Absent = Absent
    Nobody = Nobody
    None = None
    StorageFaults = {"dbrollback", "commitfails", "diskfull", "crash"}
SYMMETRY FileSymmetry
INVARIANTS ValueOnDisk NoOrphan
PROPERTIES OnlyCommitUnlinks
