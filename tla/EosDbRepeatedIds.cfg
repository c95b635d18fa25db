\* A table may get the id of a removed table.
CONSTANTS
    k1 = k1
    k2 = k2
    t1 = t1
    t2 = t2
    r1 = r1
    r2 = r2
    r3 = r3
    e1 = e1
    e2 = e2
    Null = Null
    Keys <- MCKeys
    TableAddrs <- MCTableAddrs
    RowAddrs <- MCThreeRows
    EntryAddrs <- MCOneEntry
    Primaries = {1, 2, 3}
    TableIds = {1, 2}
    CountModulus = 5
    MaxIterators = 3
    Sessions = FALSE
    RepeatIds = TRUE
    KeepCaches = FALSE
SYMMETRY Symmetry
SPECIFICATION Spec
INVARIANTS CountsElements
