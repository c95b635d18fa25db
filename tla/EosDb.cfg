\* No sessions; a table never gets the id of a table that a cache still knows.
CONSTANTS
    k1 = k1
    k2 = k2
    t1 = t1
    t2 = t2
    r1 = r1
    r2 = r2
    r3 = r3
    e1 = e1
    e2 = e2
    Null = Null
    Keys <- MCKeys
    TableAddrs <- MCTableAddrs
    RowAddrs <- MCThreeRows
    EntryAddrs <- MCOneEntry
    Primaries = {1, 2, 3}
    TableIds = {1, 2, 3}
    CountModulus = 5
    MaxIterators = 2
    Sessions = FALSE
    RepeatIds = FALSE
    KeepCaches = FALSE
SYMMETRY Symmetry
SPECIFICATION Spec
INVARIANTS TypeOK CountsElements IteratorsDenote TablesCached QueriesAnswer OnlyDeadEndsFail
PROPERTY Implements
