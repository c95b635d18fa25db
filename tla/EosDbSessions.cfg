\* Undo sessions, and a new eos_db object after every undo.
CONSTANTS
    k1 = k1
    k2 = k2
    t1 = t1
    t2 = t2
    r1 = r1
    r2 = r2
    r3 = r3
    e1 = e1
    e2 = e2
    Null = Null
    Keys <- MCKeys
    TableAddrs <- MCTableAddrs
    RowAddrs <- MCTwoRows
    EntryAddrs <- MCTwoEntries
    Primaries = {1}
    TableIds = {1, 2}
    CountModulus = 5
    MaxIterators = 2
    Sessions = TRUE
    RepeatIds = FALSE
    KeepCaches = FALSE
SYMMETRY Symmetry
SPECIFICATION Spec
INVARIANTS CountsElements TablesCached
PROPERTY Implements
