\* Rows may be given new keys; removed ids are not reused.
CONSTANTS
    k1 = k1
    k2 = k2
    d1 = d1
    d2 = d2
    Absent = Absent
    Ids = {1, 2}
    Keys <- MCKeys
    Datas <- MCDatas
    MaxRevision = 3
    MaxDepth = 2
    ReuseIds = FALSE
    RekeyRows = TRUE
SPECIFICATION Spec
INVARIANTS TypeOK Restorable RevisionsConsecutive UndoFindsRows
PROPERTIES UndoAllRestores Implements
