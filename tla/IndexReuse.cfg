\* Callers give removed ids to new rows, as db_store_i64 does.
CONSTANTS
    k1 = k1
    k2 = k2
    d1 = d1
    d2 = d2
    Absent = Absent
    Ids = {1, 2}
    Keys <- MCKeys
    Datas <- MCDatas
    MaxRevision = 3
    MaxDepth = 2
    ReuseIds = TRUE
    RekeyRows = FALSE
SPECIFICATION Spec
INVARIANTS Restorable

