\* Callers that reuse no removed id and change no key.
CONSTANTS
    k1 = k1
    k2 = k2
    d1 = d1
    d2 = d2
    Absent = Absent
    Ids = {1, 2, 3}
    Keys <- MCKeys
    Datas <- MCDatas
    MaxRevision = 3
    MaxDepth = 3
    ReuseIds = FALSE
    RekeyRows = FALSE
SYMMETRY Symmetry
SPECIFICATION Spec
INVARIANTS AllLinked NeverAborts

