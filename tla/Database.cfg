\* All indices are added before the first operation, as statedb.cpp does.
CONSTANTS
    a = a
    b = b
    Types <- MCTypes
    Tables = {0, 1}
    EmptyTable = 0
    NoIndex = NoIndex
    MaxRevision = 2
    MaxHandles = 2
    LateAdd = FALSE
SPECIFICATION Spec
CONSTRAINT UntilTorn
PROPERTIES Implements
INVARIANTS TypeOK InSync CrashAtomic SessionRestores CleanOpens
