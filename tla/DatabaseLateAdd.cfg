\* An index is added while a session is open.
CONSTANTS
    a = a
    b = b
    Types <- MCTypes
    Tables = {0, 1}
    EmptyTable = 0
    NoIndex = NoIndex
    MaxRevision = 2
    MaxHandles = 2
    LateAdd = TRUE
SYMMETRY Symmetry
SPECIFICATION Spec
INVARIANTS InSync
