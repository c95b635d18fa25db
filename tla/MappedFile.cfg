\* Processes that take turns at opening, and never overwrite a chunk with zeros.
CONSTANTS
    p1 = p1
    p2 = p2
    Processes <- MCProcesses
    Zeros = "zeros"
    Segment = "segment"
    Written = {"x", "y"}
    MaxSize = 2
    AllowDirty = {FALSE}
    SerialOpens = TRUE
SYMMETRY Symmetry
SPECIFICATION Spec
PROPERTIES OpensWhatWasSaved
INVARIANTS TypeOK DirtyWhileInUse SaveWithinMemory
