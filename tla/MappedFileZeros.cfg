\* A chunk may be overwritten with zeros.
CONSTANTS
    p1 = p1
    p2 = p2
    Processes <- MCProcesses
    Zeros = "zeros"
    Segment = "segment"
    Written = {"x", "zeros"}
    MaxSize = 2
    AllowDirty = {FALSE}
    SerialOpens = TRUE
SYMMETRY Symmetry
SPECIFICATION Spec
PROPERTIES OpensWhatWasSaved
