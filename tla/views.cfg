SPECIFICATION Spec
CONSTANTS
    MaxMsg = 2
    MaxSeq = 2
    MaxConn = 1
    MaxForget = 1
    MaxPages = 2
    Loads = {l1, l2}
    ChangesLimit = 1
    Buffer = 3
    MaxPins = 1
    Writes = {"react", "delete"}
    Retention = FALSE
    WholePages = FALSE
    ReloadFails = FALSE
    Failures = {}
SYMMETRY LoadSymmetry
CHECK_DEADLOCK FALSE
INVARIANT NotAhead
PROPERTY StaysDeleted
