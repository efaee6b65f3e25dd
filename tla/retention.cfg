SPECIFICATION Spec
CONSTANTS
    MaxMsg = 1
    MaxSeq = 3
    MaxConn = 1
    MaxForget = 0
    MaxPages = 1
    Loads = {l1}
    ChangesLimit = 1
    Buffer = 3
    MaxPins = 1
    Writes = {"pin", "unpin"}
    Retention = TRUE
    WholePages = FALSE
    ReloadFails = FALSE
    Failures = {}
SYMMETRY LoadSymmetry
CHECK_DEADLOCK FALSE
INVARIANT KnownThroughPosition
