SPECIFICATION Spec
CONSTANTS
    MaxMsg = 1
    MaxSeq = 3
    MaxConn = 2
    MaxForget = 0
    MaxPages = 1
    Loads = {l1}
    ChangesLimit = 1
    Buffer = 2
    MaxPins = 1
    Writes = {"edit","react"}
    Retention = FALSE
    WholePages = FALSE
    ReloadFails = TRUE
    Failures = {"passing", "final"}
SYMMETRY LoadSymmetry
CHECK_DEADLOCK FALSE
INVARIANT TypeOK
INVARIANT KnownThroughPosition
INVARIANT GapIsOwed
INVARIANT QuietMeansCurrent
PROPERTY PositionStands
