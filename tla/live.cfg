SPECIFICATION FairSpec
CONSTANTS
    MaxMsg = 1
    MaxSeq = 2
    MaxConn = 2
    MaxForget = 1
    MaxPages = 1
    Loads = {l1}
    ChangesLimit = 1
    Buffer = 3
    MaxPins = 1
    Writes = {"edit","react"}
    Retention = FALSE
    WholePages = FALSE
    ReloadFails = FALSE
    Failures = {"passing"}
CHECK_DEADLOCK FALSE
PROPERTY DebtIsPaid
PROPERTY SeenIsCovered
