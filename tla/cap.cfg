SPECIFICATION Spec
CONSTANTS
    MaxJobs = 3
    Dispatchers = {d1, d2}
    Workers = 2
    MaxAttempts = 1
    Lanes = {}
    LateLanes = {}
    Capped = {{1, 2, 3}}
    MaxInFlight = 1
    MaxLapses = 2
    MaxHalts = 0
    MaxHandBacks = 1
    MaxFailedWrites = 0
SYMMETRY DispatcherSymmetry
CHECK_DEADLOCK FALSE
INVARIANT CapOverrun
