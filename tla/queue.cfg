SPECIFICATION FairSpec
CONSTANTS
    MaxJobs = 2
    Dispatchers = {d1, d2}
    Workers = 1
    MaxAttempts = 2
    Lanes = {{1, 2}}
    LateLanes = {}
    Capped = {}
    MaxInFlight = 1
    MaxLapses = 1
    MaxHalts = 1
    MaxHandBacks = 0
    MaxFailedWrites = 1
CHECK_DEADLOCK FALSE
INVARIANT TypeOK
INVARIANT OutcomeIsCurrent
INVARIANT LaneInOrder
PROPERTY EndedForGood
PROPERTY JobEnds
PROPERTY QueueSpec
