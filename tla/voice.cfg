SPECIFICATION FairSpec
CONSTANTS
    Channels = {c1}
    Private = {c1}
    Joins = {j1, j2}
    SlowJoins = {}
    Works = {w1, w2}
    MaxChanges = 2
    MaxFailures = 1
CHECK_DEADLOCK FALSE
INVARIANT EvictionIsOwed
PROPERTY OutInTheEnd
