SPECIFICATION FairSpec
CONSTANTS
    h1 = h1
    h2 = h2
    s1 = s1
    s2 = s2
    Spaces = {s1, s2}
    Hooks = {h1, h2}
    HookSpace <- MCHookSpace
    Stamps = {1, 2}
    MaxEvents = 3
    Buffer = 2
    MaxFaults = 1
CHECK_DEADLOCK FALSE
INVARIANT HookIsHeard
INVARIANT LaneAsPublished
PROPERTY HeardInTheEnd
