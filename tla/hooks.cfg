SPECIFICATION Spec
CONSTANTS
    Hooks = {h}
    MaxEvents = 2
    MaxResends = 1
    MaxAttempts = 2
    DeadToDisable = 2
    MaxOverlaps = 1
    MaxFaults = 1
CHECK_DEADLOCK FALSE
INVARIANT SequenceHasNoHoles
INVARIANT BodyOrAccepted
PROPERTY HeardInOrder
PROPERTY DeliveredStays
