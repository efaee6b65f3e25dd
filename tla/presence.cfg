SPECIFICATION FairSpec
CONSTANTS
    Spaces = {s1}
    Conns = {1, 2, 3}
    MobileConns = {3}
    Grace = TRUE
    MaxMoves = 2
CHECK_DEADLOCK FALSE
INVARIANT ToldAsCounted
INVARIANT EntryIsSettled
INVARIANT CountedAsMember
PROPERTY NoStaleOffline
PROPERTY GraceIsWhole
PROPERTY OfflineIsTold
