SPECIFICATION Spec
CONSTANTS
    File = {1, 2, 3}
    ThumbOf <- MCNoThumbs
    First = 1
    Unusable = {3}
    Size <- MCSize
    Quota = 2
    MaxAttempts = 2
    MaxOverlaps = 1
    MaxFaults = 2
CHECK_DEADLOCK FALSE
INVARIANT BytesBehindAvatar
 
PROPERTY PictureStands
