SPECIFICATION FairSpec
CONSTANTS
    File = {1, 11}
    MCThumbs = {11}
    ThumbOf <- MCThumbOf
    Size <- MCSize
    Quota = 1
    MaxFaults = 2
CHECK_DEADLOCK FALSE
INVARIANT BytesBehindRow
PROPERTY MessageKeepsItsFiles
PROPERTY PinnedKeepsItsBytes
PROPERTY StraysGo
PROPERTY RipeExpires
