CONSTANTS
    READBUFSZ = 7
    MAD_BUFFER_GUARD = 3
    Servers <- AllServers
    FreeLen = 3
    OtherLen = 2
    MinFree = 2
    MaxFree = 3
    MaxJunk = 8
SPECIFICATION Spec
CHECK_DEADLOCK FALSE
INVARIANTS
    FoundMeansFollowed
