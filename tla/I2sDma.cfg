SPECIFICATION FairSpec
CONSTANTS
    I2SDMABUFCNT = 3
    I2SDMABUFLEN = 2
    Names = 7
    MaxUnderrun = 1
    MaxMissed = 1
    Silence = Silence
    NULL = NULL
INVARIANTS
    QueueIsTrail
    HeardInOrder
    NoFalseAlarm
    SharedOnlyIfLate
PROPERTIES
    DroppedIsPlaying
    PushReturns
