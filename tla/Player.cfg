CONSTANTS
    FifoLen = 6
    READBUFSZ = 3
    WBufSize = 2
    Names = 10
    Silence = 2
    MaxUnderrun = 1
    OutOfMemory = TRUE
SPECIFICATION FairSpec
\* The player stops when a task cannot be created or the SPI RAM is broken.
CHECK_DEADLOCK FALSE
INVARIANTS
    SocketsClosed
    NothingLost
    SilenceNotStandstill
    FirstFillIsQuiet
PROPERTIES
    EveryByteIsTaken
    MusicPlays
