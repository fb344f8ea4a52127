SPECIFICATION Spec
CONSTANTS
    I2SDMABUFCNT = 3
    I2SDMABUFLEN = 2
    Names = 7
    MaxUnderrun = 1
    MaxMissed = 0
    Silence = Silence
    NULL = NULL
INVARIANTS
    CannotWritePlaying
