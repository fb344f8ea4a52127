SPECIFICATION Spec
CONSTANTS
    SPIRAMSIZE = 5
    WordBytes = 4
    SPIREADSIZE = 2
    FIFO_LOWMARK = 4
    MaxLen = 3
    Names = 10
    CounterMod = 1
    Junk = Junk
    Old = Old
INVARIANTS
    ReadStoresOnlyLen
