CONSTANTS
    Lens = {3, 8}
    SmallLen = 5
    Target = 1
    NoMinimum = 8
    ADD_DEL_BUFFPERSAMP = 1
    ADD_DEL_BUFFPERSAMP_NOSPIRAM = 2
    Period = 2
    NoSamples = 3
    One = 3
    MaxAddDel = 9
SPECIFICATION MCSpec
\* MaxAddDel, which the code does not have, stops a player with a small FIFO.
CHECK_DEADLOCK FALSE
INVARIANTS
    SettlesNearHalf
    AccountIsSettled
PROPERTIES
    OpposesFill
    EveryDeviationCounts
