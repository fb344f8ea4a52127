CONSTANTS
    MaxBegin = 3
    MaxSpace = 4
    MDLEN = 6
    StreamLen = 7
SPECIFICATION Spec
\* The stream ends at StreamLen, or with an overflow.
CHECK_DEADLOCK FALSE
INVARIANTS
    JoinFits
    DecodesItsData
    NoFalseBadPointer
