CONSTANTS
    Blocks = 18
    Formats <- MCFormats
    Clients <- MCClients
    MaxFrames = 3
    MaxRuns = 2
    NoFormat = NoFormat
SPECIFICATION Spec
\* The decoder is done, or has jumped to the missing decoder of layer I or II.
CHECK_DEADLOCK FALSE
INVARIANTS
    Continuous
    RepeatedOnce
PROPERTIES
    WindowMeetsAge
