CONSTANTS
    Frames <- MCFrames
    Lines = 8
    Compress = {0, 15}
    CompressLsf = {0, 511}
    Lengths = {0, 13, 75}
    BigValues = {0, 3}
    Hcods = {1, 10, 19}
    Linbits = {0, 13}
SPECIFICATION Spec
\* A frame is decoded.
CHECK_DEADLOCK FALSE
INVARIANTS
    CacheSuffices
    GuardSuffices
    ChannelsFollow
    HuffmanDecides
    BandsCover
    IntensityAbove
