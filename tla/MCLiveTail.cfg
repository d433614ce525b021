SPECIFICATION FairSpec
CONSTANTS
    MaxSeq = 5
    Wanted <- MCWanted
    Threshold = 10
    Starts <- WithCursor
    HeadAtStart = 3
    Strict = FALSE
    MaxDrops = 2
    MaxBad = 1
INVARIANTS
    NoLoss
    Ascending
PROPERTIES
    EverythingArrives
CHECK_DEADLOCK FALSE
