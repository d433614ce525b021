SPECIFICATION Spec
CONSTANTS
    MaxSeq = 5
    Wanted <- MCWanted
    Threshold = 10
    Starts <- NoCursor
    HeadAtStart = 3
    Strict = FALSE
    MaxDrops = 2
    MaxBad = 1
INVARIANTS
    NoLoss

CHECK_DEADLOCK FALSE
