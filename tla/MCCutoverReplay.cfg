SPECIFICATION FairSpec
CONSTANTS
    MaxSeq = 6
    Wanted <- MCWanted
    Threshold = 100
    HeadAtStart = 4
    Strict = FALSE
    MaxDrops = 1
    MaxBad = 1
    Ends <- MCEnds
    Selected <- MCSelected
    Afters <- MCAfters
    Befores <- MCBefores
    MaxReplans = 2
INVARIANTS
    NoGap
    Ascending
PROPERTIES
    EverythingArrives
CHECK_DEADLOCK FALSE
