SPECIFICATION FairSpec
CONSTANTS
    MaxSeq = 10
    Ends <- MCEnds
    Selected <- MCSelected
    Wanted <- MCWanted
    Afters <- MCAfters
    Befores <- MCBefores
    MaxReplans = 2
INVARIANTS
    NoGap
    Ascending
PROPERTIES
    SweepSettles
CHECK_DEADLOCK FALSE
