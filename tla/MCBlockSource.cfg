SPECIFICATION FairSpec
CONSTANTS
    Plan <- MCPlan
    MaxAttempts = 2
    MaxGen = 2
    OutstandingHwm = 2
    TailHwm = 1
    MaxBlocks = 1
INVARIANTS
    InPlanOrder
    NoSplice
    WithinBudgets
    NothingLeaks
PROPERTIES
    SourceSettles
CHECK_DEADLOCK FALSE
