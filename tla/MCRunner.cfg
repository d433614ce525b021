SPECIFICATION FairSpec
CONSTANTS
    Stream <- MCStream
    Events <- MCEvents
    MaxBatch = 2
    MaxFails = 1
    MaxRestarts = 1
    SyncThrow = FALSE
    Concurrency = 2
    KeyOfThrows = TRUE
INVARIANTS
    CursorBelowUnhandled
    KeyPrefixHandled
    CleanRunIsDurable
PROPERTIES
    RunnerSettles
