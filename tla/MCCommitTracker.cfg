SPECIFICATION FairSpec
CONSTANTS
    Stream <- MCStream
    MaxBatch = 2
    MaxFails = 1
    MaxRestarts = 1
    SyncThrow = TRUE
INVARIANTS
    IInv
    CursorCoversOnlyAcked
    WatermarkIsTight
PROPERTIES
    FlushResolvesDurable
    WatermarkIsSaved
    ImplementsAtLeastOnce
CHECK_DEADLOCK FALSE
