SPECIFICATION Spec
CONSTANTS
    Stream <- MCShort
    MaxBatch = 2
    MaxFails = 1
    MaxRestarts = 0
    SyncThrow = TRUE
PROPERTIES
    FlushSchedulesSave
CHECK_DEADLOCK FALSE
