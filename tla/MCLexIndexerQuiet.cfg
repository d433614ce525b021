SPECIFICATION FairSpec
CONSTANTS
    Events <- MCShort
    Concurrency = 2
    KeyOfThrows = FALSE
PROPERTIES
    HandlerErrorRejectsRun
