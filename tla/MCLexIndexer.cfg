SPECIFICATION FlowingSpec
CONSTANTS
    Events <- MCEvents
    Concurrency = 2
    KeyOfThrows = TRUE
INVARIANTS
    TypeOK
    SlotsMatch
    KeyOrder
    OutcomeIsTrue
PROPERTIES
    NoStartAfterStop
    SlotIsGranted
    HandlerErrorRejectsRun
