SPECIFICATION Spec
CONSTANTS
    MaxConns = 2
    MaxHosts = 2
    MaxEvents = {1, 8}
    IsReady = TRUE
    Calls = {"method", "ready", "notReady"}
    Pushes = {}
    CleanClose = FALSE
    MayClose = FALSE
    Budget <- CallAndFail
INVARIANTS
    TypeOK
    OnePlace
    HandlerRegistered
    ThreadOrder
    NoSleepOnWork
PROPERTY ImplementsMethodCalls
CHECK_DEADLOCK FALSE
