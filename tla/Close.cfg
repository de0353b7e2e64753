SPECIFICATION FairSpec
CONSTANTS
    MaxConns = 2
    MaxHosts = 1
    MaxEvents = {1, 8}
    IsReady = TRUE
    Calls = {}
    Pushes = {}
    CleanClose = TRUE
    MayClose = TRUE
    Budget <- NoExtras
PROPERTIES
    EventuallyConnected
    ClosesUnlessMissed
    CloseEndsIncoming
CHECK_DEADLOCK FALSE
