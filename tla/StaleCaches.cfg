SPECIFICATION Spec
CONSTANTS
    MaxConns = 2
    MaxHosts = 1
    MaxEvents = {1, 8}
    IsReady = FALSE
    Calls = {}
    Pushes = {}
    CleanClose = FALSE
    MayClose = FALSE
    Budget <- NoExtras
PROPERTIES
    FreshCaches
CHECK_DEADLOCK FALSE
