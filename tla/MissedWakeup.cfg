SPECIFICATION FairSpec
CONSTANTS
    MaxConns = 1
    MaxHosts = 1
    MaxEvents = {1, 8}
    IsReady = FALSE
    Calls = {}
    Pushes = {}
    CleanClose = FALSE
    MayClose = TRUE
    Budget <- NoExtras
PROPERTIES
    CloseTerminates
CHECK_DEADLOCK FALSE
