SPECIFICATION Spec
CONSTANTS
    MaxConns = 2
    MaxHosts = 1
    MaxEvents = {1, 8}
    IsReady = TRUE
    Calls = {}
    Pushes = {"onGroupUpdate", "updateScenes", "badInput", "badUpdate"}
    CleanClose = TRUE
    MayClose = FALSE
    Budget <- PushAndTimeError
INVARIANTS
    ResetBeforeHello
    ResetBeforeOpen
PROPERTIES
    ConnectedMeansBootstrapped
    OnlyMethodsDropped
CHECK_DEADLOCK FALSE
