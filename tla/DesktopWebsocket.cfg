SPECIFICATION FairSpec
CONSTANTS
    MaxOpens = 2
    MaxBuffers = 4
    MaxSends = 2
INVARIANTS
    TypeOK
    SendOnUpgraded
    AbortMeansFailed
PROPERTIES
    ImplementsWebsocket
    CloseEndsOpen
CHECK_DEADLOCK FALSE
