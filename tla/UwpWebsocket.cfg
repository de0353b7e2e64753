SPECIFICATION FairSpec
CONSTANTS
    MaxOpens = 2
    MaxMessages = 3
    SpuriousWakeups = TRUE
INVARIANTS
    TypeOK
    ReleasedOnce
    AsleepMeansIdle
PROPERTIES
    ImplementsWebsocket
    LostEndsOpen
CHECK_DEADLOCK FALSE
