SPECIFICATION Spec
CONSTANTS
    Lifetime = 4
    MaxDelay = 1
    MaxTime = 7
    MaxTokens = 3
INVARIANTS
    OkMeansToken
CHECK_DEADLOCK FALSE
