SPECIFICATION FairSpec
CONSTANTS
    d1 = d1
    d2 = d2
    Dev = {d1, d2}
    NULL = NULL
    MAXDEVICECOUNT = 2
    MaxChunks = 3
    Conditions <- MCConditions
INVARIANTS OneInFlight ToldIsReachable
PROPERTY ThreadsReturn
CHECK_DEADLOCK FALSE
