SPECIFICATION FairSpec
CONSTANTS
    d1 = d1
    d2 = d2
    Dev = {d1, d2}
    NULL = NULL
    Reads <- MCReads
    Conditions <- MCConditions
    MAXDEVICECOUNT = 2
    max_fail_times = 2
INVARIANTS TypeOK RegisteredIsReachable
PROPERTIES ImplementsRequestAnswer ThreadsReturn
CHECK_DEADLOCK FALSE
