SPECIFICATION FairSpec
CONSTANTS
    d1 = d1
    d2 = d2
    Dev = {d1, d2}
    NULL = NULL
    Reads <- MCReads
    MAXDEVICECOUNT = 2
    max_try_times = 1
    MaxFaults = 3
    Conditions <- MCConditions
INVARIANTS TypeOK HungUp OwnDescription
PROPERTIES ImplementsRequestAnswer EnteredIsRegistered ThreadsReturn
CHECK_DEADLOCK FALSE
