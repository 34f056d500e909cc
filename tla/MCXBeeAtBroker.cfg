SPECIFICATION FairSpec
CONSTANTS
    d1 = d1
    d2 = d2
    Dev = {d1, d2}
    NULL = NULL
    Reads <- MCReads
    MAXDEVICECOUNT = 2
    Conditions <- MCConditions
INVARIANTS TypeOK RightDevice OwnDescription
PROPERTIES ImplementsRequestAnswer ThreadsReturn
CHECK_DEADLOCK FALSE
