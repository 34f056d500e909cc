SPECIFICATION FairSpec
CONSTANTS
    MAXCLIENTS = 2
    MAXDEVICECOUNT = 1
    Conn = {c1, c2, c3}
    DevID = {d1}
    UI = {}
    Command <- ChatCommands
    Master = Master
    Zero = Zero
    NULL = NULL
    Listener = Listener
    LowFds = 2
    SendBuffer = 1
    MaxWire = 1
    MaxIp = 0
    MaxRequests = NULL
INVARIANTS SlotsAgree WalkOK
PROPERTIES EventuallyAccepted EventuallyRead
CHECK_DEADLOCK FALSE
