SPECIFICATION Spec
CONSTANTS
    MAXCLIENTS = 2
    MAXDEVICECOUNT = 1
    Conn = {c1, c2, c3}
    DevID = {d1, d2}
    UI = {}
    Command <- ChatCommands
    Master = Master
    Zero = Zero
    NULL = NULL
    Listener = Listener
    LowFds = 3
    SendBuffer = 1
    MaxWire = 1
    MaxIp = 2
    MaxRequests = 2
SYMMETRY Symmetry
PROPERTIES ForwardReachesOwner
CHECK_DEADLOCK FALSE
