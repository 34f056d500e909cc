SPECIFICATION Spec
CONSTANTS
    MAXCLIENTS = 1
    MAXDEVICECOUNT = 1
    Conn = {c1, c2}
    DevID = {d1, d2}
    UI = {}
    Command <- RegistryCommands
    Master = Master
    Zero = Zero
    NULL = NULL
    Listener = Listener
    LowFds = 2
    SendBuffer = 1
    MaxWire = 1
    MaxIp = 0
    MaxRequests = 0
SYMMETRY Symmetry
INVARIANTS AcceptedIsServed
CHECK_DEADLOCK FALSE
