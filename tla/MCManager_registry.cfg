SPECIFICATION Spec
CONSTANTS
    MAXCLIENTS = 2
    MAXDEVICECOUNT = 2
    Conn = {c1, c2}
    DevID = {d1, d2}
    UI = {}
    Command <- AllCommands
    Master = Master
    Zero = Zero
    NULL = NULL
    Listener = Listener
    LowFds = 2
    SendBuffer = 1
    MaxWire = 1
    MaxIp = 2
    MaxRequests = 2
SYMMETRY Symmetry
INVARIANTS TypeOK UniqueDevID UniqueAddress GoneForGood RoutedWhileOpen
PROPERTIES NoEviction ImplementsRegistry
CHECK_DEADLOCK FALSE
