SPECIFICATION Spec
CONSTANTS
    BYTES = 8
    FLIP = 4
    START_BYTE = 7
    ESCAPE = 6
    XON = 5
    XOFF = 5
    MAX_FRAME_DATA_SIZE = 6
    Frames <- MCFrames
    MaxFrames = 3
    MaxFaults = 2
INVARIANTS TypeOK FewLost DeliveredAsSent
CHECK_DEADLOCK FALSE
