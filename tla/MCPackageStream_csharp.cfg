SPECIFICATION Spec
CONSTANTS
    N = 3
    End <- MCEnd
    MAXRECV = 14
    VersionLen = 3
    ChecksumLen = 2
    CountedTrailer = 0
INVARIANTS LossHasACause
CHECK_DEADLOCK FALSE
