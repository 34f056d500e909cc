SPECIFICATION FairSpec
CONSTANTS
    N = 3
    End <- MCEnd
    MAXRECV = 14
    VersionLen = 3
    ChecksumLen = 2
    CountedTrailer = 2
INVARIANTS TypeOK InOrderOnce LossHasACause
PROPERTIES EventuallyDelivered
CHECK_DEADLOCK FALSE
