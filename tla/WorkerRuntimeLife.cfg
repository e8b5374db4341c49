SPECIFICATION RuntimeFairSpec
CONSTANTS
    b1 = b1  s1 = s1  m1 = m1
    Jobs <- OneOfEach
    QueueOf <- OneOfEachQueue
    Modes <- AllModes
    IdleTimeout = 2
    Faults <- NoRowFault
PROPERTIES TripsOnlyWhenDrained FailedStartReleases
CHECK_DEADLOCK FALSE
