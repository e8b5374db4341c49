SPECIFICATION RuntimeFairSpec
CONSTANTS
    b1 = b1  s1 = s1  m1 = m1
    Jobs <- OneOfEach
    QueueOf <- OneOfEachQueue
    Modes <- IdleMode
    IdleTimeout = 2
    Faults <- NoFault
PROPERTY IdleExits
CHECK_DEADLOCK FALSE
