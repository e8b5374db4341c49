SPECIFICATION RequestsSpec
CONSTANTS
    r1 = r1  r2 = r2  r3 = r3  u1 = u1  u2 = u2
    None = None
    Requests <- ThreeRequests
    Users <- TwoUsers
    Timeout = 2
INVARIANTS NeverOvercounted ApprovalIsDurable ApprovedByAnOwner
PROPERTIES ShutdownEnds ApprovalLasts
CHECK_DEADLOCK FALSE
