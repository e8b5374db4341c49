SPECIFICATION Spec
CONSTANTS
    p1 = p1  p2 = p2  c1 = c1  c2 = c2  r1 = r1  r2 = r2  None = None
    People <- TwoPeople
    Google <- TwoPeople
    Consents <- TwoConsents
    MaxId = 2
    Requests <- TwoRequests
SYMMETRY Symmetry
INVARIANTS LinkedToOneUser LoginByOwnAccount DisconnectedStaysAway
