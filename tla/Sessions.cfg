SPECIFICATION Spec
CONSTANTS
    s1 = s1  s2 = s2  s3 = s3  c1 = c1  c2 = c2
    r1 = r1  r2 = r2  r3 = r3  None = None
    Sids <- ThreeSessions
    Browsers <- TwoBrowsers
    Requests <- ThreeRequests
    BrowserOf <- Tabs
    Faults <- Aborts
SYMMETRY Symmetry
INVARIANTS RotatedIsRevoked OneLivePerLogin CookiesUsable
