SPECIFICATION FairSpec
CONSTANTS
    r1 = r1  r2 = r2  n1 = n1  n2 = n2  google = google  own = own
    None = None
    Requests <- TwoRequests
    Names <- TwoNames
    UserName <- n1
    Pictures <- TwoPictures
    GooglePicture <- google
    MaxWrites = 2
    MaxLate = 1
INVARIANT OnboardingShown
PROPERTY DashboardCatchesUp
