SPECIFICATION FairSpec
CONSTANTS
    u1 = u1  j1 = j1  j2 = j2  j3 = j3
    s1 = s1  s2 = s2  b1 = b1  b2 = b2  None = None
    Users <- OneUser
    JobIds <- ThreeJobs
    Slots <- TwoSlots
    BatchRuns <- TwoRuns
    BatchSize = 1
    MaxAttempts = 2
    MaxStalls = 1
    Faults <- HandlerFault
INVARIANTS OpenJobsBounded CompletionAgrees RowsFollowJobs
PROPERTIES LifecycleSpec OpenRowsClose
