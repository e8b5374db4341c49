SPECIFICATION QueueFairSpec
CONSTANTS
    i1 = i1  j1 = j1  j2 = j2  j3 = j3  Nobody = Nobody
    Instances <- OneInstance
    Jobs <- TwoJobs
    MaxVersion = 2
    Concurrency = 1
    MaxAttempts = 2
    MaxStalls = 1
    Faults <- AllFaults
INVARIANTS ScoresCatchUp ShutdownKeepsJobs
PROPERTY JobsSettle
