SPECIFICATION Spec
CONSTANTS
    u1 = u1  u2 = u2  c1 = c1  c2 = c2  a1 = a1  w1 = w1
    None = None
    Users <- TwoUsers
    Channels <- OneChannel
    ApiSyncs <- OneApiSync
    WorkerSyncs <- OneWorker
    After <- ThreeTables
    MaxVersion = 2
    MaxFailures = 1
INVARIANT CopiesBounded
PROPERTIES MetricsNeverVanish LoneSyncRepairs
