SPECIFICATION FairSpec
CONSTANTS
    Jobs = {j1, j2, j3}
    RelayJobs = {j3}
    DeferrableJobs = {j1}
    Hangs = {j2}
    Workers = {w1}
    queueCapacity = 1
    MaxBatchSize = 2
    poolDepth = 1
    AdminCalls = {a1}
    MaxAdmin = 1
    MayStop = TRUE
CHECK_DEADLOCK FALSE
INVARIANTS TypeOK NothingLostOrDoubled
PROPERTIES EveryJobRuns
