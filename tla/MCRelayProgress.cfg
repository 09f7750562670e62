SPECIFICATION FairSpec
CONSTANTS
    Jobs = {j1}
    Workers = {w1}
    Frames = {f1, f2}
    NoJob = NoJob
    NoWorker = NoWorker
    MaxAttempts <- MCThreeAttempts
    MaxPendingDepth = 2
    VisibilityTimeout = 2
    claimTimeout = 1
    maxJobWait = 1
    ackRetries = 3
    Faults = {"db", "disconnect", "restart", "crash", "ackLost"}
    MaxFaults = 2
    MayPause = TRUE
PROPERTIES JobSettledOnce DoneIsReported EveryJobSettles
