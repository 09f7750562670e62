SPECIFICATION Spec
CONSTANTS
    Jobs = {j1}
    Workers = {w1}
    Frames = {f1, f2}
    NoJob = NoJob
    NoWorker = NoWorker
    MaxAttempts <- MCOneAttempt
    MaxPendingDepth = 2
    VisibilityTimeout = 2
    claimTimeout = 1
    maxJobWait = 1
    ackRetries = 2
    Faults = {"crash"}
    MaxFaults = 1
    MayPause = FALSE
INVARIANTS PendingIsClaimable
