SPECIFICATION Spec
CONSTANTS
    Jobs = {j1, j2}
    Workers = {w1, w2}
    Frames = {f1, f2}
    NoJob = NoJob
    NoWorker = NoWorker
    MaxAttempts <- MCOneAttempt
    MaxPendingDepth = 2
    VisibilityTimeout = 2
    claimTimeout = 1
    maxJobWait = 1
    ackRetries = 2
    Faults = {"restart", "ackLost"}
    MaxFaults = 1
    MayPause = FALSE
SYMMETRY Interchangeable
INVARIANTS TypeOK RunsAlone NoLostWakeup
