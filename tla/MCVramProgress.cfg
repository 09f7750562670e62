\* Two slots, two callers; subprocesses miss deadlines and survive stops.
CONSTANTS
    Roster <- MCRoster
    MaxParallel = 2
    BufferPct = 50
    Requests = {r1, r2}
    Tokenizers = {}
    Evictor = evictor
    NoActor = nobody
    Actors <- MCActors
    MaxPid = 8
    SlowAnswers = TRUE
    StopMayFail = TRUE
    QueryMayFail = FALSE
    UseReaper = FALSE
    ReqKinds <- MCPlain
    AvailReadings <- MCPlenty
    MaxArrivals = 2
SPECIFICATION FairSpec
PROPERTIES
    EveryRequestFinishes
CHECK_DEADLOCK FALSE
