\* One slot over subprocesses that crash, miss deadlines and survive stops.
CONSTANTS
    Roster <- MCRoster
    MaxParallel = 1
    BufferPct = 50
    Requests = {r1}
    Tokenizers = {}
    Evictor = evictor
    NoActor = nobody
    Actors <- MCActors
    MaxPid = 8
    SlowAnswers = TRUE
    StopMayFail = TRUE
    QueryMayFail = FALSE
    UseReaper = TRUE
    ReqKinds <- MCTextAndImage
    AvailReadings <- MCReadings
    MaxArrivals = 2
SPECIFICATION FairSpec
PROPERTIES
    EveryRequestFinishes
    OrphansReaped
