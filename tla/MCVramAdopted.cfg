\* Two slots and a token count: does the VRAM come back?
CONSTANTS
    Roster <- MCRoster
    MaxParallel = 2
    BufferPct = 50
    Requests = {r1, r2}
    Tokenizers = {k1}
    Evictor = evictor
    NoActor = nobody
    Actors <- MCActors
    MaxPid = 8
    SlowAnswers = FALSE
    StopMayFail = FALSE
    QueryMayFail = FALSE
    UseReaper = TRUE
    ReqKinds <- MCPlain
    AvailReadings <- MCPlenty
    MaxArrivals = 2
SPECIFICATION FairSpec
PROPERTY VRAMReturned
CHECK_DEADLOCK FALSE
