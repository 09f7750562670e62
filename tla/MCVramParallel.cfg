\* Two slots, two callers, a token count and the eviction loop.
CONSTANTS
    Roster <- MCRoster
    MaxParallel = 2
    BufferPct = 50
    Requests = {r1, r2}
    Tokenizers = {k1}
    Evictor = evictor
    NoActor = nobody
    Actors <- MCActors
    MaxPid = 8
    SlowAnswers = TRUE
    StopMayFail = FALSE
    QueryMayFail = TRUE
    UseReaper = FALSE
    ReqKinds <- MCAllKinds
    AvailReadings <- MCReadings
    MaxArrivals = 2
SPECIFICATION Spec
INVARIANTS
    TypeOK
    ServedAsAsked
    ModeAgreement
SYMMETRY Interchangeable
CHECK_DEADLOCK FALSE
