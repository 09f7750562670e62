\* Two slots: is an image answered by a subprocess with --mmproj?
CONSTANTS
    Roster <- MCRoster
    MaxParallel = 2
    BufferPct = 50
    Requests = {r1, r2}
    Tokenizers = {}
    Evictor = evictor
    NoActor = nobody
    Actors <- MCActors
    MaxPid = 8
    SlowAnswers = FALSE
    StopMayFail = FALSE
    QueryMayFail = FALSE
    UseReaper = FALSE
    ReqKinds <- MCPinnedWeak
    AvailReadings <- MCPlenty
    MaxArrivals = 2
SPECIFICATION Spec
INVARIANT AnsweredInRightMode
CHECK_DEADLOCK FALSE
