\* Two requests and two slots, a tool call, a crash and any restarts.
CONSTANTS
    Requests <- MCRequests
    Kinds <- MCKinds
    MaxParallel = 2
    jobHistoryMax = 2
    MaxChunks = 1
    MaxToolCalls = 2
    MaxCrashes = 1
SPECIFICATION FairSpec
INVARIANTS
    TypeOK
    NoSplicedAnswer
    ToolsResolved
    TruthfulEnd
    HistoryAgrees
PROPERTIES
    EveryRequestEnds
CHECK_DEADLOCK FALSE
