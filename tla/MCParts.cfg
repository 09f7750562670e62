\* Admission: default roster, 8 GB card, other programs' VRAM in 256 MB steps.
\* Ask: two questions of one visitor and an /enqueue, every limit at one.
\* Chats: one conversation more than the cap, a failing file operation, two restarts.
\* Prompts: up to three documents for a budget of two, requests of up to two turns.
\* Rates: 1/2, 1 1/2 and 2 1/2 requests a minute of three ticks.
CONSTANTS
    Roster <- MCRoster
    MaxParallel = 2
    BufferPct = 10
    TotalMB = 8192
    ExternalStepMB = 256
    ExternalLevels <- MCExternalLevels
    NVML = TRUE
    Questions = {q1, q2}
    Visitors = {v1}
    VisitorOf <- MCVisitorOf
    Enqueues = {e1}
    PerDay = 1
    MaxConcurrent = 1
    VisitorPerDay = 1
    HostedVisitorPerDay = 1
    DBMayFail = TRUE
    MaxDay = 1
    MaxRestarts = 1
    Chats = {chat1, chat2, chat3}
    MaxConversations = 2
    MaxChatClock = 3
    MaxFileFaults = 1
    MaxReopens = 2
    SourceBudget = 3
    MaxSources = 2
    DocSizes = {1, 2}
    Scores = {0, 1, 2}
    MaxDocs = 3
    MaxTurns = 2
    Identities = {i1, i2}
    Rates = {1, 3, 5}
    TopRate = 5
    Grain = 2
    Minute = 3
    IdleTicks = 3
SPECIFICATION PartsSpec
SYMMETRY Interchangeable
INVARIANTS
    PartsTypeOK
    AdmittedFits
    NoSelfPressure
    WithinCard
    QuotaOvershootBounded
    ReplyAgreesWithJob
    VisitorCapped
    MemoryIsOnDisk
    KeepsRecent
    CapOvershootBounded
    DeletedStaysDeleted
    SaidIsShown
    BestSources
    RateKept
