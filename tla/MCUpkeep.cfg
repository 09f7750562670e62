\* TTL sweeper: two jobs, a TTL of two ticks, restarts and failing queries.
\* Members: two callers with different keys, changes of keys and invitations.
CONSTANTS
    Jobs = {j1, j2}
    TTL = 2
    MaxAge = 4
    DBMayFail = TRUE
    MaxRestarts = 1
    c1 = c1
    c2 = c2
    k1 = k1
    k2 = k2
    Callers = {c1, c2}
    Kids = {k1, k2}
    KidOf <- MCKidOf
    MinRefresh = 1
    FetchTimeout = 1
    MaxChanges = 2
SPECIFICATION UpkeepSpec
INVARIANTS
    UpkeepTypeOK
    Tracked
    CacheFresh
PROPERTIES
    EventuallyPurged
    MemberIsAdmitted
