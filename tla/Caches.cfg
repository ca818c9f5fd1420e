SPECIFICATION CacheSpec
CONSTANTS
    Readers = {q1}
    Updaters = {p1}
    Task = task
    Hot = TRUE
    MaxVersion = 2
    MaxFaults = 2
    None = None
    Orphan = orphan
    Users = {u1, u2}
    Clients = {t1, t2}
    Legacy = 1
    Ttl = 1
    MaxProjectionFaults = 1
INVARIANTS
    CacheInv
    ProjectionInv
    CountMatches
PROPERTIES
    AllCallsEnd
    EventuallyFresh
    EventuallyExact
\* A thread that waits for good is to be reported as a query, an update or a request
\* that never ends: the fairness leaves no other way for the system to stop.
CHECK_DEADLOCK FALSE
