SPECIFICATION RequestSpec
CONSTANTS
    Threads = {t1, t2}
    DayLength = 2
    Base = 4
    MaxSecond = 2
    MaxCount = 2
    Users = {u1, u2}
    Tokens = {k1, k2}
    Length <- ShortMonths
    Limit = 2
    Window = 3
    Second = 2
    MaxTime = 7
    MaxRequests = 6
    Processes = {p1, p2}
    Numbers = {1, 2}
    MaxStarts = 3
    MaxFaults = 1
    None = None
INVARIANTS
    IInv
    
    RateInv
    LockInv
PROPERTIES
    EndedStaysEnded
    CountIsStreak
\* The clock and the requests of the rate limit are bounded.
CHECK_DEADLOCK FALSE
