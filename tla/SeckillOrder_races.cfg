SPECIFICATION Spec
CONSTANTS
    r1 = r1  r2 = r2  r3 = r3  u1 = u1  u2 = u2  None = None
    Users = {u1}
    Reservations = {r1, r2}
    UserOf <- SameBuyer
    Stock0 = 2
    Consumers = {c1}
    DeadLetters = {d1}
    Schedulers = {s1, s2}
    MaxAttempts = 1
    MaxFaults = 1
INVARIANTS
    RedisConservation
    DbConservation
    RedisNeverAhead
    ActiveOwned
    SlotsTraced
    ClosedReturnedOnce
    AcceptedIsTraced
SYMMETRY Symmetry
PROPERTY CancelledIsFinal
CHECK_DEADLOCK FALSE
