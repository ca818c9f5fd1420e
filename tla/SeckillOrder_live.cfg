SPECIFICATION FairSpec
CONSTANTS
    r1 = r1  r2 = r2  r3 = r3  u1 = u1  u2 = u2  None = None
    Users = {u1}
    Reservations = {r1}
    UserOf <- OneAttempt
    Stock0 = 1
    Consumers = {c1}
    DeadLetters = {d1}
    Schedulers = {s1, s2}
    MaxAttempts = 1
    MaxFaults = 3
PROPERTIES
    HeldSettles
    AcceptedIsDecided
    EventuallyReconciled
CHECK_DEADLOCK FALSE
