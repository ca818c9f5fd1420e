SPECIFICATION Spec
CONSTANTS
    r1 = r1  r2 = r2  r3 = r3  u1 = u1  u2 = u2  None = None
    Users = {u1}
    Reservations = {r1, r2}
    UserOf <- SameBuyer
    Stock0 = 1
    Consumers = {c1}
    DeadLetters = {d1}
    Schedulers = {s1}
    MaxAttempts = 2
    MaxFaults = 2
INVARIANT IInv
CHECK_DEADLOCK FALSE
