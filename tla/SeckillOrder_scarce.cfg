SPECIFICATION Spec
CONSTANTS
    r1 = r1  r2 = r2  r3 = r3  u1 = u1  u2 = u2  None = None
    Users = {u1, u2}
    Reservations = {r1, r2, r3}
    UserOf <- ThreeAttempts
    Stock0 = 1
    Consumers = {c1}
    DeadLetters = {d1}
    Schedulers = {s1}
    MaxAttempts = 1
    MaxFaults = 0
PROPERTY ImplementsSale
CHECK_DEADLOCK FALSE
