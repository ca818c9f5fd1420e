SPECIFICATION TaskSpec
CONSTANTS
    Payers = {p1, p2}
    Closers = {k1, k2}
    Stock0 = 1
    MaxFaults = 2
    Orders = {a, b, c, x}
    BrokenOrders = {x}
    MaxOrders = 5
    Records = {a, b, x, y}
    BrokenRecords = {x, y}
    Page = 2
    MaxScanFaults = 1
    Users = {u1, u2}
    VoucherStock = 2
    None = None
INVARIANTS
    LifeInv
    ScansInv
    PreheatInv
PROPERTIES
    ImplementsLife
    OrderDecided
    ExpiredClosed
    NothingResurrected
    HealthySettled
