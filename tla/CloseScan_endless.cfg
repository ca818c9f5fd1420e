SPECIFICATION FairSpec
CONSTANTS
    Orders = {a, b}
    Broken = {}
    Page = 2
    MaxOrders = 0
    Endless = TRUE
    MaxFaults = 0
PROPERTY ExpiredClosed
