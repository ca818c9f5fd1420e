SPECIFICATION Spec
CONSTANTS
    Users = {u1}
    Stock0 = 1
    MaxFaults = 0
    None = None
INVARIANT ClosedMayBuyAgain
