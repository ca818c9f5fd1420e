SPECIFICATION Spec
CONSTANTS
    Blogs = {1, 2, 3, 4}
    Later = {3}
    Times = {1, 2}
    Clocks = {1, 3}
    Inboxes <- OneMillisecond
    FeedPage = 2
    MaxFlight = 2
    MaxFeedFaults = 1
    None = None
    MaxShops = 7
    ShopPage = 3
    MaxPage = 4
    MaxGeoFaults = 1
    Threads = {t1, t2, t3}
    Types = 3
INVARIANTS
    FeedInv
    GeoInv
    TypesInv
PROPERTY
    EndReached
\* The pages of shops are bounded, and a list of types has been read when it has been read.
CHECK_DEADLOCK FALSE
