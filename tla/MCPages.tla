--------------------------------- MODULE MCPages ---------------------------------
(***************************************************************************)
(* What the pages of the site show, for TLC: the feed, the shops by        *)
(* distance and the types of shops.  The three components share no state,  *)
(* so it is enough for a behaviour to exercise one of them.                *)
(***************************************************************************)
EXTENDS Naturals, FiniteSets

CONSTANTS
    Blogs, Later, Times, Clocks, FeedPage, MaxFlight, MaxFeedFaults, None,  \* FeedPaging
    Inboxes,        \* bound: the inboxes that the feed may start with
    MaxShops, ShopPage, MaxPage, MaxGeoFaults,                              \* GeoPaging
    Threads, Types                                                          \* ShopTypeList

\* Pages hold something, ...
ASSUME PageAssumption ==
    /\ FeedPage \in Nat \ {0} /\ MaxFlight \in Nat /\ MaxFeedFaults \in Nat
    /\ ShopPage \in Nat \ {0} /\ MaxShops \in Nat /\ MaxPage \in Nat /\ MaxGeoFaults \in Nat

\* ... ids and times are numbers, None is neither a cursor nor an answer, ...
ASSUME BlogAssumption ==
    /\ Blogs \subseteq Nat /\ IsFiniteSet(Blogs) /\ Later \subseteq Blogs
    /\ Times \subseteq Nat /\ Clocks \subseteq Nat
    /\ LET Cursor == [max : Nat, offset : Nat] IN
       /\ None \notin Cursor
       /\ None \notin [list : SUBSET Blogs, next : Cursor \cup {None}, inbox : SUBSET Blogs]

\* ... and there are types of shops.
ASSUME TypesAssumption == Types \in Nat \ {0} /\ IsFiniteSet(Threads)

VARIABLES
    part,                                                           \* the component at work
    inbox, deleted, cursor, flight, shown, first, mixed, outdated, disturbed, late,
    feedFaults,                                                     \* FeedPaging
    shops, missing, current, asked, arrived, failed, listed, geoFaults, \* GeoPaging
    length, typesPc, size, answer                                   \* ShopTypeList

\* All blogs of one millisecond, more than a page of them.
OneMillisecond == {[b \in Blogs \ Later |-> 1]}

Feed ==
    INSTANCE FeedPaging WITH
        PageSize <- FeedPage, MaxFaults <- MaxFeedFaults, faults <- feedFaults

Geo ==
    INSTANCE GeoPaging WITH
        PageSize <- ShopPage, MaxFaults <- MaxGeoFaults, flight <- asked, faults <- geoFaults

ShopTypes == INSTANCE ShopTypeList WITH pc <- typesPc

feedVars  == <<inbox, deleted, cursor, flight, shown, first, mixed, outdated, disturbed, late,
               feedFaults>>
geoVars   == <<shops, missing, current, asked, arrived, failed, listed, geoFaults>>
typesVars == <<length, typesPc, size, answer>>

Init ==
    /\ part \in {"feed", "geo", "types"}
    /\ Feed!Init /\ inbox \in Inboxes
    /\ Geo!Init /\ (part # "geo" => shops = 0)
    /\ ShopTypes!Init

pageVars == <<part, feedVars, geoVars, typesVars>>

Next ==
    \/ part = "feed" /\ Feed!Next /\ UNCHANGED <<part, geoVars, typesVars>>
    \/ part = "geo" /\ Geo!Next /\ UNCHANGED <<part, feedVars, typesVars>>
    \/ part = "types" /\ ShopTypes!Next /\ UNCHANGED <<part, feedVars, geoVars>>

\* Fairness of FeedPaging; each of these actions changes flight.
FeedFairness ==
    /\ SF_flight(part = "feed" /\ Feed!LoadMore)
    /\ WF_flight(part = "feed" /\ \E r \in flight : Feed!Serve(r) \/ Feed!Receive(r))

Spec == Init /\ [][Next]_pageVars /\ FeedFairness

\* FeedPaging: nothing that was in the inbox at the first page, up to the time it was asked
\* for, is skipped on the way down, as long as cursor and list belong together; and while
\* requests do not overlap, blogs are shown twice only for pushes of a cursor's own time.
FeedInv == Feed!TypeOK /\ Feed!NothingSkipped /\ Feed!NoPageTwice

\* FeedPaging: a reader who scrolls on comes to the end.
EndReached == part = "feed" => Feed!EndReached

\* GeoPaging: the pages tile the list of shops by distance.
GeoInv == Geo!TypeOK /\ Geo!PagesTile

\* ShopTypeList: no answer stops in the middle of the types.
TypesInv == ShopTypes!TypeOK /\ ShopTypes!WholeLists
================================================================================
