-------------------------------- MODULE GeoPaging --------------------------------
(***************************************************************************)
(* The list of shops of one type by distance: ShopServiceImpl.             *)
(* queryShopByType over the GEO index and MySQL, and shop-list.html, which *)
(* asks for page after page.  Requests overlap and may be lost; the page   *)
(* number goes up with the request, not with the answer.                   *)
(***************************************************************************)
EXTENDS Integers, FiniteSets

CONSTANTS
    MaxShops,       \* bound on the shops within the distance
    PageSize,       \* SystemConstants.MAX_PAGE_SIZE
    MaxPage,        \* bound on the pages asked for
    MaxFaults       \* bound on lost answers and shops missing in MySQL

VARIABLES
    shops,          \* number of shops in the index; the i-th nearest is shop i
    missing,        \* shops that are in the index and not in MySQL
    current,        \* the page last asked for, 0 before the first
    flight,         \* pages under way
    arrived,        \* pages whose list has arrived
    failed,         \* pages answered with an error of the server
    listed,         \* how often each shop is in the list
    faults

vars == <<shops, missing, current, flight, arrived, failed, listed, faults>>

Init ==
    /\ shops \in 0..MaxShops
    /\ missing \in {m \in SUBSET (1..shops) : Cardinality(m) <= MaxFaults}
    /\ current = 0 /\ flight = {} /\ arrived = {} /\ failed = {}
    /\ listed = [i \in 1..MaxShops |-> 0]
    /\ faults = Cardinality(missing)

--------------------------------------------------------------------------------
(* queryShopByType.                                                        *)

\* Slip: shops are taken to count from zero.
FromOne(p) == (p - 1) * PageSize + 1

From(p) == (p - 1) * PageSize

\* The nearest shops of all pages up to this one: GEOSEARCH ... limit(end).
Content(p) == 1..(IF p * PageSize < shops THEN p * PageSize ELSE shops)

\* Slip: the shops of the pages before are not dropped.
AllIds(p) == Content(p)

\* The shops of the page: those of the pages before are dropped.
Ids(p) == {i \in Content(p) : i > From(p)}

NoMore(p) == Cardinality(Content(p)) < From(p)

\* "IN ()" and "field(id,)" are no SQL: a page without ids ends in an exception.
Statement(p) == Ids(p) # {}

--------------------------------------------------------------------------------
(* The page.                                                               *)

\* At the bottom of the list, or at the start.
Ask ==
    /\ current < MaxPage
    /\ current' = current + 1
    /\ flight' = flight \cup {current + 1}
    /\ UNCHANGED <<shops, missing, arrived, failed, listed, faults>>

\* An answer without data changes nothing.
End(p) ==
    /\ NoMore(p)
    /\ UNCHANGED <<arrived, failed, listed>>

List(p) ==
    /\ ~NoMore(p) /\ Statement(p)
    /\ arrived' = arrived \cup {p}
    /\ listed' = [i \in 1..MaxShops |->
                     IF i \in Ids(p) \ missing THEN listed[i] + 1 ELSE listed[i]]
    /\ UNCHANGED failed

Exception(p) ==
    /\ ~NoMore(p) /\ ~Statement(p)
    /\ failed' = failed \cup {p}
    /\ UNCHANGED <<arrived, listed>>

Answer(p) ==
    /\ flight' = flight \ {p}
    /\ End(p) \/ List(p) \/ Exception(p)
    /\ UNCHANGED <<shops, missing, current, faults>>

\* The request fails otherwise, or the page has waited long enough.
Lose(p) ==
    /\ faults < MaxFaults /\ faults' = faults + 1
    /\ flight' = flight \ {p}
    /\ UNCHANGED <<shops, missing, current, arrived, failed, listed>>

Next == Ask \/ \E p \in flight : Answer(p) \/ Lose(p)

Spec == Init /\ [][Next]_vars

--------------------------------------------------------------------------------
\* Every variable has its type; no shop is listed twice.
TypeOK ==
    /\ shops \in 0..MaxShops /\ missing \subseteq 1..shops
    /\ current \in 0..MaxPage
    /\ flight \cup arrived \cup failed \subseteq 1..current
    /\ listed \in [1..MaxShops -> 0..1]
    /\ faults \in 0..MaxFaults

\* Whatever pages have arrived, in whatever order: the shops of the pages up to p are in the
\* list, each of them once, if all of these pages have arrived, and nothing else is.
PagesTile ==
    /\ \A p \in 0..MaxPage :
          1..p \subseteq arrived =>
             \A i \in (1..(p * PageSize) \cap 1..shops) \ missing : listed[i] = 1
    /\ \A i \in 1..MaxShops :
          listed[i] # 0 => i \notin missing /\ \E p \in arrived : i \in Ids(p)

\* "No next page" (queryShopByType): to ask for a page behind the last shop is no error.
NoMoreIsNoError == failed = {}
================================================================================
