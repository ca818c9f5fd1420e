------------------------------ MODULE Pages_proofs ------------------------------
(***************************************************************************)
(* The pages of the site, for any number of shops, blogs, types, requests  *)
(* and faults and pages of any size.                                       *)
(***************************************************************************)
EXTENDS MCPages, FiniteSetTheorems, WellFoundedInduction, TLAPS

--------------------------------------------------------------------------------
(* Multiples.                                                              *)

LEMMA TimesOrder ==
    ASSUME NEW a \in Nat, NEW b \in Nat, NEW n \in Nat, a <= b
    PROVE  a * n \in Nat /\ b * n \in Nat /\ a * n <= b * n
<1>1. PICK c \in Nat : b = a + c
  <2>1. b - a \in Nat /\ b = a + (b - a)
    OBVIOUS
  <2> QED BY <2>1
<1>2. b * n = a * n + c * n /\ c * n \in Nat /\ a * n \in Nat
  BY <1>1
<1> QED BY <1>2

\* What lies strictly between two multiples of a number is none.
LEMMA TimesStrict ==
    ASSUME NEW a \in Nat, NEW b \in Nat, NEW n \in Nat, a * n < b * n
    PROVE  a < b
<1>1. CASE b <= a
  BY <1>1, TimesOrder
<1> QED BY <1>1

LEMMA NextTimes ==
    ASSUME NEW a \in Nat, NEW n \in Nat
    PROVE  (a + 1) * n = a * n + n
OBVIOUS

--------------------------------------------------------------------------------
(* GeoPaging.                                                              *)

\* A page is asked for once.
AskedOnce ==
    /\ shops \in 0..MaxShops /\ missing \subseteq 1..shops /\ current \in 0..MaxPage
    /\ asked \cup arrived \cup failed \subseteq 1..current /\ asked \cap arrived = {}
    /\ geoFaults \in 0..MaxGeoFaults

\* A shop is in the list once if the page it belongs to has arrived, and else not at all.
ListedOnce ==
    /\ listed \in [1..MaxShops -> 0..1]
    /\ \A i \in 1..MaxShops :
          listed[i] = 1 <=> i \notin missing /\ \E p \in arrived : i \in Geo!Ids(p)

GeoInd == AskedOnce /\ ListedOnce

\* A page holds the shops between two multiples of its size.
LEMMA ShopsOfPage ==
    ASSUME NEW p \in Nat, shops \in Nat, NEW i
    PROVE  i \in Geo!Ids(p) <=> i \in 1..shops /\ (p - 1) * ShopPage < i /\ i <= p * ShopPage
<1>1. p * ShopPage \in Nat /\ (p - 1) * ShopPage \in Int
  BY PageAssumption
<1> DEFINE a == p * ShopPage
           b == (p - 1) * ShopPage
<1>2. a \in Nat /\ b \in Int
  BY <1>1
<1>3. Geo!Ids(p) = {j \in 1..(IF a < shops THEN a ELSE shops) : j > b}
  BY DEF Geo!Ids, Geo!Content, Geo!From
<1> HIDE DEF a, b
<1>4. i \in Geo!Ids(p) <=> i \in 1..shops /\ b < i /\ i <= a
  BY <1>2, <1>3
<1> QED BY <1>4 DEF a, b

\* Every shop is on exactly one page.
LEMMA OnePage ==
    ASSUME NEW p \in Nat \ {0}, NEW q \in Nat \ {0}, shops \in Nat, NEW i, i \in Geo!Ids(p), i \in Geo!Ids(q)
    PROVE  p = q
<1>1. /\ i \in Nat /\ (p - 1) * ShopPage < i /\ i <= p * ShopPage
      /\ (q - 1) * ShopPage < i /\ i <= q * ShopPage
  BY ShopsOfPage
<1>2. p - 1 \in Nat /\ q - 1 \in Nat /\ ShopPage \in Nat
  BY PageAssumption
<1>3. /\ (p - 1) * ShopPage \in Nat /\ p * ShopPage \in Nat
      /\ (q - 1) * ShopPage \in Nat /\ q * ShopPage \in Nat
  BY <1>2
<1>4. p - 1 < q /\ q - 1 < p
  <2>1. (p - 1) * ShopPage < q * ShopPage /\ (q - 1) * ShopPage < p * ShopPage
    BY <1>1, <1>3
  <2> QED BY <1>2, <2>1, TimesStrict
<1> QED BY <1>4

LEMMA ItsPage ==
    ASSUME NEW p \in Nat, shops \in Nat, NEW i \in 1..shops, i <= p * ShopPage
    PROVE  \E q \in 1..p : i \in Geo!Ids(q)
<1> DEFINE k == (i - 1) \div ShopPage
           r == (i - 1) % ShopPage
<1>1. ShopPage \in Nat /\ ShopPage > 0 /\ i - 1 \in Nat
  BY PageAssumption
<1>2. k \in Nat /\ r \in 0..(ShopPage - 1) /\ i - 1 = k * ShopPage + r
  BY <1>1
<1> HIDE DEF k, r
<1>3. k * ShopPage \in Nat /\ (k + 1) * ShopPage = k * ShopPage + ShopPage /\ p * ShopPage \in Nat
  BY <1>1, <1>2, NextTimes
<1>4. k * ShopPage < i /\ i <= (k + 1) * ShopPage /\ k * ShopPage < p * ShopPage
  BY <1>1, <1>2, <1>3
<1>5. k < p
  BY <1>1, <1>2, <1>4, TimesStrict
<1>6. i \in Geo!Ids(k + 1)
  <2>1. k + 1 \in Nat /\ (k + 1) - 1 = k
    BY <1>2
  <2> QED BY <1>4, <2>1, ShopsOfPage
<1>7. k + 1 \in 1..p
  BY <1>2, <1>5
<1> QED BY <1>6, <1>7

LEMMA GeoImplied == GeoInd => GeoInv
<1> SUFFICES ASSUME GeoInd PROVE GeoInv
  OBVIOUS
<1>1. Geo!TypeOK
  BY DEF GeoInd, AskedOnce, ListedOnce, Geo!TypeOK
<1>2. shops \in Nat /\ 1..shops \subseteq 1..MaxShops /\ arrived \subseteq Nat
  BY PageAssumption DEF GeoInd, AskedOnce
<1>3. ASSUME NEW p \in 0..MaxPage, 1..p \subseteq arrived,
             NEW i \in (1..(p * ShopPage) \cap 1..shops) \ missing
      PROVE  listed[i] = 1
  <2>1. p \in Nat /\ i \in 1..shops /\ i <= p * ShopPage
    BY PageAssumption
  <2>2. PICK q \in 1..p : i \in Geo!Ids(q)
    BY <1>2, <2>1, ItsPage
  <2> QED BY <1>2, <1>3, <2>1, <2>2 DEF GeoInd, ListedOnce
<1>4. ASSUME NEW i \in 1..MaxShops, listed[i] # 0
      PROVE  i \notin missing /\ \E p \in arrived : i \in Geo!Ids(p)
  <2>1. listed[i] = 1
    BY <1>4 DEF GeoInd, ListedOnce
  <2> QED BY <2>1 DEF GeoInd, ListedOnce
<1>5. Geo!PagesTile
  BY <1>3, <1>4 DEF Geo!PagesTile
<1> QED BY <1>1, <1>5 DEF GeoInv

LEMMA GeoCardinality == \A S : Geo!Cardinality(S) = Cardinality(S)
BY DEF Geo!Cardinality, Cardinality

LEMMA GeoInit == Geo!Init => GeoInd
<1> SUFFICES ASSUME Geo!Init PROVE GeoInd
  OBVIOUS
<1>1. shops \in 0..MaxShops /\ missing \subseteq 1..shops /\ Cardinality(missing) <= MaxGeoFaults
      /\ geoFaults = Cardinality(missing)
  BY GeoCardinality DEF Geo!Init
<1>2. IsFiniteSet(missing)
  <2>1. shops \in Int
    BY <1>1
  <2>2. IsFiniteSet(1..shops)
    BY <2>1, FS_Interval
  <2> QED BY <1>1, <2>2, FS_Subset
<1>3. Cardinality(missing) \in Nat
  BY <1>2, FS_CardinalityType
<1>4. geoFaults \in 0..MaxGeoFaults
  BY <1>1, <1>3, PageAssumption
<1>5. AskedOnce
  BY <1>1, <1>4, PageAssumption DEF Geo!Init, AskedOnce
<1>6. ListedOnce
  BY DEF Geo!Init, ListedOnce
<1> QED BY <1>5, <1>6 DEF GeoInd

\* The pages that arrive are those that were asked for and had not arrived.
LEMMA GeoAnswer ==
    ASSUME GeoInd, NEW p \in asked, Geo!Answer(p)
    PROVE  GeoInd'
<1>1. p \in Nat \ {0} /\ p \in 1..current /\ p \notin arrived /\ shops \in Nat /\ arrived \subseteq Nat \ {0}
  BY DEF GeoInd, AskedOnce
<1>2. asked' = asked \ {p} /\ UNCHANGED <<shops, missing, current, geoFaults>>
  BY DEF Geo!Answer
<1>3. CASE Geo!End(p)
  BY <1>2, <1>3 DEF Geo!End, GeoInd, AskedOnce, ListedOnce, Geo!Ids, Geo!Content, Geo!From
<1>4. CASE Geo!Exception(p)
  BY <1>1, <1>2, <1>4 DEF Geo!Exception, GeoInd, AskedOnce, ListedOnce, Geo!Ids, Geo!Content, Geo!From
<1>5. CASE Geo!List(p)
  <2>1. /\ arrived' = arrived \cup {p} /\ failed' = failed
        /\ listed' = [i \in 1..MaxShops |-> IF i \in Geo!Ids(p) \ missing THEN listed[i] + 1 ELSE listed[i]]
    BY <1>5 DEF Geo!List
  <2>2. AskedOnce'
    BY <1>1, <1>2, <2>1 DEF GeoInd, AskedOnce
  <2>3. \A q : Geo!Ids(q)' = Geo!Ids(q)
    BY <1>2 DEF Geo!Ids, Geo!Content, Geo!From
  <2>4. ASSUME NEW i \in 1..MaxShops
        PROVE  /\ listed'[i] \in 0..1
               /\ listed'[i] = 1 <=> i \notin missing /\ \E q \in arrived \cup {p} : i \in Geo!Ids(q)
    <3>1. CASE i \in Geo!Ids(p) \ missing
      <4>1. \A q \in arrived : i \notin Geo!Ids(q)
        BY <1>1, <3>1, OnePage
      <4>2. listed[i] = 0
        BY <4>1 DEF GeoInd, ListedOnce
      <4> QED BY <2>1, <3>1, <4>2
    <3>2. CASE i \notin Geo!Ids(p) \ missing
      BY <2>1, <3>2 DEF GeoInd, ListedOnce
    <3> QED BY <3>1, <3>2
  <2>5. ListedOnce'
    <3>1. listed' \in [1..MaxShops -> 0..1]
      BY <2>1, <2>4
    <3> QED BY <1>2, <2>1, <2>3, <2>4, <3>1 DEF ListedOnce
  <2> QED BY <2>2, <2>5 DEF GeoInd
<1> QED BY <1>3, <1>4, <1>5 DEF Geo!Answer

LEMMA GeoNext == GeoInd /\ [Geo!Next]_geoVars => GeoInd'
<1> SUFFICES ASSUME GeoInd, [Geo!Next]_geoVars PROVE GeoInd'
  OBVIOUS
<1> USE DEF Geo!Ids, Geo!Content, Geo!From
<1>1. CASE Geo!Ask
  <2>1. /\ current < MaxPage /\ current' = current + 1 /\ asked' = asked \cup {current + 1}
        /\ UNCHANGED <<shops, missing, arrived, failed, listed, geoFaults>>
    BY <1>1 DEF Geo!Ask
  <2>2. AskedOnce'
    BY <2>1, PageAssumption DEF GeoInd, AskedOnce
  <2> QED BY <2>1, <2>2 DEF GeoInd, ListedOnce
<1>2. ASSUME NEW p \in asked, Geo!Answer(p) PROVE GeoInd'
  BY <1>2, GeoAnswer
<1>3. ASSUME NEW p \in asked, Geo!Lose(p) PROVE GeoInd'
  BY <1>3, PageAssumption DEF Geo!Lose, GeoInd, AskedOnce, ListedOnce
<1>4. CASE UNCHANGED geoVars
  BY <1>4 DEF geoVars, GeoInd, AskedOnce, ListedOnce
<1> QED BY <1>1, <1>2, <1>3, <1>4 DEF Geo!Next

\* GeoPaging: whatever pages of the shops by distance have arrived, in whatever order and with
\* whatever losses, each shop of theirs is in the list once, and no other one is
\* (queryShopByType, shop-list.html).
THEOREM PagesTileTheShops == Geo!Spec => []GeoInv
<1>1. Geo!Spec => Geo!Init /\ [][Geo!Next]_geoVars
  BY DEF Geo!Spec, Geo!vars, geoVars
<1> QED BY <1>1, GeoInit, GeoNext, GeoImplied, PTL

--------------------------------------------------------------------------------
(* ShopTypeList.                                                           *)

Copies(n) == \E k \in Nat : n = k * Types

\* The threads that have found the list empty and will fill it.
Fillers == {t \in Threads : typesPc[t] = "push"}

TypesInd ==
    /\ typesPc \in [Threads -> {"size", "range", "push"}]
    /\ size \in [Threads -> Nat] /\ answer \in [Threads -> Nat]
    /\ \A t \in Threads : Copies(size[t]) /\ Copies(answer[t])
    /\ \E k \in Nat : length = k * Types /\ k + Cardinality(Fillers) <= Cardinality(Threads)

LEMMA CopiesAreWhole ==
    ASSUME NEW n \in Nat, Copies(n)
    PROVE  n % Types = 0
<1>1. PICK k \in Nat : n = k * Types
  BY DEF Copies
<1>2. Types \in Nat /\ Types > 0
  BY TypesAssumption
<1> DEFINE q == n \div Types
           r == n % Types
<1>3. q \in Nat /\ r \in 0..(Types - 1) /\ n = q * Types + r
  BY <1>2
<1> HIDE DEF q, r
<1>4. q * Types \in Nat /\ k * Types \in Nat /\ (q + 1) * Types = q * Types + Types
  BY <1>2, <1>3, NextTimes
<1>5. ~(q < k)
  <2>1. SUFFICES ASSUME q < k PROVE FALSE
    OBVIOUS
  <2>2. q + 1 \in Nat /\ q + 1 <= k
    BY <1>3, <2>1
  <2>3. (q + 1) * Types <= k * Types
    BY <1>2, <2>2, TimesOrder
  <2>4. q * Types + Types <= n
    BY <1>1, <1>4, <2>3
  <2>5. \A m \in Nat : m + Types <= n => n # m + r
    BY <1>2, <1>3
  <2> QED BY <1>3, <1>4, <2>4, <2>5
<1>6. k * Types <= q * Types
  BY <1>2, <1>3, <1>5, TimesOrder
<1> QED BY <1>1, <1>3, <1>4, <1>6 DEF r

LEMMA FillersFinite ==
    /\ IsFiniteSet(Fillers) /\ Cardinality(Fillers) \in Nat /\ Cardinality(Threads) \in Nat
    /\ Cardinality(Fillers) <= Cardinality(Threads)
BY TypesAssumption, FS_Subset, FS_CardinalityType DEF Fillers

LEMMA TypesImplied == TypesInd => TypesInv
<1> SUFFICES ASSUME TypesInd PROVE TypesInv
  OBVIOUS
<1>1. PICK k \in Nat : length = k * Types /\ k + Cardinality(Fillers) <= Cardinality(Threads)
  BY DEF TypesInd
<1>2. k <= Cardinality(Threads) /\ Cardinality(Threads) \in Nat
  BY <1>1, FillersFinite
<1>3. length \in 0..(Cardinality(Threads) * Types)
  BY <1>1, <1>2, TimesOrder, TypesAssumption
<1>4. \A S : ShopTypes!Cardinality(S) = Cardinality(S)
  BY DEF ShopTypes!Cardinality, Cardinality
<1>5. ShopTypes!TypeOK
  BY <1>3, <1>4 DEF TypesInd, ShopTypes!TypeOK
<1>6. ShopTypes!WholeLists
  BY CopiesAreWhole DEF TypesInd, ShopTypes!WholeLists
<1> QED BY <1>5, <1>6 DEF TypesInv

LEMMA TypesInit == ShopTypes!Init => TypesInd
<1> SUFFICES ASSUME ShopTypes!Init PROVE TypesInd
  OBVIOUS
<1>1. 0 = 0 * Types
  BY TypesAssumption
<1>2. Copies(0)
  BY <1>1 DEF Copies
<1>3. 0 + Cardinality(Fillers) <= Cardinality(Threads)
  BY FillersFinite
<1> QED BY <1>1, <1>2, <1>3 DEF ShopTypes!Init, TypesInd

\* Whoever fills the list has a copy to spare: those who have found it empty are threads, and
\* once it holds a copy nobody finds it empty.
LEMMA TypesNext == TypesInd /\ [ShopTypes!Next]_typesVars => TypesInd'
<1> SUFFICES ASSUME TypesInd, [ShopTypes!Next]_typesVars PROVE TypesInd'
  OBVIOUS
<1> USE DEF ShopTypes!Goto
<1>0. PICK k \in Nat : length = k * Types /\ k + Cardinality(Fillers) <= Cardinality(Threads)
  BY DEF TypesInd
<1>1. Types \in Nat /\ length \in Nat /\ Copies(length) /\ 1 * Types = Types /\ Copies(Types)
  BY <1>0, TypesAssumption DEF Copies
<1>2. /\ IsFiniteSet(Fillers) /\ Cardinality(Fillers) \in Nat /\ Cardinality(Threads) \in Nat
      /\ Cardinality(Fillers') <= Cardinality(Threads) /\ Cardinality(Fillers') \in Nat
  <2>1. Fillers' \subseteq Threads
    BY DEF Fillers
  <2> QED BY <2>1, FillersFinite, TypesAssumption, FS_Subset, FS_CardinalityType
<1>3. ASSUME NEW t \in Threads, typesPc' = [typesPc EXCEPT ![t] = "size"]
      PROVE  /\ Fillers' = Fillers \ {t}
             /\ typesPc[t] = "push" => t \in Fillers
  BY <1>3 DEF Fillers, TypesInd
<1>4. ASSUME NEW t \in Threads, ShopTypes!Size(t) PROVE TypesInd'
  <2>1. \A u \in Threads : Copies(size'[u]) /\ Copies(answer'[u])
    BY <1>1, <1>4 DEF TypesInd, ShopTypes!Size
  <2>2. \E n \in Nat : length' = n * Types /\ n + Cardinality(Fillers') <= Cardinality(Threads)
    <3>1. CASE length = 0
      BY <1>1, <1>2, <1>4, <3>1 DEF ShopTypes!Size
    <3>2. CASE length # 0
      <4>1. Fillers' = Fillers
        BY <1>4, <3>2 DEF ShopTypes!Size, ShopTypes!IsThere, Fillers, TypesInd
      <4> QED BY <1>0, <1>4, <4>1 DEF ShopTypes!Size
    <3> QED BY <3>1, <3>2
  <2>3. /\ typesPc' \in [Threads -> {"size", "range", "push"}]
        /\ size' \in [Threads -> Nat] /\ answer' \in [Threads -> Nat]
    BY <1>1, <1>4 DEF TypesInd, ShopTypes!Size
  <2> QED BY <2>1, <2>2, <2>3 DEF TypesInd
<1>5. ASSUME NEW t \in Threads, ShopTypes!ReadRange(t) PROVE TypesInd'
  <2>1. LET a == answer'[t] IN a \in Nat /\ Copies(a)
    <3>1. size[t] \in Nat /\ Copies(size[t])
      BY DEF TypesInd
    <3>2. answer'[t] = size[t] \/ answer'[t] = length
      BY <1>1, <1>5, <3>1 DEF TypesInd, ShopTypes!ReadRange, ShopTypes!LastIndex
    <3> QED BY <1>1, <3>1, <3>2
  <2>2. Fillers' = Fillers /\ length' = length /\ size' = size
    BY <1>3, <1>5 DEF ShopTypes!ReadRange, Fillers
  <2>3. \A u \in Threads : Copies(size'[u]) /\ Copies(answer'[u])
    BY <1>5, <2>1, <2>2 DEF TypesInd, ShopTypes!ReadRange
  <2>4. /\ typesPc' \in [Threads -> {"size", "range", "push"}] /\ answer' \in [Threads -> Nat]
    BY <1>5, <2>1 DEF TypesInd, ShopTypes!ReadRange
  <2> QED BY <1>0, <2>2, <2>3, <2>4 DEF TypesInd
<1>6. ASSUME NEW t \in Threads, typesPc' = [typesPc EXCEPT ![t] = "size"]
      PROVE  /\ length' = length => \E n \in Nat : length' = n * Types /\ n + Cardinality(Fillers') <= Cardinality(Threads)
             /\ typesPc[t] = "push" /\ length' = length + Types =>
                   \E n \in Nat : length' = n * Types /\ n + Cardinality(Fillers') <= Cardinality(Threads)
  <2>1. Cardinality(Fillers') = IF t \in Fillers THEN Cardinality(Fillers) - 1 ELSE Cardinality(Fillers)
    BY <1>2, <1>3, <1>6, FS_RemoveElement
  <2>2. k + Cardinality(Fillers') <= Cardinality(Threads)
    BY <1>0, <1>2, <2>1
  <2>3. ASSUME typesPc[t] = "push", length' = length + Types
        PROVE  \E n \in Nat : length' = n * Types /\ n + Cardinality(Fillers') <= Cardinality(Threads)
    <3>1. Cardinality(Fillers') = Cardinality(Fillers) - 1
      BY <1>3, <1>6, <2>1, <2>3
    <3>2. length' = (k + 1) * Types /\ k + 1 \in Nat /\ (k + 1) + Cardinality(Fillers') <= Cardinality(Threads)
      BY <1>0, <1>1, <1>2, <2>3, <3>1, NextTimes
    <3> QED BY <3>2
  <2> QED BY <1>0, <2>2, <2>3
<1>7. ASSUME NEW t \in Threads, ShopTypes!Push(t) PROVE TypesInd'
  <2>1. \A u \in Threads : Copies(size'[u]) /\ Copies(answer'[u])
    BY <1>1, <1>7 DEF TypesInd, ShopTypes!Push
  <2>2. \E n \in Nat : length' = n * Types /\ n + Cardinality(Fillers') <= Cardinality(Threads)
    BY <1>6, <1>7 DEF ShopTypes!Push
  <2>3. /\ typesPc' \in [Threads -> {"size", "range", "push"}]
        /\ size' \in [Threads -> Nat] /\ answer' \in [Threads -> Nat]
    BY <1>1, <1>7 DEF TypesInd, ShopTypes!Push
  <2> QED BY <2>1, <2>2, <2>3 DEF TypesInd
<1>8. ASSUME NEW t \in Threads, ShopTypes!Fails(t) PROVE TypesInd'
  <2>1. \E n \in Nat : length' = n * Types /\ n + Cardinality(Fillers') <= Cardinality(Threads)
    BY <1>6, <1>8 DEF ShopTypes!Fails
  <2> QED BY <1>8, <2>1 DEF ShopTypes!Fails, TypesInd
<1>9. CASE UNCHANGED typesVars
  BY <1>9 DEF typesVars, TypesInd, Fillers
<1> QED BY <1>4, <1>5, <1>7, <1>8, <1>9 DEF ShopTypes!Next

\* ShopTypeList: every answer is whole copies of the types, and the list never holds more
\* copies than there are threads (getTypeList: LLEN, LRANGE, RPUSH without a lock).
THEOREM TypesAreWhole == ShopTypes!Spec => []TypesInv
<1>1. ShopTypes!Spec => ShopTypes!Init /\ [][ShopTypes!Next]_typesVars
  BY DEF ShopTypes!Spec, ShopTypes!vars, typesVars
<1> QED BY <1>1, TypesInit, TypesNext, TypesImplied, PTL

--------------------------------------------------------------------------------
(* An inbox and the places of its entries.                                 *)

\* A set of numbers has a smallest one.
LEMMA SmallestMember ==
    ASSUME NEW S, S \subseteq Nat, S # {}
    PROVE  \E m \in S : \A n \in S : m <= n
<1> DEFINE R == {ss \in Nat \X Nat : ss[1] < ss[2]}
<1>1. R = OpToRel(<, Nat)
  BY DEF OpToRel
<1>2. IsWellFoundedOn(R, Nat)
  BY <1>1, NatLessThanWellFounded
<1>3. PICK m \in S : \A n \in S : <<n, m>> \notin R
  <2> HIDE DEF R
  <2> QED BY <1>2, WFMin
<1>4. \A n \in S : ~(n < m)
  BY <1>3
<1> QED BY <1>4

\* An inbox gives every blog in it a time.
Inbox(f) == DOMAIN f \subseteq Nat /\ IsFiniteSet(DOMAIN f) /\ \A b \in DOMAIN f : f[b] \in Nat

Up(f, a, b) == f[a] > f[b] \/ (f[a] = f[b] /\ a > b)

Upto(f, m) == {b \in DOMAIN f : f[b] <= m}

At(f, m) == {b \in DOMAIN f : f[b] = m}

\* An entry and those above it.
From(f, m, b) == {a \in Upto(f, m) : a = b \/ Up(f, a, b)}

Rank(f, m, b) == Cardinality(From(f, m, b))

Rest(f, c) == {b \in Upto(f, c.max) : Rank(f, c.max, b) > c.offset}

LEMMA FiniteParts ==
    ASSUME NEW f, Inbox(f), NEW m, NEW b
    PROVE  /\ IsFiniteSet(Upto(f, m)) /\ Cardinality(Upto(f, m)) \in Nat
           /\ IsFiniteSet(At(f, m)) /\ Cardinality(At(f, m)) \in Nat
           /\ IsFiniteSet(From(f, m, b)) /\ Rank(f, m, b) \in Nat /\ Rank(f, m, b) <= Cardinality(Upto(f, m))
<1>1. Upto(f, m) \in SUBSET DOMAIN f /\ At(f, m) \in SUBSET DOMAIN f /\ From(f, m, b) \in SUBSET Upto(f, m)
  BY DEF Upto, At, From
<1>2. IsFiniteSet(Upto(f, m)) /\ IsFiniteSet(At(f, m))
  BY <1>1, FS_Subset DEF Inbox
<1>3. IsFiniteSet(From(f, m, b)) /\ Cardinality(From(f, m, b)) <= Cardinality(Upto(f, m))
  BY <1>1, <1>2, FS_Subset
<1> QED BY <1>2, <1>3, FS_CardinalityType DEF Rank

\* Above is a strict total order of the entries.
LEMMA UpIsOrder ==
    ASSUME NEW f, Inbox(f), NEW a \in DOMAIN f, NEW b \in DOMAIN f, NEW d \in DOMAIN f
    PROVE  /\ ~Up(f, a, a) /\ ~(Up(f, a, b) /\ Up(f, b, a))
           /\ a # b => Up(f, a, b) \/ Up(f, b, a)
           /\ Up(f, a, b) /\ Up(f, b, d) => Up(f, a, d)
<1>1. f[a] \in Nat /\ f[b] \in Nat /\ f[d] \in Nat /\ a \in Nat /\ b \in Nat /\ d \in Nat
  BY DEF Inbox
<1> QED BY <1>1 DEF Up

\* Places count from 1.
LEMMA RankPositive ==
    ASSUME NEW f, Inbox(f), NEW m, NEW b \in Upto(f, m)
    PROVE  Rank(f, m, b) \in Nat /\ Rank(f, m, b) > 0
<1>1. b \in From(f, m, b)
  BY DEF From
<1>2. IsFiniteSet(From(f, m, b)) /\ Rank(f, m, b) \in Nat
  BY FiniteParts
<1>3. Rank(f, m, b) # 0
  BY <1>1, <1>2, FS_EmptySet DEF Rank
<1> QED BY <1>2, <1>3

\* Who is above has the smaller place.
LEMMA RankStrict ==
    ASSUME NEW f, Inbox(f), NEW m, NEW a \in Upto(f, m), NEW b \in Upto(f, m), Up(f, a, b)
    PROVE  Rank(f, m, a) < Rank(f, m, b)
<1>1. a \in DOMAIN f /\ b \in DOMAIN f
  BY DEF Upto
<1>2. From(f, m, a) \subseteq From(f, m, b)
  <2>1. \A d \in Upto(f, m) : d \in DOMAIN f
    BY DEF Upto
  <2> QED BY <1>1, <2>1, UpIsOrder DEF From
<1>3. b \in From(f, m, b) /\ b \notin From(f, m, a)
  BY <1>1, UpIsOrder DEF From
<1>4. From(f, m, a) \in SUBSET From(f, m, b) /\ From(f, m, a) # From(f, m, b)
  BY <1>2, <1>3
<1>5. Cardinality(From(f, m, a)) <= Cardinality(From(f, m, b)) /\ Cardinality(From(f, m, a)) # Cardinality(From(f, m, b))
  BY <1>4, FiniteParts, FS_Subset
<1> QED BY <1>5, FiniteParts DEF Rank

LEMMA RankOrder ==
    ASSUME NEW f, Inbox(f), NEW m, NEW a \in Upto(f, m), NEW b \in Upto(f, m)
    PROVE  /\ Rank(f, m, a) < Rank(f, m, b) <=> Up(f, a, b)
           /\ Rank(f, m, a) = Rank(f, m, b) => a = b
<1>1. a \in DOMAIN f /\ b \in DOMAIN f
  BY DEF Upto
<1>2. Rank(f, m, a) \in Nat /\ Rank(f, m, b) \in Nat
  BY FiniteParts
<1>3. a = b \/ Up(f, a, b) \/ Up(f, b, a)
  BY <1>1, UpIsOrder
<1>4. Up(f, a, b) => Rank(f, m, a) < Rank(f, m, b)
  BY RankStrict
<1>5. Up(f, b, a) => Rank(f, m, b) < Rank(f, m, a)
  BY RankStrict
<1> QED BY <1>2, <1>3, <1>4, <1>5

\* Entries have a highest one.
LEMMA HighestEntry ==
    ASSUME NEW f, Inbox(f), NEW m, NEW G, G \subseteq Upto(f, m), G # {}
    PROVE  \E y \in G : \A a \in G \ {y} : Up(f, y, a)
<1> DEFINE R == {Rank(f, m, b) : b \in G}
<1>1. R \subseteq Nat /\ R # {}
  BY FiniteParts
<1>2. PICK k \in R : \A n \in R : k <= n
  <2> HIDE DEF R
  <2> QED BY <1>1, SmallestMember
<1>3. PICK y \in G : Rank(f, m, y) = k
  BY <1>2
<1>4. ASSUME NEW a \in G \ {y} PROVE Up(f, y, a)
  <2>1. Rank(f, m, y) <= Rank(f, m, a)
    BY <1>2, <1>3
  <2>2. Rank(f, m, y) \in Nat /\ Rank(f, m, a) \in Nat
    BY FiniteParts
  <2>3. Rank(f, m, y) # Rank(f, m, a)
    BY RankOrder
  <2>4. Rank(f, m, y) < Rank(f, m, a)
    BY <2>1, <2>2, <2>3
  <2> QED BY <2>4, RankOrder
<1> QED BY <1>4

\* And a lowest one.
LEMMA LowestEntry ==
    ASSUME NEW f, Inbox(f), NEW m, NEW G, G \subseteq Upto(f, m), G # {}
    PROVE  \E y \in G : \A a \in G \ {y} : Up(f, a, y)
<1> DEFINE N == Cardinality(Upto(f, m))
           R == {N - Rank(f, m, b) : b \in G}
<1>0. N \in Nat /\ \A b \in G : Rank(f, m, b) \in Nat /\ Rank(f, m, b) <= N
  BY FiniteParts
<1> HIDE DEF N
<1>1. R \subseteq Nat /\ R # {}
  BY <1>0
<1>2. PICK k \in R : \A n \in R : k <= n
  <2> HIDE DEF R
  <2> QED BY <1>1, SmallestMember
<1>3. PICK y \in G : N - Rank(f, m, y) = k
  BY <1>2
<1>4. ASSUME NEW a \in G \ {y} PROVE Up(f, a, y)
  <2>1. N - Rank(f, m, y) <= N - Rank(f, m, a)
    BY <1>2, <1>3
  <2>2. Rank(f, m, y) # Rank(f, m, a)
    BY RankOrder
  <2>3. Rank(f, m, a) < Rank(f, m, y)
    BY <1>0, <2>1, <2>2
  <2> QED BY <2>3, RankOrder
<1> QED BY <1>4

\* The entries up to a place are as many as the place says.
LEMMA FirstRanks ==
    ASSUME NEW f, Inbox(f), NEW m, NEW n \in Nat, n <= Cardinality(Upto(f, m))
    PROVE  Cardinality({b \in Upto(f, m) : Rank(f, m, b) <= n}) = n
<1> DEFINE E == Upto(f, m)
           A == {b \in E : Rank(f, m, b) <= n}
<1>0. /\ IsFiniteSet(E) /\ Cardinality(E) \in Nat /\ \A b : Rank(f, m, b) \in Nat
      /\ IsFiniteSet(A) /\ Cardinality(A) \in Nat /\ A \subseteq E
  <2>1. A \in SUBSET E
    OBVIOUS
  <2>2. IsFiniteSet(E) /\ Cardinality(E) \in Nat /\ \A b : Rank(f, m, b) \in Nat
    BY FiniteParts
  <2>3. IsFiniteSet(A)
    <3> HIDE DEF A, E
    <3> QED BY <2>1, <2>2, FS_Subset
  <2> QED BY <2>1, <2>2, <2>3, FS_CardinalityType
<1>1. Cardinality(A) <= n
  <2>1. CASE A = {}
    BY <2>1, FS_EmptySet
  <2>2. CASE A # {}
    <3>1. PICK z \in A : \A a \in A \ {z} : Up(f, a, z)
      BY <2>2, LowestEntry
    <3>2. A \subseteq From(f, m, z)
      BY <3>1 DEF From
    <3>3. Cardinality(A) <= Rank(f, m, z)
      BY <3>2, FiniteParts, FS_Subset DEF Rank
    <3> QED BY <1>0, <3>1, <3>3
  <2> QED BY <2>1, <2>2
<1>2. ~(Cardinality(A) < n)
  <2>1. SUFFICES ASSUME Cardinality(A) < n PROVE FALSE
    OBVIOUS
  <2>2. E \ A # {}
    <3>1. E # A
      BY <1>0, <2>1
    <3> QED BY <3>1
  <2>3. E \ A \subseteq Upto(f, m)
    OBVIOUS
  <2>4. PICK y \in E \ A : \A a \in (E \ A) \ {y} : Up(f, y, a)
    <3> HIDE DEF A
    <3> QED BY <2>2, <2>3, HighestEntry
  <2>5. From(f, m, y) \subseteq A \cup {y}
    <3>1. ASSUME NEW a \in E, a # y, Up(f, a, y) PROVE a \in A
      <4>1. ~Up(f, y, a)
        BY <3>1, UpIsOrder DEF Upto
      <4> QED BY <2>4, <3>1, <4>1
    <3> QED BY <3>1 DEF From
  <2>6. IsFiniteSet(A \cup {y}) /\ Cardinality(A \cup {y}) = Cardinality(A) + 1
    <3> HIDE DEF A, E
    <3> QED BY <1>0, <2>4, FS_AddElement
  <2>7. Rank(f, m, y) <= Cardinality(A) + 1
    BY <2>5, <2>6, FS_Subset DEF Rank
  <2>8. Rank(f, m, y) > n
    BY <1>0, <2>4
  <2> QED BY <1>0, <2>1, <2>7, <2>8
<1> QED BY <1>0, <1>1, <1>2

\* A cursor that counts no more entries of its time than there are.
Cursor == [max : Nat, offset : Nat]
GoodCursor(f, c) == c \in Cursor /\ c.offset <= Cardinality(At(f, c.max))

PageAt(f, c) == {b \in Rest(f, c) : Rank(f, c.max, b) <= c.offset + FeedPage}

LEMMA CursorFacts ==
    ASSUME NEW f, Inbox(f), NEW c, GoodCursor(f, c)
    PROVE  /\ c.max \in Nat /\ c.offset \in Nat /\ At(f, c.max) \subseteq Upto(f, c.max)
           /\ c.offset <= Cardinality(Upto(f, c.max))
           /\ c = [max |-> c.max, offset |-> c.offset]
<1>1. c.max \in Nat /\ c.offset \in Nat /\ c = [max |-> c.max, offset |-> c.offset]
  BY DEF GoodCursor, Cursor
<1>2. At(f, c.max) \subseteq Upto(f, c.max)
  BY <1>1 DEF At, Upto, Inbox
<1>3. Cardinality(At(f, c.max)) <= Cardinality(Upto(f, c.max))
  BY <1>2, FiniteParts, FS_Subset
<1> QED BY <1>1, <1>2, <1>3, FiniteParts DEF GoodCursor

\* Behind a cursor that counts no entries lie all up to its time.
LEMMA BehindTop ==
    ASSUME NEW f, Inbox(f), NEW c, c.offset = 0
    PROVE  Rest(f, c) = Upto(f, c.max)
BY RankPositive DEF Rest

\* An entry below the time of a good cursor lies behind it.
LEMMA OlderIsBehind ==
    ASSUME NEW f, Inbox(f), NEW c, GoodCursor(f, c), NEW a \in DOMAIN f, f[a] < c.max
    PROVE  a \in Rest(f, c)
<1> DEFINE T == At(f, c.max)
<1>0. c.max \in Nat
  BY CursorFacts
<1>1. a \in Upto(f, c.max) /\ a \notin T /\ f[a] \in Nat /\ c.max \in Nat
  BY <1>0 DEF Inbox, Upto, At
<1>2. T \cup {a} \subseteq From(f, c.max, a)
  BY <1>1, CursorFacts DEF From, Up, At
<1>3. IsFiniteSet(T) /\ Cardinality(T) \in Nat
  BY FiniteParts
<1>4. Cardinality(T \cup {a}) = Cardinality(T) + 1
  BY <1>1, <1>3, FS_AddElement
<1>5. Cardinality(T \cup {a}) <= Rank(f, c.max, a)
  BY <1>2, FiniteParts, FS_Subset DEF Rank
<1>6. c.offset < Rank(f, c.max, a)
  BY <1>3, <1>4, <1>5, CursorFacts, FiniteParts DEF GoodCursor
<1> QED BY <1>1, <1>6 DEF Rest

\* What lies behind the page lies below its last entry.
LEMMA BehindPage ==
    ASSUME NEW f, Inbox(f), NEW c, GoodCursor(f, c), NEW l \in PageAt(f, c),
           \A b \in PageAt(f, c) \ {l} : Up(f, b, l), NEW b \in DOMAIN f
    PROVE  b \in Rest(f, c) \ PageAt(f, c) <=> Up(f, l, b)
<1> DEFINE m == c.max
           o == c.offset
<1>0. /\ m \in Nat /\ o \in Nat /\ FeedPage \in Nat /\ Rank(f, m, b) \in Nat /\ Rank(f, m, l) \in Nat
      /\ l \in Upto(f, m) /\ l \in DOMAIN f /\ Rank(f, m, l) > o /\ Rank(f, m, l) <= o + FeedPage
  BY CursorFacts, FiniteParts, PageAssumption DEF PageAt, Rest, Upto
<1>1. ASSUME b \in Rest(f, c) \ PageAt(f, c) PROVE Up(f, l, b)
  <2>1. b \in Upto(f, m) /\ Rank(f, m, b) > o + FeedPage
    BY <1>0, <1>1 DEF PageAt, Rest
  <2>2. Rank(f, m, l) < Rank(f, m, b)
    BY <1>0, <2>1
  <2> QED BY <1>0, <2>1, <2>2, RankOrder
<1>2. ASSUME Up(f, l, b) PROVE b \in Rest(f, c) \ PageAt(f, c)
  <2>1. f[b] <= f[l] /\ f[l] <= m /\ f[b] \in Nat /\ f[l] \in Nat
    BY <1>0, <1>2 DEF Up, Upto, Inbox
  <2>2. b \in Upto(f, m)
    BY <1>0, <2>1 DEF Upto
  <2>3. Rank(f, m, l) < Rank(f, m, b)
    BY <1>0, <1>2, <2>2, RankOrder
  <2>4. b \in Rest(f, c)
    BY <1>0, <2>2, <2>3 DEF Rest
  <2>5. b \notin PageAt(f, c)
    BY <1>0, <1>2, UpIsOrder
  <2> QED BY <2>4, <2>5
<1> QED BY <1>1, <1>2

\* The cursor behind a page: the time of its last entry and the place of that one among the
\* entries up to that time.
LEMMA OffsetIsPlace ==
    ASSUME NEW f, Inbox(f), NEW c, GoodCursor(f, c), NEW l \in PageAt(f, c),
           \A b \in PageAt(f, c) \ {l} : Up(f, b, l)
    PROVE  /\ Cardinality({b \in PageAt(f, c) : f[b] = f[l]}) + (IF f[l] = c.max THEN c.offset ELSE 0)
                = Rank(f, f[l], l)
           /\ Rank(f, f[l], l) <= Cardinality(At(f, f[l]))
           /\ f[l] \in Nat /\ f[l] <= c.max /\ l \in DOMAIN f
<1> DEFINE m == c.max
           o == c.offset
           G == PageAt(f, c)
           H == {b \in G : f[b] = f[l]}
           S == From(f, f[l], l)
<1>0. /\ m \in Nat /\ o \in Nat /\ FeedPage \in Nat
      /\ l \in Upto(f, m) /\ l \in DOMAIN f /\ f[l] \in Nat /\ f[l] <= m
      /\ Rank(f, m, l) \in Nat /\ Rank(f, m, l) > o /\ Rank(f, m, l) <= o + FeedPage
  BY CursorFacts, FiniteParts, PageAssumption DEF PageAt, Rest, Upto, Inbox
<1>1. \A b \in G : b \in DOMAIN f /\ f[b] \in Nat /\ f[b] <= m /\ b \in Upto(f, m) /\ (b = l \/ Up(f, b, l))
  BY DEF PageAt, Rest, Upto, Inbox
<1>2. ASSUME NEW a
      PROVE  a \in S <=> a \in DOMAIN f /\ f[a] = f[l] /\ (a = l \/ Up(f, a, l))
  BY <1>0 DEF From, Upto, Up, Inbox
<1>3. /\ IsFiniteSet(S) /\ Cardinality(S) = Rank(f, f[l], l) /\ Cardinality(S) \in Nat
      /\ Cardinality(S) <= Cardinality(At(f, f[l]))
  <2>1. S \in SUBSET At(f, f[l])
    BY <1>2 DEF At
  <2>2. IsFiniteSet(At(f, f[l]))
    BY FiniteParts
  <2>3. IsFiniteSet(S) /\ Cardinality(S) <= Cardinality(At(f, f[l]))
    <3> HIDE DEF S
    <3> QED BY <2>1, <2>2, FS_Subset
  <2> QED BY <2>3, FS_CardinalityType DEF Rank
<1>4. IsFiniteSet(G) /\ Cardinality(G) \in Nat
  <2>1. G \in SUBSET Upto(f, m)
    BY DEF PageAt, Rest
  <2>2. IsFiniteSet(G)
    <3> HIDE DEF G
    <3> QED BY <2>1, FiniteParts, FS_Subset
  <2> QED BY <2>2, FS_CardinalityType
<1>5. CASE f[l] # m
  <2>1. H = S
    <3>1. ASSUME NEW a \in H PROVE a \in S
      BY <1>1, <1>2
    <3>2. ASSUME NEW a \in S PROVE a \in H
      <4>1. a \in DOMAIN f /\ f[a] = f[l] /\ (a = l \/ Up(f, a, l))
        BY <1>2
      <4>2. f[a] < m
        BY <1>0, <1>5, <4>1
      <4>3. a \in Rest(f, c) /\ a \in Upto(f, m)
        BY <4>1, <4>2, OlderIsBehind DEF Rest
      <4>4. Rank(f, m, a) <= Rank(f, m, l) /\ Rank(f, m, a) \in Nat
        BY <1>0, <4>1, <4>3, RankStrict, FiniteParts
      <4>5. Rank(f, m, a) <= o + FeedPage
        BY <1>0, <4>4
      <4> QED BY <4>1, <4>3, <4>5 DEF PageAt
    <3> QED BY <3>1, <3>2
  <2>2. Cardinality(H) = Rank(f, f[l], l) /\ Cardinality(H) \in Nat
    BY <1>3, <2>1
  <2>3. Cardinality(H) + (IF f[l] = c.max THEN c.offset ELSE 0) = Cardinality(H)
    <3> HIDE DEF H
    <3> QED BY <1>5, <2>2
  <2>4. Rank(f, f[l], l) <= Cardinality(At(f, f[l]))
    BY <1>3
  <2> QED BY <1>0, <2>2, <2>3, <2>4
<1>6. CASE f[l] = m
  <2> DEFINE A == {b \in Upto(f, m) : Rank(f, m, b) <= o}
  <2>1. Cardinality(A) = o /\ IsFiniteSet(A)
    <3>1. A \in SUBSET Upto(f, m)
      OBVIOUS
    <3>2. IsFiniteSet(A)
      <4> HIDE DEF A
      <4> QED BY <3>1, FiniteParts, FS_Subset
    <3> QED BY <1>0, <3>2, CursorFacts, FirstRanks
  <2>2. H = G
    <3>1. \A b \in G : f[b] = m
      BY <1>0, <1>1, <1>6 DEF Up
    <3> QED BY <1>6, <3>1
  <2>3. A \cap G = {}
    <3>1. \A b : Rank(f, m, b) \in Nat
      BY FiniteParts
    <3> QED BY <1>0, <3>1 DEF PageAt, Rest
  <2>4. S = A \cup G
    <3>1. ASSUME NEW a \in S PROVE a \in A \cup G
      <4>1. a \in DOMAIN f /\ f[a] = f[l] /\ (a = l \/ Up(f, a, l))
        BY <1>2
      <4>2. a \in Upto(f, m)
        BY <1>6, <4>1, <1>0 DEF Upto
      <4>3. Rank(f, m, a) <= Rank(f, m, l) /\ Rank(f, m, a) \in Nat
        BY <1>0, <4>1, <4>2, RankStrict, FiniteParts
      <4>4. Rank(f, m, a) <= o + FeedPage /\ (Rank(f, m, a) <= o \/ Rank(f, m, a) > o)
        BY <1>0, <4>3
      <4> QED BY <4>2, <4>4 DEF PageAt, Rest
    <3>2. ASSUME NEW a \in A PROVE a \in S
      <4>1. a \in Upto(f, m) /\ Rank(f, m, a) < Rank(f, m, l)
        <5>1. Rank(f, m, a) \in Nat
          BY FiniteParts
        <5> QED BY <1>0, <5>1
      <4>2. Up(f, a, l)
        BY <1>0, <4>1, RankOrder
      <4>3. a \in DOMAIN f /\ f[a] = f[l]
        BY <1>0, <1>6, <4>1, <4>2 DEF Upto, Up, Inbox
      <4> QED BY <1>2, <4>2, <4>3
    <3>3. ASSUME NEW a \in G PROVE a \in S
      BY <1>1, <1>2, <2>2, <3>3
    <3> QED BY <3>1, <3>2, <3>3
  <2>5. Cardinality(A \cup G) = o + Cardinality(G)
    <3> HIDE DEF A, G
    <3>1. Cardinality(A \cap G) = 0
      BY <2>3, FS_EmptySet
    <3>2. Cardinality(A \cup G) = Cardinality(A) + Cardinality(G) - Cardinality(A \cap G)
      BY <1>4, <2>1, FS_Union
    <3> QED BY <1>0, <1>4, <2>1, <3>1, <3>2
  <2>6. Cardinality(H) = Cardinality(G) /\ Cardinality(S) = o + Cardinality(G)
    BY <2>2, <2>4, <2>5
  <2>7. Cardinality(H) + (IF f[l] = c.max THEN c.offset ELSE 0) = Cardinality(S)
    <3> HIDE DEF H, S, G
    <3> QED BY <1>0, <1>4, <1>6, <2>6
  <2>8. Rank(f, f[l], l) = Cardinality(S) /\ Rank(f, f[l], l) <= Cardinality(At(f, f[l]))
    BY <1>3
  <2> QED BY <1>0, <2>7, <2>8
<1> QED BY <1>0, <1>3, <1>5, <1>6

\* So the next cursor is good, and what lies behind it is what lay behind the last one and
\* is not on the page.
LEMMA NextIsBehind ==
    ASSUME NEW f, Inbox(f), NEW c, GoodCursor(f, c), NEW l \in PageAt(f, c),
           \A b \in PageAt(f, c) \ {l} : Up(f, b, l),
           NEW d, d = [max |-> f[l], offset |-> Cardinality({b \in PageAt(f, c) : f[b] = f[l]})
                                                  + (IF f[l] = c.max THEN c.offset ELSE 0)]
    PROVE  GoodCursor(f, d) /\ Rest(f, d) = Rest(f, c) \ PageAt(f, c)
<1>1. /\ d.max = f[l] /\ d.offset = Rank(f, f[l], l) /\ Rank(f, f[l], l) <= Cardinality(At(f, f[l]))
      /\ f[l] \in Nat /\ l \in DOMAIN f /\ Rank(f, f[l], l) \in Nat
  BY OffsetIsPlace, FiniteParts
<1>2. GoodCursor(f, d)
  BY <1>1 DEF GoodCursor, Cursor
<1>3. l \in Upto(f, f[l])
  BY <1>1 DEF Upto
<1>4. ASSUME NEW b \in DOMAIN f PROVE b \in Rest(f, d) <=> Up(f, l, b)
  <2>1. f[b] \in Nat /\ Rank(f, f[l], b) \in Nat
    BY FiniteParts DEF Inbox
  <2>2. Up(f, l, b) => b \in Upto(f, f[l])
    BY <1>1, <2>1 DEF Up, Upto
  <2>3. b \in Rest(f, d) <=> b \in Upto(f, f[l]) /\ Rank(f, f[l], l) < Rank(f, f[l], b)
    BY <1>1, <2>1 DEF Rest
  <2> QED BY <1>3, <2>2, <2>3, RankOrder
<1>5. Rest(f, d) \subseteq DOMAIN f /\ Rest(f, c) \subseteq DOMAIN f
  BY DEF Rest, Upto
<1>6. \A b \in DOMAIN f : b \in Rest(f, d) <=> b \in Rest(f, c) \ PageAt(f, c)
  BY <1>4, BehindPage
<1> QED BY <1>2, <1>5, <1>6

\* A page is empty only if nothing lies behind the cursor.
LEMMA EmptyPage ==
    ASSUME NEW f, Inbox(f), NEW c, GoodCursor(f, c), PageAt(f, c) = {}
    PROVE  Rest(f, c) = {}
<1> DEFINE m == c.max
           o == c.offset
           A == {b \in Upto(f, m) : Rank(f, m, b) <= o}
<1>1. SUFFICES ASSUME Rest(f, c) # {} PROVE FALSE
  OBVIOUS
<1>2. PICK y \in Rest(f, c) : \A a \in Rest(f, c) \ {y} : Up(f, y, a)
  <2>1. Rest(f, c) \subseteq Upto(f, m)
    BY DEF Rest
  <2> QED BY <1>1, <2>1, HighestEntry
<1>3. /\ m \in Nat /\ o \in Nat /\ FeedPage \in Nat /\ FeedPage > 0
      /\ \A b : Rank(f, m, b) \in Nat /\ y \in Upto(f, m)
  BY <1>2, CursorFacts, FiniteParts, PageAssumption DEF Rest
<1>4. From(f, m, y) \subseteq A \cup {y}
  <2>1. ASSUME NEW a \in Upto(f, m), a # y, Up(f, a, y) PROVE a \in A
    <3>1. ~Up(f, y, a)
      BY <1>3, <2>1, UpIsOrder DEF Upto
    <3>2. a \notin Rest(f, c)
      BY <1>2, <2>1, <3>1
    <3> QED BY <1>3, <2>1, <3>2 DEF Rest
  <2> QED BY <2>1 DEF From
<1>5. Cardinality(A) = o /\ IsFiniteSet(A)
  <2>1. A \in SUBSET Upto(f, m)
    OBVIOUS
  <2>2. IsFiniteSet(A)
    <3> HIDE DEF A
    <3> QED BY <2>1, FiniteParts, FS_Subset
  <2> QED BY <1>3, <2>2, CursorFacts, FirstRanks
<1>6. y \notin A
  BY <1>2, <1>3 DEF Rest
<1>7. IsFiniteSet(A \cup {y}) /\ Cardinality(A \cup {y}) = o + 1
  <2> HIDE DEF A
  <2> QED BY <1>5, <1>6, FS_AddElement
<1>8. Rank(f, m, y) <= o + 1
  BY <1>4, <1>7, FS_Subset DEF Rank
<1>9. y \in PageAt(f, c)
  BY <1>2, <1>3, <1>8 DEF PageAt
<1> QED BY <1>9

--------------------------------------------------------------------------------
(* A push into the inbox.                                                  *)

Pushed(f, x, t) == [d \in DOMAIN f \cup {x} |-> IF d = x THEN t ELSE f[d]]

LEMMA PushedInbox ==
    ASSUME NEW f, Inbox(f), NEW x \in Nat, x \notin DOMAIN f, NEW t \in Nat
    PROVE  /\ Inbox(Pushed(f, x, t)) /\ DOMAIN Pushed(f, x, t) = DOMAIN f \cup {x}
           /\ Pushed(f, x, t)[x] = t /\ \A b \in DOMAIN f : Pushed(f, x, t)[b] = f[b]
           /\ Cardinality(DOMAIN f \cup {x}) = Cardinality(DOMAIN f) + 1 /\ Cardinality(DOMAIN f) \in Nat
<1>1. /\ IsFiniteSet(DOMAIN f \cup {x}) /\ Cardinality(DOMAIN f \cup {x}) = Cardinality(DOMAIN f) + 1
      /\ Cardinality(DOMAIN f) \in Nat
  BY FS_AddElement, FS_CardinalityType DEF Inbox
<1>2. /\ DOMAIN Pushed(f, x, t) = DOMAIN f \cup {x} /\ Pushed(f, x, t)[x] = t
      /\ \A b \in DOMAIN f : Pushed(f, x, t)[b] = f[b]
  BY DEF Pushed
<1>3. Inbox(Pushed(f, x, t))
  BY <1>1, <1>2 DEF Inbox
<1> QED BY <1>1, <1>2, <1>3

\* The place of an entry goes up by one if the new one is above it.
LEMMA PushedRank ==
    ASSUME NEW f, Inbox(f), NEW x \in Nat, x \notin DOMAIN f, NEW t \in Nat, NEW g, g = Pushed(f, x, t),
           NEW m, NEW b \in DOMAIN f
    PROVE  Rank(g, m, b) = IF t <= m /\ Up(g, x, b) THEN Rank(f, m, b) + 1 ELSE Rank(f, m, b)
<1>1. DOMAIN g = DOMAIN f \cup {x} /\ g[x] = t /\ \A a \in DOMAIN f : g[a] = f[a]
  BY PushedInbox
<1>2. \A a \in DOMAIN f : Up(g, a, b) <=> Up(f, a, b)
  BY <1>1 DEF Up
<1>3. x \notin From(f, m, b) /\ IsFiniteSet(From(f, m, b)) /\ Cardinality(From(f, m, b)) \in Nat
  BY FiniteParts DEF From, Upto, Rank
<1>4. CASE t <= m /\ Up(g, x, b)
  <2>1. From(g, m, b) = From(f, m, b) \cup {x}
    BY <1>1, <1>2, <1>4 DEF From, Upto
  <2>2. Cardinality(From(f, m, b) \cup {x}) = Cardinality(From(f, m, b)) + 1
    BY <1>3, FS_AddElement
  <2> QED BY <1>4, <2>1, <2>2 DEF Rank
<1>5. CASE ~(t <= m /\ Up(g, x, b))
  <2>1. From(g, m, b) = From(f, m, b)
    BY <1>1, <1>2, <1>5 DEF From, Upto
  <2> QED BY <1>5, <2>1 DEF Rank
<1> QED BY <1>4, <1>5

\* What lay behind a cursor still does; of the others at most one does now, and only if the
\* new entry has the time of the cursor and the cursor counts entries.
LEMMA RestAfterPush ==
    ASSUME NEW f, Inbox(f), NEW x \in Nat, x \notin DOMAIN f, NEW t \in Nat, NEW c, GoodCursor(f, c)
    PROVE  /\ GoodCursor(Pushed(f, x, t), c) /\ Rest(f, c) \subseteq Rest(Pushed(f, x, t), c)
           /\ c.max # t \/ c.offset = 0 => Rest(Pushed(f, x, t), c) \subseteq Rest(f, c) \cup {x}
           /\ \E y : Rest(Pushed(f, x, t), c) \subseteq Rest(f, c) \cup {x, y}
<1> DEFINE g == Pushed(f, x, t)
           m == c.max
           o == c.offset
<1>1. /\ Inbox(g) /\ DOMAIN g = DOMAIN f \cup {x} /\ g[x] = t /\ \A a \in DOMAIN f : g[a] = f[a]
      /\ m \in Nat /\ o \in Nat
  BY PushedInbox, CursorFacts
<1>2. ASSUME NEW b \in DOMAIN f
      PROVE  /\ Rank(f, m, b) \in Nat /\ Rank(g, m, b) \in Nat
             /\ Rank(g, m, b) = IF t <= m /\ Up(g, x, b) THEN Rank(f, m, b) + 1 ELSE Rank(f, m, b)
             /\ b \in Upto(g, m) <=> b \in Upto(f, m)
  <2>1. Rank(g, m, b) = IF t <= m /\ Up(g, x, b) THEN Rank(f, m, b) + 1 ELSE Rank(f, m, b)
    BY PushedRank
  <2> HIDE DEF g
  <2>2. Rank(f, m, b) \in Nat /\ Rank(g, m, b) \in Nat
    BY <1>1, FiniteParts
  <2>3. b \in Upto(g, m) <=> b \in Upto(f, m)
    BY <1>1 DEF Upto
  <2> QED BY <2>1, <2>2, <2>3
<1> HIDE DEF g
<1>3. GoodCursor(g, c)
  <2>1. At(f, m) \subseteq At(g, m)
    BY <1>1 DEF At
  <2>2. Cardinality(At(f, m)) <= Cardinality(At(g, m))
    BY <1>1, <2>1, FiniteParts, FS_Subset
  <2>3. Cardinality(At(f, m)) \in Nat /\ Cardinality(At(g, m)) \in Nat
    BY <1>1, FiniteParts
  <2> QED BY <1>1, <2>2, <2>3 DEF GoodCursor
<1>4. Rest(f, c) \subseteq Rest(g, c)
  <2>1. ASSUME NEW b \in Rest(f, c) PROVE b \in Rest(g, c)
    <3>1. b \in DOMAIN f /\ b \in Upto(f, m) /\ Rank(f, m, b) > o
      BY DEF Rest, Upto
    <3>2. Rank(g, m, b) > o
      BY <1>1, <1>2, <3>1
    <3> QED BY <1>2, <3>1, <3>2 DEF Rest
  <2> QED BY <2>1
<1>5. ASSUME NEW b \in Rest(g, c) \ Rest(f, c), b # x
      PROVE  b \in Upto(f, m) /\ Rank(f, m, b) = o /\ t <= m /\ Up(g, x, b) /\ b \in DOMAIN f
  <2>1. b \in DOMAIN f /\ b \in Upto(g, m) /\ Rank(g, m, b) > o
    BY <1>1, <1>5 DEF Rest, Upto
  <2>2. b \in Upto(f, m) /\ ~(Rank(f, m, b) > o)
    BY <1>2, <1>5, <2>1 DEF Rest
  <2> QED BY <1>1, <1>2, <2>1, <2>2
<1>6. ASSUME m # t \/ o = 0 PROVE Rest(g, c) \subseteq Rest(f, c) \cup {x}
  <2>1. SUFFICES ASSUME NEW b \in Rest(g, c) \ Rest(f, c), b # x PROVE FALSE
    OBVIOUS
  <2>2. b \in Upto(f, m) /\ Rank(f, m, b) = o /\ t <= m /\ Up(g, x, b) /\ b \in DOMAIN f
    BY <1>5, <2>1
  <2>3. m # t
    BY <1>6, <2>2, RankPositive
  <2>4. f[b] < m
    <3>1. f[b] <= t /\ f[b] \in Nat
      BY <1>1, <2>2 DEF Up, Inbox
    <3> QED BY <1>1, <2>2, <2>3, <3>1
  <2> QED BY <2>1, <2>2, <2>4, OlderIsBehind
<1>7. \E y : Rest(g, c) \subseteq Rest(f, c) \cup {x, y}
  <2>1. CASE \E b \in Rest(g, c) \ Rest(f, c) : b # x
    <3>1. PICK y \in Rest(g, c) \ Rest(f, c) : y # x
      BY <2>1
    <3>2. ASSUME NEW b \in Rest(g, c) \ Rest(f, c), b # x PROVE b = y
      BY <1>5, <3>1, <3>2, RankOrder
    <3> QED BY <3>2
  <2>2. CASE ~ \E b \in Rest(g, c) \ Rest(f, c) : b # x
    BY <2>2
  <2> QED BY <2>1, <2>2
<1> QED BY <1>3, <1>4, <1>6, <1>7 DEF g

\* Of a set that the new entry is not in.
LEMMA GrowsByOne ==
    ASSUME NEW f, Inbox(f), NEW x \in Nat, x \notin DOMAIN f, NEW t \in Nat, NEW c, GoodCursor(f, c),
           NEW U, NEW V, IsFiniteSet(U), IsFiniteSet(V), x \notin V, NEW k \in Nat,
           Cardinality(U \cup (V \cap Rest(f, c))) <= k
    PROVE  /\ Cardinality(U \cup (V \cap Rest(Pushed(f, x, t), c))) <= k + 1
           /\ c.max # t \/ c.offset = 0 => Cardinality(U \cup (V \cap Rest(Pushed(f, x, t), c))) <= k
<1> DEFINE X == U \cup (V \cap Rest(f, c))
           Y == U \cup (V \cap Rest(Pushed(f, x, t), c))
<1>1. IsFiniteSet(X) /\ Cardinality(X) \in Nat
  <2>1. V \cap Rest(f, c) \in SUBSET V
    OBVIOUS
  <2>2. IsFiniteSet(V \cap Rest(f, c))
    BY <2>1, FS_Subset
  <2> QED BY <2>2, FS_Union, FS_CardinalityType
<1>2. PICK y : Rest(Pushed(f, x, t), c) \subseteq Rest(f, c) \cup {x, y}
  BY RestAfterPush
<1>3. Y \subseteq X \cup {y}
  BY <1>2
<1>4. IsFiniteSet(X \cup {y}) /\ Cardinality(X \cup {y}) <= Cardinality(X) + 1 /\ Cardinality(X \cup {y}) \in Nat
  <2> HIDE DEF X
  <2>1. IsFiniteSet(X \cup {y}) /\ Cardinality(X \cup {y}) = (IF y \in X THEN Cardinality(X) ELSE Cardinality(X) + 1)
    BY <1>1, FS_AddElement
  <2> QED BY <1>1, <2>1, FS_CardinalityType
<1>5. Cardinality(Y) <= Cardinality(X \cup {y}) /\ Cardinality(Y) \in Nat
  <2> HIDE DEF X, Y
  <2> QED BY <1>3, <1>4, FS_Subset, FS_CardinalityType
<1>6. Cardinality(Y) <= k + 1
  <2>1. Cardinality(X) <= k
    OBVIOUS
  <2> HIDE DEF X, Y
  <2> QED BY <1>1, <1>4, <1>5, <2>1
<1>7. ASSUME c.max # t \/ c.offset = 0 PROVE Cardinality(Y) <= k
  <2>1. Rest(Pushed(f, x, t), c) \subseteq Rest(f, c) \cup {x}
    BY <1>7, RestAfterPush
  <2>2. Y \subseteq X
    BY <2>1
  <2>3. Cardinality(Y) <= Cardinality(X)
    <3> HIDE DEF X, Y
    <3> QED BY <1>1, <2>2, FS_Subset
  <2>4. Cardinality(X) <= k
    OBVIOUS
  <2> HIDE DEF X, Y
  <2> QED BY <1>1, <1>5, <2>3, <2>4
<1> QED BY <1>6, <1>7

--------------------------------------------------------------------------------
(* FeedPaging.                                                             *)

Answers  == [list : SUBSET Blogs, next : Cursor \cup {None}, inbox : SUBSET Blogs]
Requests == [id : 1..MaxFlight, at : Cursor, clear : BOOLEAN, answer : Answers \cup {None}]

Seen     == {b \in Blogs : shown[b] > 0}
Repeated == {b \in Blogs : shown[b] > 1}

LEMMA FeedCardinality == \A S : Feed!Cardinality(S) = Cardinality(S)
BY DEF Feed!Cardinality, Cardinality

LEMMA FeedTerms ==
    ASSUME NEW c
    PROVE  /\ Feed!Entries(c) = Upto(inbox, c.max) /\ \A b : Feed!Place(c, b) = Rank(inbox, c.max, b)
           /\ Feed!Behind(c) = Rest(inbox, c)
<1>1. Feed!Entries(c) = Upto(inbox, c.max)
  BY DEF Feed!Entries, Upto
<1>2. ASSUME NEW b PROVE Feed!Place(c, b) = Rank(inbox, c.max, b)
  <2>1. {a \in Feed!Entries(c) : a = b \/ Feed!Above(a, b)} = From(inbox, c.max, b)
    BY <1>1 DEF From, Feed!Above, Up
  <2> QED BY <2>1, FeedCardinality DEF Feed!Place, Rank
<1>3. Feed!Behind(c) = Rest(inbox, c)
  BY <1>1, <1>2 DEF Feed!Behind, Rest
<1> QED BY <1>1, <1>2, <1>3

\* The answer to a request: what lay behind its cursor is on the page or behind the next one.
LEMMA Answered ==
    ASSUME Inbox(inbox), NEW c, GoodCursor(inbox, c)
    PROVE  /\ Feed!Page(c) = PageAt(inbox, c) /\ PageAt(inbox, c) \subseteq Rest(inbox, c)
           /\ Feed!Page(c) = {} => Feed!NextCursor(c, Feed!Page(c)) = None /\ Rest(inbox, c) = {}
           /\ Feed!Page(c) # {} =>
                /\ GoodCursor(inbox, Feed!NextCursor(c, Feed!Page(c)))
                /\ Rest(inbox, Feed!NextCursor(c, Feed!Page(c))) = Rest(inbox, c) \ PageAt(inbox, c)
<1> DEFINE G == PageAt(inbox, c)
           l == Feed!Last(G)
<1>1. Feed!Page(c) = G /\ G \subseteq Rest(inbox, c) /\ G \subseteq Upto(inbox, c.max)
  <2>1. c.offset \in Nat /\ FeedPage \in Nat /\ \A b : Rank(inbox, c.max, b) \in Nat
    BY CursorFacts, FiniteParts, PageAssumption
  <2>2. Feed!Page(c) = {b \in Upto(inbox, c.max) :
                          Rank(inbox, c.max, b) \in (c.offset + 1)..(c.offset + FeedPage)}
    BY FeedTerms DEF Feed!Page
  <2> QED BY <2>1, <2>2 DEF PageAt, Rest
<1>2. CASE G = {}
  BY <1>1, <1>2, EmptyPage DEF Feed!NextCursor
<1>3. CASE G # {}
  <2>1. \E y \in G : \A a \in G \ {y} : Up(inbox, a, y)
    <3> HIDE DEF G
    <3> QED BY <1>1, <1>3, LowestEntry
  <2>2. l \in G /\ \A a \in G \ {l} : Up(inbox, a, l)
    <3> HIDE DEF G
    <3> QED BY <2>1 DEF Feed!Last, Feed!Above, Up
  <2>3. Feed!NextCursor(c, G) =
          [max |-> inbox[l], offset |-> Cardinality({b \in G : inbox[b] = inbox[l]})
                                        + (IF inbox[l] = c.max THEN c.offset ELSE 0)]
    <3> HIDE DEF G
    <3> QED BY <1>3, FeedCardinality DEF Feed!NextCursor, Feed!Offset, Feed!SameTime
  <2>4. GoodCursor(inbox, Feed!NextCursor(c, G)) /\ Rest(inbox, Feed!NextCursor(c, G)) = Rest(inbox, c) \ G
    <3> HIDE DEF l
    <3> QED BY <2>2, <2>3, NextIsBehind
  <2> QED BY <1>1, <1>3, <2>4
<1> QED BY <1>2, <1>3

StoreOK ==
    /\ Inbox(inbox) /\ DOMAIN inbox \subseteq Blogs /\ deleted \subseteq Blogs
    /\ \A b \in DOMAIN inbox : inbox[b] \in Times

\* The list shows what has been in the inbox.
ListOK ==
    /\ shown \in [Blogs -> 0..2] /\ mixed \in BOOLEAN
    /\ Seen \subseteq DOMAIN inbox /\ first \subseteq DOMAIN inbox

CountsOK ==
    /\ disturbed \in BOOLEAN /\ feedFaults \in 0..MaxFeedFaults
    /\ late \in Nat /\ late <= Cardinality(DOMAIN inbox)

\* Nothing that was there at first has been left behind by the cursor of the page, as long as
\* it belongs to the list, ...
CursorOK ==
    IF cursor = None THEN flight = {} /\ Seen = {} /\ first = {}
    ELSE /\ GoodCursor(inbox, cursor)
         /\ ~mixed => first \ deleted \subseteq Seen \cup Rest(inbox, cursor)

\* A request for a next page that goes on with the list.
GoesOn(r) == ~r.clear /\ ~mixed /\ r.id \notin outdated

\* ... nor will it by the cursor of an answer, ...
AnswerOK(r) ==
    /\ r.answer.list \subseteq DOMAIN inbox /\ r.answer.inbox \subseteq DOMAIN inbox
    /\ r.answer.next # None =>
         /\ GoodCursor(inbox, r.answer.next)
         /\ r.clear => r.answer.inbox \ deleted \subseteq r.answer.list \cup Rest(inbox, r.answer.next)
         /\ GoesOn(r) => first \ deleted \subseteq Seen \cup r.answer.list \cup Rest(inbox, r.answer.next)

\* ... nor by that of a request.
RequestOK(r) ==
    /\ r \in Requests /\ GoodCursor(inbox, r.at)
    /\ r.clear => r.at.offset = 0
    /\ GoesOn(r) => first \ deleted \subseteq Seen \cup Rest(inbox, r.at)
    /\ r.answer # None => AnswerOK(r)

FlightOK ==
    /\ \A r \in flight : RequestOK(r)
    /\ \A r \in flight : \A q \in flight : r.id = q.id => r = q
    /\ outdated \subseteq {r.id : r \in flight}

CoverInd == StoreOK /\ ListOK /\ CountsOK /\ CursorOK /\ FlightOK

LEMMA StartFacts ==
    ASSUME StoreOK, NEW now \in Clocks
    PROVE  /\ GoodCursor(inbox, Feed!Start(now)) /\ Feed!Start(now) # None
           /\ Feed!Start(now).max = now /\ Feed!Start(now).offset = 0
           /\ Rest(inbox, Feed!Start(now)) = Upto(inbox, now)
<1>1. Feed!Start(now) = [max |-> now, offset |-> 0] /\ now \in Nat
  BY BlogAssumption DEF Feed!Start
<1>2. Feed!Start(now) \in Cursor /\ Feed!Start(now).max = now /\ Feed!Start(now).offset = 0
  BY <1>1 DEF Cursor
<1>3. Feed!Start(now) # None
  BY <1>2, BlogAssumption DEF Cursor
<1>4. GoodCursor(inbox, Feed!Start(now))
  <2>1. Cardinality(At(inbox, now)) \in Nat
    BY FiniteParts DEF StoreOK
  <2> QED BY <1>2, <2>1 DEF GoodCursor
<1>5. Rest(inbox, Feed!Start(now)) = Upto(inbox, now)
  BY <1>2, BehindTop DEF StoreOK
<1> QED BY <1>2, <1>3, <1>4, <1>5

LEMMA FeedInit == Feed!Init => CoverInd
<1> SUFFICES ASSUME Feed!Init PROVE CoverInd
  OBVIOUS
<1>1. inbox \in [Blogs \ Later -> Times]
  BY DEF Feed!Init
<1>2. IsFiniteSet(Blogs \ Later)
  BY BlogAssumption, FS_Subset
<1>3. StoreOK
  BY <1>1, <1>2, BlogAssumption DEF Feed!Init, StoreOK, Inbox
<1>4. Cardinality(DOMAIN inbox) \in Nat
  BY <1>3, FS_CardinalityType DEF StoreOK, Inbox
<1>5. CountsOK
  <2>1. disturbed \in BOOLEAN
    BY Zenon DEF Feed!Init
  <2> QED BY <1>4, <2>1, PageAssumption DEF Feed!Init, CountsOK
<1>6. Seen = {}
  BY DEF Feed!Init, Seen
<1>7. mixed \in BOOLEAN
  BY Zenon DEF Feed!Init
<1>8. ListOK /\ CursorOK /\ FlightOK
  BY <1>6, <1>7 DEF Feed!Init, ListOK, CursorOK, FlightOK
<1> QED BY <1>3, <1>5, <1>8 DEF CoverInd

\* Requests are as many as their ids.
LEMMA FlightBound ==
    ASSUME FlightOK
    PROVE  IsFiniteSet(flight) /\ Cardinality(flight) <= MaxFlight
<1> DEFINE f == [r \in flight |-> r.id]
<1>1. f \in Injection(flight, 1..MaxFlight)
  <2>1. f \in [flight -> 1..MaxFlight]
    BY DEF FlightOK, RequestOK, Requests
  <2>2. \A r \in flight : \A q \in flight : f[r] = f[q] => r = q
    BY DEF FlightOK
  <2> HIDE DEF f
  <2> QED BY <2>1, <2>2 DEF Injection, IsInjective
<1>2. IsFiniteSet(1..MaxFlight) /\ Cardinality(1..MaxFlight) = MaxFlight
  <2>1. MaxFlight \in Nat
    BY PageAssumption
  <2> QED BY <2>1, FS_Interval
<1> HIDE DEF f
<1> QED BY <1>1, <1>2, FS_Injection

LEMMA CoverImplied == CoverInd => Feed!TypeOK /\ Feed!NothingSkipped
<1> SUFFICES ASSUME CoverInd PROVE Feed!TypeOK /\ Feed!NothingSkipped
  OBVIOUS
<1>1. Feed!NothingSkipped
  BY FeedTerms DEF CoverInd, CursorOK, StoreOK, ListOK, Seen, Feed!NothingSkipped
<1>2. ASSUME NEW c \in Feed!Cursors \ {None} PROVE GoodCursor(inbox, c)
  BY DEF Feed!Cursors, CoverInd, CursorOK, FlightOK, RequestOK, AnswerOK
<1>3. ASSUME NEW c \in Feed!Cursors \ {None}
      PROVE  c.offset <= Feed!Cardinality({b \in DOMAIN inbox : inbox[b] = c.max})
  BY <1>2, FeedCardinality DEF GoodCursor, At
<1>4. Feed!Cardinality(flight) <= MaxFlight
  BY FlightBound, FeedCardinality DEF CoverInd
<1>5. late \in 0..Feed!Cardinality(Blogs)
  <2>1. Cardinality(DOMAIN inbox) <= Cardinality(Blogs) /\ Cardinality(Blogs) \in Nat
    BY BlogAssumption, FS_Subset, FS_CardinalityType DEF CoverInd, StoreOK
  <2>2. Cardinality(DOMAIN inbox) \in Nat
    BY FS_CardinalityType DEF CoverInd, StoreOK, Inbox
  <2> QED BY <2>1, <2>2, FeedCardinality DEF CoverInd, CountsOK
<1>6. Feed!TypeOK
  BY <1>3, <1>4, <1>5 DEF CoverInd, StoreOK, ListOK, CountsOK, FlightOK, Feed!TypeOK
<1> QED BY <1>1, <1>6

\* What the inbox, the list and the deletions may do beside a request: cursor and list may
\* part, but do not come together again.
Grows ==
    /\ DOMAIN inbox \subseteq DOMAIN inbox'
    /\ \A c : GoodCursor(inbox, c) => GoodCursor(inbox', c) /\ Rest(inbox, c) \subseteq Rest(inbox', c)
    /\ deleted \subseteq deleted' /\ Seen \subseteq Seen' /\ first' = first
    /\ ~mixed' => ~mixed

LEMMA RequestKept ==
    ASSUME Grows, NEW CONSTANT r, RequestOK(r), r.id \in outdated => r.id \in outdated'
    PROVE  RequestOK(r)'
<1>0. GoesOn(r)' => GoesOn(r)
  BY DEF Grows, GoesOn
<1>1. r \in Requests /\ GoodCursor(inbox', r.at) /\ (r.clear => r.at.offset = 0)
      /\ Rest(inbox, r.at) \subseteq Rest(inbox', r.at)
  BY DEF Grows, RequestOK
<1>2. GoesOn(r)' => first' \ deleted' \subseteq Seen' \cup Rest(inbox', r.at)
  BY <1>0, <1>1 DEF Grows, RequestOK
<1>3. ASSUME r.answer # None PROVE AnswerOK(r)'
  <2>1. AnswerOK(r)
    BY <1>3 DEF RequestOK
  <2>2. r.answer.list \subseteq DOMAIN inbox' /\ r.answer.inbox \subseteq DOMAIN inbox'
    BY <2>1 DEF AnswerOK, Grows
  <2>3. ASSUME r.answer.next # None
        PROVE  /\ GoodCursor(inbox', r.answer.next)
               /\ r.clear => r.answer.inbox \ deleted' \subseteq r.answer.list \cup Rest(inbox', r.answer.next)
               /\ GoesOn(r)' => first' \ deleted' \subseteq Seen' \cup r.answer.list \cup Rest(inbox', r.answer.next)
    <3>1. GoodCursor(inbox', r.answer.next) /\ Rest(inbox, r.answer.next) \subseteq Rest(inbox', r.answer.next)
      BY <2>1, <2>3 DEF AnswerOK, Grows
    <3> QED BY <1>0, <2>1, <2>3, <3>1 DEF AnswerOK, Grows
  <2> QED BY <2>2, <2>3 DEF AnswerOK
<1> QED BY <1>1, <1>2, <1>3 DEF RequestOK

LEMMA CursorKept ==
    ASSUME Grows, CursorOK, cursor # None, cursor' = cursor
    PROVE  CursorOK'
<1>1. GoodCursor(inbox', cursor) /\ Rest(inbox, cursor) \subseteq Rest(inbox', cursor)
  BY DEF Grows, CursorOK
<1>2. ~mixed' => first' \ deleted' \subseteq Seen' \cup Rest(inbox', cursor)
  BY <1>1 DEF Grows, CursorOK
<1> QED BY <1>1, <1>2 DEF CursorOK

\* With the same inbox nothing lies elsewhere.
LEMMA SameInbox ==
    ASSUME UNCHANGED <<inbox, first>>, deleted \subseteq deleted', Seen \subseteq Seen', ~mixed' => ~mixed
    PROVE  Grows
BY DEF Grows

LEMMA SendRequest ==
    ASSUME CoverInd, NEW c, GoodCursor(inbox, c), NEW clear \in BOOLEAN, Feed!Send(c, clear),
           clear => c.offset = 0,
           ~clear /\ ~mixed => first \ deleted \subseteq Seen \cup Rest(inbox, c)
    PROVE  /\ \E r \in Requests : /\ flight' = flight \cup {r}
                                   /\ r.at = c /\ r.clear = clear /\ r.answer = None /\ RequestOK(r)
                                   /\ \A q \in flight : q.id # r.id
           /\ disturbed' = (disturbed \/ flight # {}) /\ disturbed' \in BOOLEAN
<1> DEFINE free == 1..MaxFlight \ {r.id : r \in flight}
           i == CHOOSE j \in free : \A k \in free : j <= k
           r == [id |-> i, at |-> c, clear |-> clear, answer |-> None]
<1>1. free # {} /\ free \subseteq Nat /\ flight' = flight \cup {r} /\ disturbed' = (disturbed \/ flight # {})
  BY DEF Feed!Send
<1>2. i \in free
  <2> HIDE DEF free
  <2>1. \E j \in free : \A k \in free : j <= k
    BY <1>1, SmallestMember
  <2> QED BY <2>1
<1> HIDE DEF i
<1>3. r \in Requests
  BY <1>2 DEF Requests, GoodCursor
<1>4. r.at = c /\ r.clear = clear /\ r.answer = None /\ r.id = i
  OBVIOUS
<1> HIDE DEF r
<1>5. RequestOK(r)
  BY <1>3, <1>4 DEF RequestOK, GoesOn
<1>6. \A q \in flight : q.id # r.id
  BY <1>2, <1>4
<1>7. disturbed' \in BOOLEAN
  BY <1>1, Zenon DEF CoverInd, CountsOK
<1> QED BY <1>1, <1>3, <1>4, <1>5, <1>6, <1>7

\* A request joins the flight.
LEMMA FlightJoined ==
    ASSUME CoverInd, Grows, UNCHANGED outdated, NEW CONSTANT r, RequestOK(r), flight' = flight \cup {r},
           \A q \in flight : q.id # r.id
    PROVE  FlightOK'
<1>1. ASSUME NEW CONSTANT q, q \in flight' PROVE RequestOK(q)'
  <2>1. RequestOK(q)
    BY <1>1 DEF CoverInd, FlightOK
  <2> QED BY <2>1, RequestKept
<1>2. \A q \in flight' : \A p \in flight' : q.id = p.id => q = p
  BY DEF CoverInd, FlightOK
<1>3. outdated' \subseteq {q.id : q \in flight'}
  BY DEF CoverInd, FlightOK
<1> QED BY <1>1, <1>2, <1>3 DEF FlightOK

LEMMA RefreshCover ==
    ASSUME CoverInd, NEW now \in Clocks, Feed!Refresh(now)
    PROVE  CoverInd'
<1> DEFINE c == Feed!Start(now)
<1>1. /\ Feed!Send(c, TRUE) /\ cursor' = c
      /\ mixed' = (mixed \/ (cursor # None /\ now < cursor.max))
      /\ UNCHANGED <<inbox, deleted, shown, first, outdated, late, feedFaults>>
  BY DEF Feed!Refresh
<1>2. /\ GoodCursor(inbox, c) /\ c # None /\ c.offset = 0 /\ Rest(inbox, c) = Upto(inbox, now)
  BY StartFacts DEF CoverInd
<1> HIDE DEF c
<1>3. Seen' = Seen
  BY <1>1 DEF Seen
<1>4. PICK r \in Requests : /\ flight' = flight \cup {r} /\ RequestOK(r)
                             /\ \A q \in flight : q.id # r.id
  BY <1>1, <1>2, SendRequest, Zenon
<1>5. /\ ~mixed' => ~mixed /\ (cursor = None \/ ~(now < cursor.max))
      /\ mixed' \in BOOLEAN
  BY <1>1, Zenon
<1>6. Grows
  BY <1>1, <1>3, <1>5, SameInbox
<1>7. FlightOK'
  BY <1>1, <1>4, <1>6, FlightJoined
<1>8. ASSUME ~mixed' PROVE first \ deleted \subseteq Seen \cup Rest(inbox, c)
  <2>1. CASE cursor = None
    BY <2>1 DEF CoverInd, CursorOK
  <2>2. CASE cursor # None
    <3>1. /\ GoodCursor(inbox, cursor) /\ Inbox(inbox) /\ now \in Nat /\ ~(now < cursor.max)
          /\ first \ deleted \subseteq Seen \cup Rest(inbox, cursor)
      BY <1>5, <1>8, <2>2, BlogAssumption DEF CoverInd, CursorOK, StoreOK
    <3>2. cursor.max \in Nat
      BY <3>1, CursorFacts
    <3>3. Rest(inbox, cursor) \subseteq Upto(inbox, now)
      BY <3>1, <3>2 DEF Rest, Upto, Inbox
    <3> QED BY <1>2, <3>1, <3>3
  <2> QED BY <2>1, <2>2
<1>9. CursorOK'
  BY <1>1, <1>2, <1>3, <1>8 DEF CursorOK
<1>10. disturbed' \in BOOLEAN
  BY <1>1, <1>2, SendRequest
<1>11. StoreOK' /\ ListOK' /\ CountsOK'
  BY <1>1, <1>3, <1>5, <1>10 DEF CoverInd, StoreOK, ListOK, CountsOK
<1> QED BY <1>7, <1>9, <1>11 DEF CoverInd

LEMMA LoadMoreCover ==
    ASSUME CoverInd, Feed!LoadMore
    PROVE  CoverInd'
<1>1. /\ cursor # None /\ Feed!Send(cursor, FALSE)
      /\ UNCHANGED <<inbox, deleted, cursor, shown, first, mixed, outdated, late, feedFaults>>
  BY DEF Feed!LoadMore, Feed!clientVars, Feed!listVars
<1>2. GoodCursor(inbox, cursor) /\ (~mixed => first \ deleted \subseteq Seen \cup Rest(inbox, cursor))
  BY <1>1 DEF CoverInd, CursorOK
<1>3. Seen' = Seen
  BY <1>1 DEF Seen
<1>4. PICK r \in Requests : /\ flight' = flight \cup {r} /\ RequestOK(r) /\ r.clear = FALSE
                             /\ \A q \in flight : q.id # r.id
  BY <1>1, <1>2, SendRequest
<1>5. disturbed' \in BOOLEAN
  BY <1>1, <1>2, SendRequest
<1>6. Grows
  BY <1>1, <1>3, SameInbox
<1>7. FlightOK'
  BY <1>1, <1>4, <1>6, FlightJoined
<1>8. CursorOK'
  BY <1>1, <1>6, CursorKept DEF CoverInd
<1>9. StoreOK' /\ ListOK' /\ CountsOK'
  BY <1>1, <1>3, <1>5 DEF CoverInd, StoreOK, ListOK, CountsOK
<1> QED BY <1>7, <1>8, <1>9 DEF CoverInd

\* A request is answered, lost or left, and the rest of the flight stays, ...
LEMMA FlightKept ==
    ASSUME CoverInd, Grows, flight' \subseteq flight, outdated' \subseteq {r.id : r \in flight'},
           \A q \in flight' : q.id \in outdated => q.id \in outdated'
    PROVE  FlightOK'
<1>1. ASSUME NEW CONSTANT q, q \in flight' PROVE RequestOK(q)'
  BY <1>1, RequestKept DEF CoverInd, FlightOK
<1>2. \A q \in flight' : \A p \in flight' : q.id = p.id => q = p
  BY DEF CoverInd, FlightOK
<1> QED BY <1>1, <1>2 DEF FlightOK

\* ... as outdated as it was.
LEMMA OutdatedKept ==
    ASSUME CoverInd, NEW r \in flight, flight' = flight \ {r}, outdated' = outdated \ {r.id}
    PROVE  /\ outdated' \subseteq {q.id : q \in flight'}
           /\ \A q \in flight' : q.id \in outdated => q.id \in outdated'
BY DEF CoverInd, FlightOK

\* The answer of the server.
AnswerTo(r) ==
    [list  |-> PageAt(inbox, r.at) \ deleted, next |-> Feed!NextCursor(r.at, Feed!Page(r.at)),
     inbox |-> Upto(inbox, r.at.max)]

LEMMA ServeFacts ==
    ASSUME CoverInd, NEW r \in flight, Feed!Serve(r)
    PROVE  /\ r.answer = None /\ flight' = (flight \ {r}) \cup {[r EXCEPT !.answer = AnswerTo(r)]}
           /\ UNCHANGED <<inbox, deleted, cursor, shown, first, mixed, outdated, disturbed, late, feedFaults>>
           /\ RequestOK([r EXCEPT !.answer = AnswerTo(r)])
           /\ [r EXCEPT !.answer = AnswerTo(r)].id = r.id /\ [r EXCEPT !.answer = AnswerTo(r)].clear = r.clear
           /\ [r EXCEPT !.answer = AnswerTo(r)].at = r.at
           /\ [r EXCEPT !.answer = AnswerTo(r)].answer = AnswerTo(r) /\ AnswerTo(r) # None
           /\ GoodCursor(inbox, r.at)
<1> DEFINE a == AnswerTo(r)
           q == [r EXCEPT !.answer = a]
<1>1. /\ RequestOK(r) /\ GoodCursor(inbox, r.at) /\ Inbox(inbox) /\ r \in Requests
  BY DEF CoverInd, FlightOK, RequestOK, StoreOK
<1>2. /\ Feed!Page(r.at) = PageAt(inbox, r.at) /\ PageAt(inbox, r.at) \subseteq Rest(inbox, r.at)
      /\ Feed!Page(r.at) = {} => Feed!NextCursor(r.at, Feed!Page(r.at)) = None
      /\ Feed!Page(r.at) # {} =>
           /\ GoodCursor(inbox, Feed!NextCursor(r.at, Feed!Page(r.at)))
           /\ Rest(inbox, Feed!NextCursor(r.at, Feed!Page(r.at))) = Rest(inbox, r.at) \ PageAt(inbox, r.at)
  BY <1>1, Answered
<1>3. /\ a.list = PageAt(inbox, r.at) \ deleted /\ a.next = Feed!NextCursor(r.at, Feed!Page(r.at))
      /\ a.inbox = Upto(inbox, r.at.max)
  BY DEF AnswerTo
<1>4. /\ Rest(inbox, r.at) \subseteq DOMAIN inbox /\ Upto(inbox, r.at.max) \subseteq DOMAIN inbox
      /\ DOMAIN inbox \subseteq Blogs
  BY DEF Rest, Upto, CoverInd, StoreOK
<1>5. a \in Answers
  BY <1>2, <1>4 DEF AnswerTo, Answers, GoodCursor
<1>6. a # None
  BY <1>5, BlogAssumption DEF Answers, Cursor
<1>7. /\ r.answer = None /\ flight' = (flight \ {r}) \cup {q}
      /\ UNCHANGED <<inbox, deleted, cursor, shown, first, mixed, outdated, disturbed, late, feedFaults>>
  BY <1>2, FeedTerms DEF Feed!Serve, AnswerTo, Feed!clientVars, Feed!listVars
<1> HIDE DEF a
<1>8. q \in Requests /\ q.id = r.id /\ q.clear = r.clear /\ q.at = r.at /\ q.answer = a
  BY <1>1, <1>5 DEF Requests
<1> HIDE DEF q
<1>9. AnswerOK(q)
  <2>1. q.answer.list \subseteq DOMAIN inbox /\ q.answer.inbox \subseteq DOMAIN inbox
    BY <1>2, <1>3, <1>4, <1>8
  <2>2. ASSUME q.answer.next # None
        PROVE  /\ GoodCursor(inbox, q.answer.next)
               /\ q.clear => q.answer.inbox \ deleted \subseteq q.answer.list \cup Rest(inbox, q.answer.next)
               /\ GoesOn(q) => first \ deleted \subseteq Seen \cup q.answer.list \cup Rest(inbox, q.answer.next)
    <3>1. /\ GoodCursor(inbox, a.next)
          /\ Rest(inbox, r.at) \ deleted \subseteq a.list \cup Rest(inbox, a.next)
      BY <1>2, <1>3, <1>8, <2>2
    <3>2. r.clear => Rest(inbox, r.at) = Upto(inbox, r.at.max)
      BY <1>1, BehindTop DEF RequestOK
    <3>3. GoesOn(q) => first \ deleted \subseteq Seen \cup Rest(inbox, r.at)
      BY <1>1, <1>8 DEF RequestOK, GoesOn
    <3> QED BY <1>3, <1>8, <3>1, <3>2, <3>3
  <2> QED BY <2>1, <2>2 DEF AnswerOK
<1>10. RequestOK(q)
  BY <1>1, <1>8, <1>9 DEF RequestOK, GoesOn
<1> QED BY <1>1, <1>6, <1>7, <1>8, <1>10 DEF q, a

LEMMA ServeCover ==
    ASSUME CoverInd, NEW r \in flight, Feed!Serve(r)
    PROVE  CoverInd'
<1> DEFINE q == [r EXCEPT !.answer = AnswerTo(r)]
<1>1. /\ flight' = (flight \ {r}) \cup {q} /\ RequestOK(q) /\ q.id = r.id /\ q.clear = r.clear
      /\ UNCHANGED <<inbox, deleted, cursor, shown, first, mixed, outdated, disturbed, late, feedFaults>>
  BY ServeFacts
<1> HIDE DEF q
<1>2. Seen' = Seen
  BY <1>1 DEF Seen
<1>3. Grows
  BY <1>1, <1>2, SameInbox
<1>4. FlightOK'
  <2>1. ASSUME NEW CONSTANT p, p \in flight' PROVE RequestOK(p)'
    <3>1. RequestOK(p)
      BY <1>1, <2>1 DEF CoverInd, FlightOK
    <3> QED BY <1>1, <1>3, <3>1, RequestKept
  <2>2. \A p \in flight' : \A o \in flight' : p.id = o.id => p = o
    BY <1>1 DEF CoverInd, FlightOK
  <2>3. outdated' \subseteq {p.id : p \in flight'}
    BY <1>1 DEF CoverInd, FlightOK
  <2> QED BY <2>1, <2>2, <2>3 DEF FlightOK
<1>5. cursor # None
  BY DEF CoverInd, CursorOK
<1>6. CursorOK'
  BY <1>1, <1>3, <1>5, CursorKept DEF CoverInd
<1>7. StoreOK' /\ ListOK' /\ CountsOK'
  BY <1>1, <1>2 DEF CoverInd, StoreOK, ListOK, CountsOK
<1> QED BY <1>4, <1>6, <1>7 DEF CoverInd

\* A list of its own shows its blogs once, ...
LEMMA OnceShown ==
    ASSUME NEW L, L \subseteq Blogs, shown' = Feed!Once(L)
    PROVE  shown' \in [Blogs -> 0..2] /\ Seen' = L /\ Repeated' = {}
<1>1. shown' = [b \in Blogs |-> IF b \in L THEN 1 ELSE 0]
  BY DEF Feed!Once
<1>2. \A b \in Blogs : shown'[b] = (IF b \in L THEN 1 ELSE 0)
  BY <1>1
<1>3. shown' \in [Blogs -> 0..2]
  BY <1>1
<1> QED BY <1>2, <1>3 DEF Seen, Repeated

\* ... an appended one once more.
LEMMA AppendedShown ==
    ASSUME NEW L, L \subseteq Blogs, shown \in [Blogs -> 0..2], shown' = Feed!Appended(L)
    PROVE  shown' \in [Blogs -> 0..2] /\ Seen' = Seen \cup L /\ Repeated' = Repeated \cup (L \cap Seen)
<1>1. \A b \in Blogs : Feed!Once(L)[b] = IF b \in L THEN 1 ELSE 0
  BY DEF Feed!Once
<1>2. shown' = [b \in Blogs |-> IF shown[b] < 2 THEN shown[b] + Feed!Once(L)[b] ELSE 2]
  BY DEF Feed!Appended
<1>3. \A b \in Blogs : shown[b] \in 0..2
  OBVIOUS
<1>4. \A b \in Blogs : shown'[b] = IF shown[b] < 2 THEN shown[b] + (IF b \in L THEN 1 ELSE 0) ELSE 2
  BY <1>1, <1>2
<1>5. shown' \in [Blogs -> 0..2]
  <2>1. \A b \in Blogs : (IF shown[b] < 2 THEN shown[b] + Feed!Once(L)[b] ELSE 2) \in 0..2
    BY <1>1, <1>3
  <2> QED BY <1>2, <2>1
<1>6. \A b \in Blogs : shown'[b] > 0 <=> shown[b] > 0 \/ b \in L
  BY <1>3, <1>4
<1>7. \A b \in Blogs : shown'[b] > 1 <=> shown[b] > 1 \/ (b \in L /\ shown[b] > 0)
  BY <1>3, <1>4
<1> QED BY <1>5, <1>6, <1>7 DEF Seen, Repeated

\* An answer without data changes nothing; one from the top begins the list; another one
\* goes on with it, or parts it from the cursor.
LEMMA ReceiveFacts ==
    ASSUME CoverInd, NEW r \in flight, Feed!Receive(r)
    PROVE  /\ flight' = flight \ {r} /\ UNCHANGED <<inbox, deleted, disturbed, late, feedFaults>>
           /\ r.answer # None /\ AnswerOK(r) /\ r.answer.list \subseteq Blogs /\ cursor # None
           /\ mixed' \in BOOLEAN
           /\ r.answer.next = None =>
                /\ UNCHANGED <<cursor, shown, first>> /\ Seen' = Seen /\ Repeated' = Repeated
                /\ outdated' = outdated \ {r.id} /\ (~mixed' => ~mixed)
           /\ r.answer.next # None =>
                /\ cursor' = r.answer.next /\ shown' \in [Blogs -> 0..2]
                /\ r.clear => /\ first' = r.answer.inbox /\ outdated' = {q.id : q \in flight} \ {r.id}
                              /\ Seen' = r.answer.list /\ Repeated' = {}
                /\ ~r.clear => /\ first' = first /\ outdated' = outdated \ {r.id}
                               /\ ~mixed' => ~mixed /\ r.id \notin outdated
                               /\ Seen' = Seen \cup r.answer.list
                               /\ Repeated' = Repeated \cup (r.answer.list \cap Seen)
<1>1. /\ flight' = flight \ {r} /\ UNCHANGED <<inbox, deleted, disturbed, late, feedFaults>>
      /\ r.answer # None
  BY DEF Feed!Receive
<1>2. AnswerOK(r)
  BY <1>1 DEF CoverInd, FlightOK, RequestOK
<1>3. r.answer.list \subseteq Blogs
  BY <1>2 DEF AnswerOK, CoverInd, StoreOK
<1>4. cursor # None
  BY DEF CoverInd, CursorOK
<1>5. ASSUME r.answer.next = None
      PROVE  /\ UNCHANGED <<cursor, shown, first>> /\ Seen' = Seen /\ Repeated' = Repeated
             /\ outdated' = outdated \ {r.id}
  BY <1>5 DEF Feed!Receive, Seen, Repeated
<1>6. ASSUME r.answer.next # None
      PROVE  /\ cursor' = r.answer.next
             /\ r.clear => /\ first' = r.answer.inbox /\ shown' = Feed!Once(r.answer.list)
                           /\ outdated' = {q.id : q \in flight} \ {r.id}
             /\ ~r.clear => /\ first' = first /\ shown' = Feed!Appended(r.answer.list)
                            /\ outdated' = outdated \ {r.id}
  BY <1>6 DEF Feed!Receive
<1>7. ASSUME r.answer.next # None, r.clear
      PROVE  shown' \in [Blogs -> 0..2] /\ Seen' = r.answer.list /\ Repeated' = {}
  BY <1>3, <1>6, <1>7, OnceShown
<1>8. ASSUME r.answer.next # None, ~r.clear
      PROVE  /\ shown' \in [Blogs -> 0..2] /\ Seen' = Seen \cup r.answer.list
             /\ Repeated' = Repeated \cup (r.answer.list \cap Seen)
  BY <1>3, <1>6, <1>8, AppendedShown DEF CoverInd, ListOK
<1>9. mixed' = IF r.answer.next # None /\ r.clear THEN FALSE
               ELSE mixed \/ (r.answer.next # None /\ r.id \in outdated)
  BY DEF Feed!Receive
<1>10. mixed' \in BOOLEAN
  BY <1>9, Zenon
<1>11. /\ r.answer.next = None => (~mixed' => ~mixed)
       /\ r.answer.next # None /\ ~r.clear => (~mixed' => ~mixed /\ r.id \notin outdated)
  BY <1>9, Zenon
<1> QED BY <1>1, <1>2, <1>3, <1>4, <1>5, <1>6, <1>7, <1>8, <1>10, <1>11

LEMMA ReceiveCover ==
    ASSUME CoverInd, NEW r \in flight, Feed!Receive(r)
    PROVE  CoverInd'
<1>1. /\ flight' = flight \ {r} /\ UNCHANGED <<inbox, deleted, disturbed, late, feedFaults>>
      /\ AnswerOK(r) /\ cursor # None /\ r.answer # None /\ mixed' \in BOOLEAN
  BY ReceiveFacts
<1>2. StoreOK' /\ CountsOK'
  BY <1>1 DEF CoverInd, StoreOK, CountsOK
<1>3. CASE r.answer.next = None
  <2>1. /\ UNCHANGED <<cursor, shown, first>> /\ Seen' = Seen
        /\ outdated' = outdated \ {r.id} /\ (~mixed' => ~mixed)
    BY <1>3, ReceiveFacts
  <2>2. Grows
    BY <1>1, <2>1, SameInbox
  <2>3. FlightOK' /\ CursorOK'
    BY <1>1, <2>1, <2>2, FlightKept, OutdatedKept, CursorKept DEF CoverInd
  <2>4. ListOK'
    BY <1>1, <2>1 DEF CoverInd, ListOK
  <2> QED BY <1>2, <2>3, <2>4 DEF CoverInd
<1>4. CASE r.answer.next # None /\ r.clear
  <2>1. /\ cursor' = r.answer.next /\ shown' \in [Blogs -> 0..2]
        /\ first' = r.answer.inbox /\ Seen' = r.answer.list /\ outdated' = {q.id : q \in flight} \ {r.id}
    BY <1>4, ReceiveFacts
  <2>2. /\ GoodCursor(inbox', cursor') /\ first' \ deleted' \subseteq Seen' \cup Rest(inbox', cursor')
        /\ first' \subseteq DOMAIN inbox' /\ Seen' \subseteq DOMAIN inbox'
    BY <1>1, <1>4, <2>1 DEF AnswerOK
  <2>3. ListOK' /\ CursorOK'
    BY <1>1, <1>4, <2>1, <2>2 DEF ListOK, CursorOK
  <2>4. ASSUME NEW CONSTANT q, q \in flight' PROVE RequestOK(q)'
    <3>1. RequestOK(q) /\ q.id \in outdated'
      BY <1>1, <2>1, <2>4 DEF CoverInd, FlightOK
    <3> QED BY <1>1, <3>1 DEF RequestOK, AnswerOK, GoesOn
  <2>5. FlightOK'
    BY <1>1, <2>1, <2>4 DEF CoverInd, FlightOK
  <2> QED BY <1>2, <2>3, <2>5 DEF CoverInd
<1>5. CASE r.answer.next # None /\ ~r.clear
  <2>1. /\ cursor' = r.answer.next /\ shown' \in [Blogs -> 0..2]
        /\ first' = first /\ Seen' = Seen \cup r.answer.list
        /\ outdated' = outdated \ {r.id} /\ (~mixed' => ~mixed /\ r.id \notin outdated)
    BY <1>5, ReceiveFacts
  <2>2. Grows
    BY <1>1, <2>1, SameInbox
  <2>3. FlightOK'
    BY <1>1, <2>1, <2>2, FlightKept, OutdatedKept
  <2>4. /\ GoodCursor(inbox', cursor') /\ Seen' \subseteq DOMAIN inbox'
        /\ ~mixed' => first' \ deleted' \subseteq Seen' \cup Rest(inbox', cursor')
    BY <1>1, <1>5, <2>1 DEF AnswerOK, GoesOn, CoverInd, ListOK
  <2>5. CursorOK' /\ ListOK'
    BY <1>1, <1>5, <2>1, <2>4 DEF CursorOK, ListOK, CoverInd
  <2> QED BY <1>2, <2>3, <2>5 DEF CoverInd
<1> QED BY <1>3, <1>4, <1>5

LEMMA LoseCover ==
    ASSUME CoverInd, NEW r \in flight, Feed!Lose(r)
    PROVE  CoverInd'
<1>1. /\ flight' = flight \ {r} /\ UNCHANGED <<inbox, deleted, cursor, shown, first, mixed, late>>
      /\ outdated' = outdated \ {r.id}
      /\ feedFaults < MaxFeedFaults /\ feedFaults' = feedFaults + 1
      /\ disturbed' = (disturbed \/ r.clear) /\ cursor # None
  BY DEF Feed!Lose, Feed!Fault, CoverInd, CursorOK
<1>2. Seen' = Seen
  BY <1>1 DEF Seen
<1>3. Grows
  BY <1>1, <1>2, SameInbox
<1>4. FlightOK' /\ CursorOK'
  BY <1>1, <1>3, FlightKept, OutdatedKept, CursorKept DEF CoverInd
<1>5. disturbed' \in BOOLEAN
  <2>1. r.clear \in BOOLEAN
    BY DEF CoverInd, FlightOK, RequestOK, Requests
  <2> QED BY <1>1, <2>1, Zenon DEF CoverInd, CountsOK
<1>6. feedFaults' \in 0..MaxFeedFaults
  BY <1>1, PageAssumption DEF CoverInd, CountsOK
<1>7. StoreOK' /\ ListOK' /\ CountsOK'
  BY <1>1, <1>2, <1>5, <1>6 DEF CoverInd, StoreOK, ListOK, CountsOK
<1> QED BY <1>4, <1>7 DEF CoverInd

LEMMA DeleteCover ==
    ASSUME CoverInd, NEW x \in Blogs, Feed!Delete(x)
    PROVE  CoverInd'
<1>1. /\ UNCHANGED <<inbox, cursor, flight, shown, first, mixed, outdated, disturbed, late>>
      /\ deleted' = deleted \cup {x}
      /\ feedFaults < MaxFeedFaults /\ feedFaults' = feedFaults + 1
  BY DEF Feed!Delete, Feed!Fault, Feed!clientVars, Feed!listVars
<1>2. Seen' = Seen
  BY <1>1 DEF Seen
<1>3. Grows
  BY <1>1, <1>2, SameInbox
<1>4. FlightOK'
  BY <1>1, <1>3, FlightKept DEF CoverInd, FlightOK
<1>5. CursorOK'
  <2>1. CASE cursor = None
    BY <1>1, <1>2, <2>1 DEF CoverInd, CursorOK
  <2>2. CASE cursor # None
    BY <1>1, <1>3, <2>2, CursorKept DEF CoverInd
  <2> QED BY <2>1, <2>2
<1>6. feedFaults' \in 0..MaxFeedFaults
  BY <1>1, PageAssumption DEF CoverInd, CountsOK
<1>7. StoreOK' /\ ListOK' /\ CountsOK'
  BY <1>1, <1>2, <1>6 DEF CoverInd, StoreOK, ListOK, CountsOK
<1> QED BY <1>4, <1>5, <1>7 DEF CoverInd

\* How a push counts.
Lately(t) == IF \E c \in Feed!Cursors \ {None} : c.max = t /\ c.offset > 0 THEN 1 ELSE 0

LEMMA PushFacts ==
    ASSUME CoverInd, NEW x \in Blogs, NEW t \in Times, Feed!Push(x, t)
    PROVE  /\ x \in Nat /\ t \in Nat /\ x \notin DOMAIN inbox /\ inbox' = Pushed(inbox, x, t)
           /\ DOMAIN inbox' = DOMAIN inbox \cup {x} /\ Inbox(inbox) /\ Inbox(inbox')
           /\ late' = late + Lately(t) /\ late \in Nat /\ late' \in Nat /\ late <= late'
           /\ Cardinality(DOMAIN inbox') = Cardinality(DOMAIN inbox) + 1 /\ Cardinality(DOMAIN inbox) \in Nat
           /\ UNCHANGED <<deleted, cursor, flight, shown, first, mixed, outdated, disturbed, feedFaults>>
           /\ Seen' = Seen /\ Repeated' = Repeated
<1>1. x \in Nat /\ t \in Nat /\ Inbox(inbox) /\ late \in Nat
  BY BlogAssumption DEF CoverInd, StoreOK, CountsOK
<1>2. /\ x \notin DOMAIN inbox /\ late' = late + Lately(t)
      /\ inbox' = [d \in DOMAIN inbox \cup {x} |-> IF d = x THEN t ELSE inbox[d]]
      /\ UNCHANGED <<deleted, cursor, flight, shown, first, mixed, outdated, disturbed, feedFaults>>
  BY DEF Feed!Push, Lately, Feed!clientVars, Feed!listVars
<1>3. inbox' = Pushed(inbox, x, t)
  BY <1>2 DEF Pushed
<1>4. Lately(t) \in {0, 1}
  BY DEF Lately
<1>5. late' \in Nat /\ late <= late'
  BY <1>1, <1>2, <1>4
<1>6. Seen' = Seen /\ Repeated' = Repeated
  BY <1>2 DEF Seen, Repeated
<1>7. /\ Inbox(inbox') /\ DOMAIN inbox' = DOMAIN inbox \cup {x}
      /\ Cardinality(DOMAIN inbox') = Cardinality(DOMAIN inbox) + 1 /\ Cardinality(DOMAIN inbox) \in Nat
  <2>1. /\ Inbox(Pushed(inbox, x, t)) /\ DOMAIN Pushed(inbox, x, t) = DOMAIN inbox \cup {x}
        /\ Cardinality(DOMAIN inbox \cup {x}) = Cardinality(DOMAIN inbox) + 1 /\ Cardinality(DOMAIN inbox) \in Nat
    BY <1>1, <1>2, PushedInbox
  <2> QED BY <1>3, <2>1, Zenon
<1> QED BY <1>1, <1>2, <1>3, <1>5, <1>6, <1>7

LEMMA PushCover ==
    ASSUME CoverInd, NEW x \in Blogs, NEW t \in Times, Feed!Push(x, t)
    PROVE  CoverInd'
<1>1. /\ x \in Nat /\ t \in Nat /\ x \notin DOMAIN inbox /\ inbox' = Pushed(inbox, x, t)
      /\ DOMAIN inbox' = DOMAIN inbox \cup {x} /\ Inbox(inbox) /\ Inbox(inbox')
      /\ late' = late + Lately(t) /\ late \in Nat /\ late' \in Nat
      /\ Cardinality(DOMAIN inbox') = Cardinality(DOMAIN inbox) + 1 /\ Cardinality(DOMAIN inbox) \in Nat
      /\ UNCHANGED <<deleted, cursor, flight, shown, first, mixed, outdated, disturbed, feedFaults>>
      /\ Seen' = Seen
  BY PushFacts
<1>2. Grows
  <2>1. ASSUME NEW c, GoodCursor(inbox, c)
        PROVE  GoodCursor(inbox', c) /\ Rest(inbox, c) \subseteq Rest(inbox', c)
    BY <1>1, <2>1, RestAfterPush
  <2> QED BY <1>1, <2>1 DEF Grows
<1>3. FlightOK'
  BY <1>1, <1>2, FlightKept DEF CoverInd, FlightOK
<1>4. CursorOK'
  <2>1. CASE cursor = None
    BY <1>1, <2>1 DEF CoverInd, CursorOK
  <2>2. CASE cursor # None
    BY <1>1, <1>2, <2>2, CursorKept DEF CoverInd
  <2> QED BY <2>1, <2>2
<1>5. StoreOK'
  <2>1. \A b \in DOMAIN inbox' : inbox'[b] \in Times
    <3>1. inbox'[x] = t /\ \A b \in DOMAIN inbox : inbox'[b] = inbox[b]
      BY <1>1, PushedInbox
    <3> QED BY <1>1, <3>1 DEF CoverInd, StoreOK
  <2> QED BY <1>1, <2>1 DEF CoverInd, StoreOK
<1>6. late' <= Cardinality(DOMAIN inbox')
  <2>1. late <= Cardinality(DOMAIN inbox) /\ Lately(t) \in {0, 1}
    BY DEF CoverInd, CountsOK, Lately
  <2> QED BY <1>1, <2>1
<1>7. ListOK' /\ CountsOK'
  BY <1>1, <1>6 DEF CoverInd, ListOK, CountsOK
<1> QED BY <1>3, <1>4, <1>5, <1>7 DEF CoverInd

LEMMA CoverStays ==
    ASSUME CoverInd, UNCHANGED feedVars
    PROVE  CoverInd'
<1>1. UNCHANGED <<inbox, deleted, cursor, flight, shown, first, mixed, outdated, disturbed, late, feedFaults>>
  BY DEF feedVars
<1>2. Seen' = Seen
  BY <1>1 DEF Seen
<1>3. FlightOK'
  BY <1>1, <1>2, SameInbox, FlightKept DEF CoverInd, FlightOK
<1>4. StoreOK' /\ ListOK' /\ CountsOK' /\ CursorOK'
  BY <1>1, <1>2 DEF CoverInd, StoreOK, ListOK, CountsOK, CursorOK
<1> QED BY <1>3, <1>4 DEF CoverInd

\* The blogs that are, or will be, in the list twice when U are in it twice, V are in it, and
\* the page goes on behind the cursor c.
Again(U, V, c) == U \cup (V \cap Rest(inbox, c))

\* The answer to the one request that is under way.
AloneOK(r) ==
    /\ r.at = cursor
    /\ r.answer # None /\ r.answer.next = None => (r.clear => Seen \cap Rest(inbox, cursor) = {})
    /\ r.answer # None /\ r.answer.next # None =>
         /\ r.clear  => Cardinality(Again({}, r.answer.list, r.answer.next)) <= late
         /\ ~r.clear => Cardinality(Again(Repeated \cup (r.answer.list \cap Seen), Seen \cup r.answer.list,
                                          r.answer.next)) <= late

\* No more blogs are twice in the list, or will be when the page goes on, than were pushed
\* late.
TwiceOK ==
    ~disturbed =>
      /\ \A r \in flight : \A q \in flight : r = q
      /\ Cardinality(Repeated) <= late
      /\ cursor # None /\ (\A r \in flight : ~r.clear) => Cardinality(Again(Repeated, Seen, cursor)) <= late
      /\ \A r \in flight : AloneOK(r)

FeedInd == CoverInd /\ TwiceOK

LEMMA BlogsFinite ==
    ASSUME NEW S, S \subseteq Blogs
    PROVE  IsFiniteSet(S) /\ Cardinality(S) \in Nat
BY BlogAssumption, FS_Subset, FS_CardinalityType

LEMMA FewerBlogs ==
    ASSUME NEW S, S \subseteq Blogs, NEW T, T \subseteq S
    PROVE  Cardinality(T) <= Cardinality(S)
BY BlogsFinite, FS_Subset

LEMMA NothingTwice ==
    ASSUME CoverInd
    PROVE  Cardinality({}) <= late /\ Repeated \subseteq Seen /\ Seen \subseteq Blogs /\ late \in Nat
<1>1. late \in Nat
  BY DEF CoverInd, CountsOK
<1>2. Cardinality({}) = 0
  BY FS_EmptySet
<1>3. \A b \in Blogs : shown[b] \in 0..2
  BY DEF CoverInd, ListOK
<1>4. Repeated \subseteq Seen
  BY <1>3 DEF Repeated, Seen
<1> QED BY <1>1, <1>2, <1>4 DEF Seen

LEMMA FeedImplied == FeedInd => FeedInv
<1> SUFFICES ASSUME FeedInd PROVE FeedInv
  OBVIOUS
<1>1. Feed!TypeOK /\ Feed!NothingSkipped
  BY CoverImplied DEF FeedInd
<1>2. Feed!NoPageTwice
  BY FeedCardinality DEF FeedInd, TwiceOK, Repeated, Feed!NoPageTwice
<1> QED BY <1>1, <1>2 DEF FeedInv

LEMMA TwiceInit == Feed!Init => TwiceOK
<1> SUFFICES ASSUME Feed!Init PROVE TwiceOK
  OBVIOUS
<1>1. flight = {} /\ cursor = None /\ late = 0 /\ Repeated = {}
  BY DEF Feed!Init, Repeated
<1>2. Cardinality(Repeated) <= late
  BY <1>1, FS_EmptySet
<1> QED BY <1>1, <1>2 DEF TwiceOK

LEMMA RefreshTwice ==
    ASSUME FeedInd, NEW now \in Clocks, Feed!Refresh(now)
    PROVE  TwiceOK'
<1> DEFINE c == Feed!Start(now)
<1>1. Feed!Send(c, TRUE) /\ cursor' = c /\ UNCHANGED <<shown, late>>
  BY DEF Feed!Refresh
<1>2. CoverInd /\ TRUE \in BOOLEAN /\ GoodCursor(inbox, c) /\ c.offset = 0
  BY StartFacts DEF FeedInd, CoverInd
<1> HIDE DEF c
<1>3. /\ \E r \in Requests : flight' = flight \cup {r} /\ r.at = c /\ r.clear = TRUE /\ r.answer = None
      /\ disturbed' = (disturbed \/ flight # {})
  <2>1. \E r \in Requests : flight' = flight \cup {r} /\ r.at = c /\ r.clear = TRUE /\ r.answer = None
    <3>1. \E r \in Requests : /\ flight' = flight \cup {r}
                              /\ r.at = c /\ r.clear = TRUE /\ r.answer = None /\ RequestOK(r)
                              /\ \A q \in flight : q.id # r.id
      BY <1>1, <1>2, SendRequest, Zenon
    <3> QED BY <3>1
  <2>2. disturbed' = (disturbed \/ flight # {})
    BY <1>1 DEF Feed!Send
  <2> QED BY <2>1, <2>2
<1>4. PICK r \in Requests : flight' = flight \cup {r} /\ r.at = c /\ r.clear = TRUE /\ r.answer = None
  BY <1>3
<1>5. SUFFICES ASSUME ~disturbed' PROVE TwiceOK'
  BY DEF TwiceOK
<1>6. ~disturbed /\ flight = {} /\ flight' = {r}
  BY <1>3, <1>4, <1>5
<1>7. Cardinality(Repeated') <= late'
  BY <1>1, <1>6 DEF FeedInd, TwiceOK, Repeated
<1>8. AloneOK(r)'
  BY <1>1, <1>4 DEF AloneOK
<1> QED BY <1>4, <1>6, <1>7, <1>8 DEF TwiceOK

LEMMA LoadMoreTwice ==
    ASSUME FeedInd, Feed!LoadMore
    PROVE  TwiceOK'
<1>1. /\ cursor # None
      /\ Feed!Send(cursor, FALSE) /\ UNCHANGED <<inbox, cursor, shown, first, late>>
  BY DEF Feed!LoadMore, Feed!clientVars, Feed!listVars
<1>2. GoodCursor(inbox, cursor) /\ (~mixed => first \ deleted \subseteq Seen \cup Rest(inbox, cursor))
  BY <1>1 DEF FeedInd, CoverInd, CursorOK
<1>3. /\ \E r \in Requests : flight' = flight \cup {r} /\ r.clear = FALSE /\ r.answer = None /\ r.at = cursor
      /\ disturbed' = (disturbed \/ flight # {})
  BY <1>1, <1>2, SendRequest DEF FeedInd
<1>4. PICK r \in Requests : flight' = flight \cup {r} /\ r.clear = FALSE /\ r.answer = None /\ r.at = cursor
  BY <1>3
<1>5. SUFFICES ASSUME ~disturbed' PROVE TwiceOK'
  BY DEF TwiceOK
<1>6. ~disturbed /\ flight = {} /\ flight' = {r}
  BY <1>3, <1>4, <1>5
<1>7. Repeated' = Repeated /\ Seen' = Seen
  BY <1>1 DEF Repeated, Seen
<1>8. AloneOK(r)'
  BY <1>1, <1>4 DEF AloneOK
<1>9. Cardinality(Again(Repeated, Seen, cursor)') <= late' /\ Cardinality(Repeated') <= late'
  BY <1>1, <1>6, <1>7 DEF FeedInd, TwiceOK, Again
<1> QED BY <1>6, <1>8, <1>9 DEF TwiceOK

LEMMA ServeTwice ==
    ASSUME FeedInd, NEW r \in flight, Feed!Serve(r)
    PROVE  TwiceOK'
<1> DEFINE a == AnswerTo(r)
           q == [r EXCEPT !.answer = a]
<1>1. /\ flight' = (flight \ {r}) \cup {q} /\ q.clear = r.clear /\ q.at = r.at /\ q.answer = a
      /\ UNCHANGED <<inbox, deleted, cursor, shown, first, mixed, outdated, disturbed, late, feedFaults>>
      /\ GoodCursor(inbox, r.at)
  BY ServeFacts DEF FeedInd
<1>2. /\ PageAt(inbox, r.at) \subseteq Rest(inbox, r.at)
      /\ a.next = None => Rest(inbox, r.at) = {} \/ Feed!Page(r.at) # {}
      /\ Feed!Page(r.at) # {} =>
           /\ GoodCursor(inbox, a.next)
           /\ Rest(inbox, a.next) = Rest(inbox, r.at) \ PageAt(inbox, r.at)
      /\ Feed!Page(r.at) = {} => a.next = None
      /\ a.list \subseteq PageAt(inbox, r.at)
  <2>1. a.next = Feed!NextCursor(r.at, Feed!Page(r.at)) /\ a.list = PageAt(inbox, r.at) \ deleted
    BY DEF AnswerTo
  <2> HIDE DEF a
  <2> QED BY <1>1, <2>1, Answered DEF FeedInd, CoverInd, StoreOK
<1> HIDE DEF q, a
<1>3. a.next = None => Rest(inbox, r.at) = {}
  <2>1. \A c : GoodCursor(inbox, c) => c # None
    BY BlogAssumption DEF GoodCursor, Cursor
  <2> QED BY <1>2, <2>1
<1>4. a.next # None => Rest(inbox, a.next) = Rest(inbox, r.at) \ PageAt(inbox, r.at)
  BY <1>2
<1>5. SUFFICES ASSUME ~disturbed' PROVE TwiceOK'
  BY DEF TwiceOK
<1>6. Seen' = Seen /\ Repeated' = Repeated
  BY <1>1 DEF Seen, Repeated
<1>7. /\ ~disturbed /\ flight = {r} /\ flight' = {q} /\ Cardinality(Repeated) <= late
      /\ cursor # None /\ (r.clear \/ Cardinality(Again(Repeated, Seen, cursor)) <= late)
      /\ AloneOK(r)
  <2>1. cursor # None
    BY DEF FeedInd, CoverInd, CursorOK
  <2>2. ~disturbed
    BY <1>1, <1>5
  <2>3. flight = {r}
    BY <2>2 DEF FeedInd, TwiceOK
  <2> QED BY <1>1, <2>1, <2>2, <2>3 DEF FeedInd, TwiceOK
<1>8. ASSUME NEW CONSTANT p, p = q PROVE AloneOK(p)'
  <2> DEFINE L == p.answer.list
             n == p.answer.next
  <2>1. p.clear = r.clear /\ p.at = r.at /\ p.answer = a /\ L = a.list /\ n = a.next
    BY <1>1, <1>8
  <2>2. ASSUME n = None PROVE Seen \cap Rest(inbox, cursor) = {}
    BY <1>3, <1>7, <2>1, <2>2 DEF AloneOK
  <2>3. ASSUME r.clear, n # None PROVE Cardinality(Again({}, L, n)) <= late
    <3>1. Again({}, L, n) = {}
      BY <1>2, <1>4, <2>1, <2>3 DEF Again
    <3> QED BY <3>1, NothingTwice DEF FeedInd
  <2>4. ASSUME ~r.clear, n # None
        PROVE  Cardinality(Again(Repeated \cup (L \cap Seen), Seen \cup L, n)) <= late
    <3> DEFINE W == Again(Repeated \cup (L \cap Seen), Seen \cup L, n)
               X == Again(Repeated, Seen, cursor)
    <3>1. r.at = cursor
      BY <1>7, <2>4 DEF AloneOK
    <3>2. W \subseteq X
      BY <1>2, <1>4, <2>1, <2>4, <3>1 DEF Again
    <3>3. X \subseteq Blogs
      BY NothingTwice DEF Again, FeedInd
    <3>4. Cardinality(X) <= late
      BY <1>7, <2>4
    <3> HIDE DEF W, X
    <3>5. Cardinality(W) <= Cardinality(X) /\ Cardinality(X) \in Nat /\ Cardinality(W) \in Nat
      BY <3>2, <3>3, FewerBlogs, BlogsFinite
    <3>6. Cardinality(W) <= late
      BY <3>4, <3>5, NothingTwice DEF FeedInd
    <3> QED BY <3>6 DEF W
  <2>5. /\ (Seen \cap Rest(inbox, cursor))' = Seen \cap Rest(inbox, cursor)
        /\ Again({}, L, n)' = Again({}, L, n)
        /\ Again(Repeated \cup (L \cap Seen), Seen \cup L, n)' = Again(Repeated \cup (L \cap Seen), Seen \cup L, n)
    BY <1>1, <1>6 DEF Again
  <2>6. p.at = cursor'
    BY <1>1, <1>7, <2>1 DEF AloneOK
  <2> QED BY <1>1, <1>6, <2>1, <2>2, <2>3, <2>4, <2>5, <2>6 DEF AloneOK
<1>9. q.clear \/ Cardinality(Again(Repeated, Seen, cursor)') <= late'
  BY <1>1, <1>6, <1>7 DEF Again
<1>10. Cardinality(Repeated') <= late'
  BY <1>1, <1>6, <1>7
<1> QED BY <1>7, <1>8, <1>9, <1>10 DEF TwiceOK

LEMMA ReceiveTwice ==
    ASSUME FeedInd, NEW r \in flight, Feed!Receive(r)
    PROVE  TwiceOK'
<1> DEFINE L == r.answer.list
           n == r.answer.next
<1>1. /\ flight' = flight \ {r} /\ UNCHANGED <<inbox, deleted, disturbed, late, feedFaults>>
      /\ r.answer # None /\ L \subseteq Blogs /\ cursor # None
      /\ n = None => cursor' = cursor /\ Seen' = Seen /\ Repeated' = Repeated
      /\ n # None => /\ cursor' = n
                     /\ r.clear => Seen' = L /\ Repeated' = {}
                     /\ ~r.clear => Seen' = Seen \cup L /\ Repeated' = Repeated \cup (L \cap Seen)
  BY ReceiveFacts DEF FeedInd
<1>2. SUFFICES ASSUME ~disturbed' PROVE TwiceOK'
  BY DEF TwiceOK
<1>3. /\ flight = {r} /\ flight' = {} /\ Cardinality(Repeated) <= late /\ AloneOK(r)
      /\ r.clear \/ Cardinality(Again(Repeated, Seen, cursor)) <= late
  <2>1. ~disturbed
    BY <1>1, <1>2
  <2>2. flight = {r}
    BY <2>1 DEF FeedInd, TwiceOK
  <2> QED BY <1>1, <2>1, <2>2 DEF FeedInd, TwiceOK
<1>4. Again(Repeated, Seen, cursor)' = Repeated' \cup (Seen' \cap Rest(inbox, cursor'))
  BY <1>1 DEF Again
<1>5. Cardinality(Again(Repeated, Seen, cursor)') <= late
  <2>1. CASE n = None /\ r.clear
    <3>1. Seen \cap Rest(inbox, cursor) = {}
      BY <1>1, <1>3, <2>1 DEF AloneOK
    <3>2. Again(Repeated, Seen, cursor)' = Repeated
      BY <1>1, <1>4, <2>1, <3>1
    <3> QED BY <1>3, <3>2
  <2>2. CASE n = None /\ ~r.clear
    <3>1. Again(Repeated, Seen, cursor)' = Again(Repeated, Seen, cursor)
      BY <1>1, <1>4, <2>2 DEF Again
    <3> QED BY <1>3, <2>2, <3>1
  <2>3. CASE n # None /\ r.clear
    <3>1. Again(Repeated, Seen, cursor)' = Again({}, L, n)
      BY <1>1, <1>4, <2>3 DEF Again
    <3> QED BY <1>1, <1>3, <2>3, <3>1 DEF AloneOK
  <2>4. CASE n # None /\ ~r.clear
    <3>1. Again(Repeated, Seen, cursor)' = Again(Repeated \cup (L \cap Seen), Seen \cup L, n)
      BY <1>1, <1>4, <2>4 DEF Again
    <3> QED BY <1>1, <1>3, <2>4, <3>1 DEF AloneOK
  <2> QED BY <2>1, <2>2, <2>3, <2>4
<1>6. Repeated' \subseteq Again(Repeated, Seen, cursor)' /\ Again(Repeated, Seen, cursor)' \subseteq Blogs
  BY <1>4 DEF Repeated, Seen
<1>7. Cardinality(Repeated') <= late
  <2>1. /\ Cardinality(Repeated') <= Cardinality(Again(Repeated, Seen, cursor)')
        /\ Cardinality(Repeated') \in Nat /\ Cardinality(Again(Repeated, Seen, cursor)') \in Nat
    BY <1>6, FewerBlogs, BlogsFinite
  <2> QED BY <1>5, <2>1, NothingTwice DEF FeedInd
<1> QED BY <1>1, <1>3, <1>5, <1>7 DEF TwiceOK

\* A step that changes neither the inbox nor the list, and leaves of the flight what is left.
LEMMA TwiceKept ==
    ASSUME FeedInd, flight' \subseteq flight, UNCHANGED <<inbox, cursor, shown, late>>,
           ~disturbed' => ~disturbed /\ \A r \in flight \ flight' : ~r.clear
    PROVE  TwiceOK'
<1>1. SUFFICES ASSUME ~disturbed' PROVE TwiceOK'
  BY DEF TwiceOK
<1>2. Seen' = Seen /\ Repeated' = Repeated
  BY DEF Seen, Repeated
<1>3. ~disturbed /\ \A r \in flight \ flight' : ~r.clear
  BY <1>1
<1>4. /\ \A r \in flight' : \A q \in flight' : r = q
      /\ Cardinality(Repeated') <= late'
  BY <1>2, <1>3 DEF FeedInd, TwiceOK
<1>5. ASSUME cursor' # None, \A r \in flight' : ~r.clear
      PROVE  Cardinality(Again(Repeated, Seen, cursor)') <= late'
  <2>1. \A r \in flight : ~r.clear
    BY <1>3, <1>5
  <2>2. Again(Repeated, Seen, cursor)' = Again(Repeated, Seen, cursor)
    BY <1>2 DEF Again
  <2> QED BY <1>3, <1>5, <2>1, <2>2 DEF FeedInd, TwiceOK
<1>6. ASSUME NEW CONSTANT r, r \in flight' PROVE AloneOK(r)'
  <2>1. AloneOK(r)
    BY <1>3, <1>6 DEF FeedInd, TwiceOK
  <2>2. /\ (Seen \cap Rest(inbox, cursor))' = Seen \cap Rest(inbox, cursor)
        /\ Again({}, r.answer.list, r.answer.next)' = Again({}, r.answer.list, r.answer.next)
        /\ Again(Repeated \cup (r.answer.list \cap Seen), Seen \cup r.answer.list, r.answer.next)'
             = Again(Repeated \cup (r.answer.list \cap Seen), Seen \cup r.answer.list, r.answer.next)
    BY <1>2 DEF Again
  <2> QED BY <1>2, <2>1, <2>2 DEF AloneOK
<1> QED BY <1>4, <1>5, <1>6 DEF TwiceOK

LEMMA LoseTwice ==
    ASSUME FeedInd, NEW r \in flight, Feed!Lose(r)
    PROVE  TwiceOK'
<1>1. /\ flight' = flight \ {r} /\ UNCHANGED <<inbox, cursor, shown, late>>
      /\ disturbed' = (disturbed \/ r.clear)
  BY DEF Feed!Lose
<1> QED BY <1>1, TwiceKept

\* A push puts at most one blog of V behind a cursor that some page or answer has, and counts
\* if it does.
LEMMA LatePush ==
    ASSUME CoverInd, NEW x \in Blogs, NEW t \in Times, Feed!Push(x, t),
           NEW CONSTANT c, c \in Feed!Cursors \ {None}, GoodCursor(inbox, c),
           NEW U, NEW V, U \subseteq Blogs, V \subseteq DOMAIN inbox,
           Cardinality(U \cup (V \cap Rest(inbox, c))) <= late
    PROVE  Cardinality(U \cup (V \cap Rest(inbox', c))) <= late'
<1>1. /\ x \in Nat /\ t \in Nat /\ x \notin DOMAIN inbox /\ inbox' = Pushed(inbox, x, t) /\ Inbox(inbox)
      /\ late' = late + Lately(t) /\ late \in Nat /\ late' \in Nat
  BY PushFacts
<1>2. IsFiniteSet(U) /\ IsFiniteSet(V) /\ x \notin V
  BY <1>1, BlogsFinite DEF CoverInd, StoreOK
<1>3. /\ Cardinality(U \cup (V \cap Rest(Pushed(inbox, x, t), c))) <= late + 1
      /\ c.max # t \/ c.offset = 0 => Cardinality(U \cup (V \cap Rest(Pushed(inbox, x, t), c))) <= late
  BY <1>1, <1>2, GrowsByOne
<1>4. c.max = t /\ c.offset # 0 => Lately(t) = 1
  <2>1. c.offset \in Nat
    BY <1>1, CursorFacts
  <2> QED BY <2>1 DEF Lately
<1>5. Lately(t) \in {0, 1}
  BY DEF Lately
<1>6. U \cup (V \cap Rest(inbox', c)) \subseteq Blogs
  BY <1>1 DEF CoverInd, StoreOK
<1>7. Cardinality(U \cup (V \cap Rest(inbox', c))) \in Nat
  BY <1>6, BlogsFinite
<1> DEFINE k == Cardinality(U \cup (V \cap Rest(inbox', c)))
<1>8. k \in Nat /\ k <= late + 1 /\ (c.max # t \/ c.offset = 0 => k <= late)
  BY <1>1, <1>3, <1>7
<1> HIDE DEF k
<1>9. k <= late'
  BY <1>1, <1>4, <1>5, <1>8
<1> QED BY <1>9 DEF k

LEMMA PushTwice ==
    ASSUME FeedInd, NEW x \in Blogs, NEW t \in Times, Feed!Push(x, t)
    PROVE  TwiceOK'
<1>1. /\ UNCHANGED <<deleted, cursor, flight, shown, first, mixed, outdated, disturbed, feedFaults>>
      /\ late \in Nat /\ late' \in Nat /\ late <= late' /\ Seen' = Seen /\ Repeated' = Repeated
  BY PushFacts DEF FeedInd
<1>2. /\ Seen \subseteq DOMAIN inbox /\ Repeated \subseteq Seen /\ Seen \subseteq Blogs
      /\ Cardinality({}) <= late /\ Cardinality(Repeated) \in Nat
  BY NothingTwice, BlogsFinite DEF FeedInd, CoverInd, ListOK
<1>3. SUFFICES ASSUME ~disturbed' PROVE TwiceOK'
  BY DEF TwiceOK
<1>4. ~disturbed
  BY <1>1, <1>3
<1>5. Cardinality(Repeated') <= late'
  BY <1>1, <1>2, <1>4 DEF FeedInd, TwiceOK
<1>6. ASSUME cursor' # None, \A r \in flight' : ~r.clear
      PROVE  Cardinality(Again(Repeated, Seen, cursor)') <= late'
  <2>1. Cardinality(Repeated \cup (Seen \cap Rest(inbox, cursor))) <= late
    BY <1>1, <1>4, <1>6 DEF FeedInd, TwiceOK, Again
  <2>2. cursor \in Feed!Cursors \ {None} /\ GoodCursor(inbox, cursor)
    BY <1>1, <1>6 DEF Feed!Cursors, FeedInd, CoverInd, CursorOK
  <2>3. ASSUME NEW CONSTANT c, c = cursor
        PROVE  Cardinality(Repeated \cup (Seen \cap Rest(inbox', c))) <= late'
    <3>1. CoverInd /\ Repeated \subseteq Blogs /\ Cardinality(Repeated \cup (Seen \cap Rest(inbox, c))) <= late
      BY <1>2, <2>1, <2>3 DEF FeedInd
    <3> QED BY <1>2, <2>2, <2>3, <3>1, LatePush
  <2>4. Again(Repeated, Seen, cursor)' = Repeated \cup (Seen \cap Rest(inbox', cursor))
    BY <1>1 DEF Again
  <2> QED BY <2>3, <2>4
<1>7. ASSUME NEW CONSTANT r, r \in flight' PROVE AloneOK(r)'
  <2> DEFINE L == r.answer.list
             n == r.answer.next
  <2>1. AloneOK(r) /\ RequestOK(r) /\ r \in flight
    BY <1>1, <1>4, <1>7 DEF FeedInd, TwiceOK, CoverInd, FlightOK
  <2>2. ASSUME r.answer # None, n # None
        PROVE  n \in Feed!Cursors \ {None} /\ GoodCursor(inbox, n) /\ L \subseteq DOMAIN inbox
    BY <2>1, <2>2 DEF Feed!Cursors, RequestOK, AnswerOK
  <2>3. ASSUME r.answer # None, n # None, r.clear PROVE Cardinality(Again({}, L, n)') <= late'
    <3>1. CoverInd /\ Cardinality({} \cup (L \cap Rest(inbox, n))) <= late
      BY <2>1, <2>3 DEF AloneOK, Again, FeedInd
    <3>2. Cardinality({} \cup (L \cap Rest(inbox', n))) <= late'
      BY <2>2, <2>3, <3>1, LatePush
    <3> QED BY <3>2 DEF Again
  <2>4. ASSUME r.answer # None, n # None, ~r.clear
        PROVE  Cardinality(Again(Repeated \cup (L \cap Seen), Seen \cup L, n)') <= late'
    <3> DEFINE U == Repeated \cup (L \cap Seen)
               V == Seen \cup L
    <3>1. CoverInd /\ U \subseteq Blogs /\ V \subseteq DOMAIN inbox
      BY <1>2, <2>2, <2>4 DEF FeedInd
    <3>2. Cardinality(U \cup (V \cap Rest(inbox, n))) <= late
      BY <2>1, <2>4 DEF AloneOK, Again
    <3>3. Again(U, V, n)' = U \cup (V \cap Rest(inbox', n))
      BY <1>1 DEF Again
    <3> HIDE DEF U, V
    <3>4. Cardinality(U \cup (V \cap Rest(inbox', n))) <= late'
      BY <2>2, <2>4, <3>1, <3>2, LatePush
    <3>5. Again(U, V, n)' = Again(Repeated \cup (L \cap Seen), Seen \cup L, n)'
      BY DEF U, V
    <3> QED BY <3>3, <3>4, <3>5
  <2>5. ASSUME r.answer # None, n = None, r.clear PROVE (Seen \cap Rest(inbox, cursor))' = {}
    <3>1. Seen \cap Rest(inbox, cursor) = {} /\ r.at = cursor /\ cursor.offset = 0 /\ GoodCursor(inbox, cursor)
      BY <2>1, <2>5 DEF AloneOK, RequestOK
    <3>2. /\ x \in Nat /\ t \in Nat /\ x \notin DOMAIN inbox /\ inbox' = Pushed(inbox, x, t) /\ Inbox(inbox)
      BY PushFacts DEF FeedInd
    <3>3. Rest(inbox', cursor) \subseteq Rest(inbox, cursor) \cup {x}
      BY <3>1, <3>2, RestAfterPush
    <3> QED BY <1>1, <1>2, <3>1, <3>2, <3>3
  <2>6. r.at = cursor'
    BY <1>1, <2>1 DEF AloneOK
  <2> QED BY <2>3, <2>4, <2>5, <2>6 DEF AloneOK
<1>8. \A r \in flight' : \A q \in flight' : r = q
  BY <1>1, <1>4 DEF FeedInd, TwiceOK
<1> QED BY <1>5, <1>6, <1>7, <1>8 DEF TwiceOK

LEMMA DeleteTwice ==
    ASSUME FeedInd, NEW x \in Blogs, Feed!Delete(x)
    PROVE  TwiceOK'
<1>1. UNCHANGED <<inbox, cursor, flight, shown, disturbed, late>>
  BY DEF Feed!Delete, Feed!clientVars, Feed!listVars
<1> QED BY <1>1, TwiceKept

LEMMA FeedNext == FeedInd /\ [Feed!Next]_feedVars => FeedInd'
<1> SUFFICES ASSUME FeedInd, [Feed!Next]_feedVars PROVE FeedInd'
  OBVIOUS
<1> USE DEF FeedInd
<1>1. ASSUME NEW now \in Clocks, Feed!Refresh(now) PROVE FeedInd'
  BY <1>1, RefreshCover, RefreshTwice
<1>2. CASE Feed!LoadMore
  BY <1>2, LoadMoreCover, LoadMoreTwice
<1>3. ASSUME NEW r \in flight, Feed!Serve(r) PROVE FeedInd'
  BY <1>3, ServeCover, ServeTwice
<1>4. ASSUME NEW r \in flight, Feed!Receive(r) PROVE FeedInd'
  BY <1>4, ReceiveCover, ReceiveTwice
<1>5. ASSUME NEW r \in flight, Feed!Lose(r) PROVE FeedInd'
  BY <1>5, LoseCover, LoseTwice
<1>6. ASSUME NEW x \in Blogs, NEW t \in Times, Feed!Push(x, t) PROVE FeedInd'
  BY <1>6, PushCover, PushTwice
<1>7. ASSUME NEW x \in Blogs, Feed!Delete(x) PROVE FeedInd'
  BY <1>7, DeleteCover, DeleteTwice
<1>8. CASE UNCHANGED feedVars
  <2>1. UNCHANGED <<inbox, cursor, flight, shown, disturbed, late>>
    BY <1>8 DEF feedVars
  <2> QED BY <1>8, <2>1, CoverStays, TwiceKept
<1> QED BY <1>1, <1>2, <1>3, <1>4, <1>5, <1>6, <1>7, <1>8 DEF Feed!Next

\* The feed: whatever is pushed, deleted, lost or overtaken, and whatever the reader's clock
\* shows when he asks from the top, no blog that was in the inbox at the first page, up to the
\* time it was asked for, lies between the list and the cursor as long as the two belong
\* together (a page older than the list has not been appended to it, and the clock has not
\* been put back, since the last answer from the top); no cursor counts more entries than its
\* time has; and a reader whose requests do not overlap sees no blog twice but for pushes of
\* the very millisecond some cursor stands at (queryBlogOfFollow, saveBlog, info.html).
THEOREM FeedInOrder == Feed!Spec => []FeedInv
<1>1. Feed!Spec => Feed!Init /\ [][Feed!Next]_feedVars
  <2>1. UNCHANGED Feed!vars => UNCHANGED feedVars
    BY DEF Feed!vars, Feed!clientVars, Feed!listVars, feedVars
  <2>2. [Feed!Next]_(Feed!vars) => [Feed!Next]_feedVars
    BY <2>1
  <2> QED BY <2>2, PTL DEF Feed!Spec
<1>2. Feed!Init => FeedInd
  BY FeedInit, TwiceInit DEF FeedInd
<1> QED BY <1>1, <1>2, FeedNext, FeedImplied, PTL

\* The pages of the site together, as the run has them: the feed skips nothing of its first
\* inbox while cursor and list belong together, the pages of shops by distance tile the list,
\* and no list of types of shops is cut short.
THEOREM PagesHold == Spec => [](FeedInv /\ GeoInv /\ TypesInv)
<1> DEFINE Ind == FeedInd /\ GeoInd /\ TypesInd
<1>1. Init => Ind
  BY FeedInit, TwiceInit, GeoInit, TypesInit DEF Init, FeedInd
<1>2. Ind /\ [Next]_pageVars => Ind'
  <2>1. [Next]_pageVars => [Feed!Next]_feedVars /\ [Geo!Next]_geoVars /\ [ShopTypes!Next]_typesVars
    BY DEF Next, pageVars
  <2> QED BY <2>1, FeedNext, GeoNext, TypesNext
<1>3. Ind => FeedInv /\ GeoInv /\ TypesInv
  BY FeedImplied, GeoImplied, TypesImplied
<1>4. Spec => Init /\ [][Next]_pageVars
  BY DEF Spec
<1> HIDE DEF Ind
<1> QED BY <1>1, <1>2, <1>3, <1>4, PTL
=================================================================================
