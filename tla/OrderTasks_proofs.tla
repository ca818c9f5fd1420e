----------------------------- MODULE OrderTasks_proofs ----------------------------
(***************************************************************************)
(* The scheduled tasks and the start-up runner, for any number of orders,  *)
(* records, users and faults and pages of any size.                        *)
(***************************************************************************)
EXTENDS MCOrderTasks, OrderLifecycle_proofs, Sequences, FiniteSetTheorems, WellFoundedInduction

--------------------------------------------------------------------------------
(* VoucherPreheat.                                                         *)

\* A voucher that is being created: nothing of it is in Redis, and nobody can buy it.
CreatingOK ==
    /\ hook = "before" <=> dbStock = None
    /\ hook = "hook" => dbStock = VoucherStock
    /\ hook \in {"before", "hook"} =>
         /\ redisStock = None /\ ~meta /\ release = {}
         /\ \A u \in Users : order[u] = "none"

\* Before the metadata there are no reservations, and what the start-up preheat has read
\* holds every buyer there is.
RunnerOK ==
    /\ ~meta => reserved = {} /\ owners = {}
    /\ runner = "script" => amount \in Nat /\ (~meta => Preheat!Active \subseteq buyers)

\* Who holds a unit: a reservation has an owner and no order yet, a closed order waits for its
\* release with the owner it had, and neither user can buy again.
HoldersOK ==
    /\ owners \subseteq Users /\ reserved \subseteq owners
    /\ meta => owners \subseteq qualified
    /\ \A u \in Users :
         /\ u \in reserved => order[u] \in {"none", "CLOSED"} /\ <<u, "reservation">> \notin release
         /\ <<u, "reservation">> \in release => order[u] = "CLOSED" /\ u \in owners
         /\ u \in Preheat!Active /\ u \notin owners => <<u, "nobody">> \notin release

PreheatInd == Preheat!TypeOK /\ Preheat!StockAgrees /\ Preheat!BuyersKept
              /\ CreatingOK /\ RunnerOK /\ HoldersOK

\* The instance counts as its module does.
LEMMA PreheatCardinality == \A S : Preheat!Cardinality(S) = Cardinality(S)
BY DEF Preheat!Cardinality, Cardinality

LEMMA PreheatInit == Preheat!Init => PreheatInd
<1> SUFFICES ASSUME Preheat!Init PROVE PreheatInd
  OBVIOUS
<1> USE TaskAssumption, LifecycleAssumption
<1>1. Cardinality({}) = 0
  BY FS_EmptySet
<1>2. Preheat!TypeOK
  <2>1. meta \in BOOLEAN /\ qualified \in (SUBSET Users) \cup {None}
    BY Zenon DEF Preheat!Init, Preheat!Active
  <2>2. /\ dbStock \in Nat \cup {None} /\ redisStock \in Nat \cup {None}
        /\ order \in [Users -> {"none", "PENDING", "PAID", "CLOSED"}]
        /\ hook \in {"before", "hook", "after"}
    BY DEF Preheat!Init
  <2> QED BY <2>1, <2>2 DEF Preheat!Init, Preheat!TypeOK
<1>3. Preheat!StockAgrees
  BY <1>1, PreheatCardinality DEF Preheat!Init, Preheat!StockAgrees
<1>4. Preheat!BuyersKept /\ CreatingOK /\ RunnerOK /\ HoldersOK
  BY DEF Preheat!Init, Preheat!BuyersKept, CreatingOK, RunnerOK, HoldersOK
<1> QED BY <1>2, <1>3, <1>4 DEF PreheatInd

LEMMA PreheatSizes ==
    ASSUME Preheat!TypeOK
    PROVE  /\ IsFiniteSet(reserved) /\ Cardinality(reserved) \in Nat
           /\ IsFiniteSet(release) /\ Cardinality(release) \in Nat
<1>1. IsFiniteSet(Users \X {"reservation", "nobody"})
  <2>1. IsFiniteSet({"reservation", "nobody"})
    <3>1. {"reservation", "nobody"} = {"reservation"} \cup {"nobody"}
      OBVIOUS
    <3>2. IsFiniteSet({"reservation"})
      BY FS_Singleton
    <3> QED BY <3>1, <3>2, FS_AddElement
  <2> QED BY <2>1, TaskAssumption, FS_Product
<1>2. IsFiniteSet(reserved) /\ IsFiniteSet(release)
  BY <1>1, TaskAssumption, FS_Subset DEF Preheat!TypeOK
<1> QED BY <1>2, FS_CardinalityType

\* The stock of Redis, what is reserved and what is still to be released make up that of MySQL.
StockOK == redisStock # None => redisStock + Cardinality(reserved) + Cardinality(release) = dbStock

LEMMA StockIsOK == Preheat!StockAgrees <=> StockOK
BY PreheatCardinality DEF Preheat!StockAgrees, StockOK

LEMMA CreationSteps ==
    ASSUME PreheatInd,
           Preheat!Create \/ Preheat!AfterCommit \/ Preheat!HookFails \/ Preheat!Restart
    PROVE  PreheatInd'
<1> USE TaskAssumption, LifecycleAssumption
    DEF Preheat!dbVars, Preheat!redisVars, Preheat!readVars
<1>0. StockOK /\ Preheat!TypeOK
  BY StockIsOK DEF PreheatInd
<1>1. CASE Preheat!Create
  <2>1. Preheat!TypeOK'
    BY <1>1 DEF Preheat!Create, PreheatInd, Preheat!TypeOK
  <2>2. Preheat!StockAgrees' /\ Preheat!BuyersKept'
    BY <1>1 DEF Preheat!Create, PreheatInd, CreatingOK, Preheat!StockAgrees, Preheat!BuyersKept
  <2>3. CreatingOK' /\ RunnerOK' /\ HoldersOK'
    BY <1>1 DEF Preheat!Create, PreheatInd, CreatingOK, RunnerOK, HoldersOK, Preheat!Active
  <2> QED BY <2>1, <2>2, <2>3 DEF PreheatInd
<1>2. CASE Preheat!AfterCommit
  <2>1. /\ hook = "hook" /\ hook' = "after" /\ redisStock = None /\ ~meta /\ release = {} /\ reserved = {}
        /\ owners = {} /\ dbStock = VoucherStock /\ Preheat!Active = {}
    BY <1>2 DEF Preheat!AfterCommit, PreheatInd, CreatingOK, RunnerOK, Preheat!Active
  <2>2. /\ redisStock' = VoucherStock /\ meta' = TRUE
        /\ qualified' = IF qualified = None THEN {} ELSE qualified
        /\ UNCHANGED <<dbStock, order, release, owners, reserved, runner, buyers, amount, preheatFaults>>
    BY <1>2, <2>1 DEF Preheat!AfterCommit, Preheat!Preheat, Preheat!Fresh, Preheat!Refused
  <2>3. qualified' \in SUBSET Users
    BY <1>0, <2>2 DEF Preheat!TypeOK
  <2>4. Preheat!TypeOK'
    BY <1>0, <2>1, <2>2, <2>3 DEF Preheat!TypeOK
  <2>5. Cardinality({}) = 0
    BY FS_EmptySet
  <2>6. Preheat!StockAgrees'
    BY <2>1, <2>2, <2>5, PreheatCardinality DEF Preheat!StockAgrees
  <2>7. Preheat!BuyersKept' /\ CreatingOK' /\ RunnerOK' /\ HoldersOK'
    BY <1>0, <2>1, <2>2 DEF PreheatInd, CreatingOK, RunnerOK, HoldersOK, Preheat!BuyersKept, Preheat!Active
  <2> QED BY <2>4, <2>6, <2>7 DEF PreheatInd
<1>3. CASE Preheat!HookFails
  <2>1. Preheat!TypeOK'
    BY <1>3 DEF Preheat!HookFails, Preheat!Fault, PreheatInd, Preheat!TypeOK
  <2>2. Preheat!StockAgrees' /\ Preheat!BuyersKept'
    BY <1>3 DEF Preheat!HookFails, PreheatInd, Preheat!StockAgrees, Preheat!BuyersKept, Preheat!Active
  <2>3. CreatingOK' /\ RunnerOK' /\ HoldersOK'
    BY <1>3 DEF Preheat!HookFails, PreheatInd, CreatingOK, RunnerOK, HoldersOK, Preheat!Active
  <2> QED BY <2>1, <2>2, <2>3 DEF PreheatInd
<1>4. CASE Preheat!Restart
  <2>1. Preheat!TypeOK'
    BY <1>4 DEF Preheat!Restart, PreheatInd, Preheat!TypeOK
  <2>2. Preheat!StockAgrees' /\ Preheat!BuyersKept'
    BY <1>4 DEF Preheat!Restart, PreheatInd, Preheat!StockAgrees, Preheat!BuyersKept, Preheat!Active
  <2>3. CreatingOK' /\ RunnerOK' /\ HoldersOK'
    BY <1>4 DEF Preheat!Restart, PreheatInd, CreatingOK, RunnerOK, HoldersOK, Preheat!Active, Preheat!TypeOK
  <2> QED BY <2>1, <2>2, <2>3 DEF PreheatInd
<1> QED BY <1>1, <1>2, <1>3, <1>4

\* The start-up preheat gives an old voucher its metadata and nothing else, and the buyers it
\* has read are all there are, since nobody can buy before.
LEMMA RunnerSteps ==
    ASSUME PreheatInd, Preheat!RunnerReads \/ Preheat!RunnerScript
    PROVE  PreheatInd'
<1> USE TaskAssumption DEF Preheat!dbVars, Preheat!redisVars, Preheat!readVars
<1>1. CASE Preheat!RunnerReads
  <2>1. Preheat!TypeOK'
    BY <1>1 DEF Preheat!RunnerReads, PreheatInd, Preheat!TypeOK, Preheat!Buyers, Preheat!Active
  <2>2. Preheat!StockAgrees' /\ Preheat!BuyersKept'
    BY <1>1 DEF Preheat!RunnerReads, PreheatInd, Preheat!StockAgrees, Preheat!BuyersKept, Preheat!Active
  <2>3. CreatingOK' /\ HoldersOK'
    BY <1>1 DEF Preheat!RunnerReads, PreheatInd, CreatingOK, HoldersOK, Preheat!Active
  <2>4. RunnerOK'
    BY <1>1 DEF Preheat!RunnerReads, PreheatInd, RunnerOK, Preheat!Buyers, Preheat!Active, Preheat!TypeOK
  <2> QED BY <2>1, <2>2, <2>3, <2>4 DEF PreheatInd
<1>2. CASE Preheat!RunnerScript
  <2>1. CASE meta \/ redisStock = None
    <3>1. UNCHANGED <<redisStock, qualified, meta, dbStock, order, release, owners, reserved, hook, preheatFaults>>
          /\ runner' = "done" /\ buyers' = {} /\ amount' = None
      BY <1>2, <2>1 DEF Preheat!RunnerScript, Preheat!Preheat, Preheat!Refused
    <3>2. Preheat!TypeOK'
      BY <3>1 DEF PreheatInd, Preheat!TypeOK
    <3>3. Preheat!StockAgrees' /\ Preheat!BuyersKept'
      BY <3>1 DEF PreheatInd, Preheat!StockAgrees, Preheat!BuyersKept, Preheat!Active
    <3>4. CreatingOK' /\ RunnerOK' /\ HoldersOK'
      BY <3>1 DEF PreheatInd, CreatingOK, RunnerOK, HoldersOK, Preheat!Active
    <3> QED BY <3>2, <3>3, <3>4 DEF PreheatInd
  <2>2. CASE ~meta /\ redisStock # None
    <3>1. /\ UNCHANGED <<redisStock, dbStock, order, release, owners, reserved, hook, preheatFaults>>
          /\ qualified' = (IF qualified = None THEN {} ELSE qualified) \cup buyers /\ meta' = TRUE
          /\ runner = "script" /\ runner' = "done" /\ buyers' = {} /\ amount' = None
      BY <1>2, <2>2 DEF Preheat!RunnerScript, Preheat!Preheat, Preheat!Refused, Preheat!Fresh
    <3>2. reserved = {} /\ owners = {} /\ Preheat!Active \subseteq buyers
      BY <2>2, <3>1 DEF PreheatInd, RunnerOK
    <3>3. qualified' \in SUBSET Users
      BY <3>1 DEF PreheatInd, Preheat!TypeOK
    <3>4. Preheat!TypeOK'
      BY <2>2, <3>1, <3>3 DEF PreheatInd, Preheat!TypeOK
    <3>5. Preheat!StockAgrees' /\ Preheat!BuyersKept'
      BY <3>1, <3>2 DEF PreheatInd, Preheat!StockAgrees, Preheat!BuyersKept, Preheat!Active
    <3>6. CreatingOK' /\ RunnerOK' /\ HoldersOK'
      BY <2>2, <3>1, <3>2 DEF PreheatInd, CreatingOK, RunnerOK, HoldersOK, Preheat!Active
    <3> QED BY <3>4, <3>5, <3>6 DEF PreheatInd
  <2> QED BY <2>1, <2>2
<1> QED BY <1>1, <1>2

--------------------------------------------------------------------------------
(* The sale of the voucher.                                                *)

\* Nothing is sold, paid or closed before the voucher is created.
LEMMA Created ==
    ASSUME PreheatInd, NEW u \in Users, order[u] # "none" \/ release # {} \/ meta
    PROVE  hook = "after" /\ dbStock \in Nat
BY TaskAssumption DEF PreheatInd, CreatingOK, Preheat!TypeOK

LEMMA ReserveStep ==
    ASSUME PreheatInd, NEW u \in Users, Preheat!Reserve(u)
    PROVE  PreheatInd'
<1> USE DEF Preheat!dbVars, Preheat!redisVars, Preheat!readVars
<1>0. StockOK /\ Preheat!TypeOK /\ IsFiniteSet(reserved) /\ Cardinality(reserved) \in Nat
  BY StockIsOK, PreheatSizes DEF PreheatInd
<1>1. /\ meta /\ redisStock # None /\ qualified # None /\ redisStock > 0 /\ u \notin qualified
      /\ redisStock' = redisStock - 1 /\ qualified' = qualified \cup {u}
      /\ owners' = owners \cup {u} /\ reserved' = reserved \cup {u}
      /\ UNCHANGED <<meta, dbStock, order, release, hook, runner, buyers, amount, preheatFaults>>
  BY DEF Preheat!Reserve
<1>2. u \notin reserved /\ u \notin owners /\ u \notin Preheat!Active
  BY <1>1 DEF PreheatInd, HoldersOK, Preheat!BuyersKept
<1>3. redisStock \in Nat /\ redisStock' \in Nat /\ qualified' \in SUBSET Users
  BY <1>0, <1>1 DEF Preheat!TypeOK
<1>4. Preheat!TypeOK'
  BY <1>0, <1>1, <1>3, TaskAssumption DEF Preheat!TypeOK
<1>5. Cardinality(reserved \cup {u}) = Cardinality(reserved) + 1
  BY <1>0, <1>2, FS_AddElement
<1>6. StockOK'
  BY <1>0, <1>1, <1>3, <1>5 DEF StockOK
<1>7. Preheat!StockAgrees'
  BY <1>6, StockIsOK, PTL
<1>8. Preheat!BuyersKept' /\ CreatingOK' /\ RunnerOK'
  BY <1>1 DEF PreheatInd, Preheat!BuyersKept, CreatingOK, RunnerOK, Preheat!Active
<1>9. HoldersOK'
  BY <1>1, <1>2 DEF PreheatInd, HoldersOK, Preheat!Active, Preheat!TypeOK
<1> QED BY <1>4, <1>7, <1>8, <1>9 DEF PreheatInd

LEMMA OrderStep ==
    ASSUME PreheatInd, NEW u \in Users, Preheat!Order(u)
    PROVE  PreheatInd'
<1> USE DEF Preheat!dbVars, Preheat!redisVars, Preheat!readVars
<1>0. /\ StockOK /\ Preheat!TypeOK /\ IsFiniteSet(reserved) /\ Cardinality(reserved) \in Nat
      /\ Cardinality(release) \in Nat
  BY StockIsOK, PreheatSizes DEF PreheatInd
<1>1. /\ u \in reserved /\ reserved' = reserved \ {u} /\ order' = [order EXCEPT ![u] = "PENDING"]
      /\ dbStock' = dbStock - 1
      /\ UNCHANGED <<redisStock, qualified, meta, release, owners, hook, runner, buyers, amount, preheatFaults>>
  BY DEF Preheat!Order
<1>2. meta /\ redisStock # None /\ u \in qualified /\ u \in owners /\ <<u, "reservation">> \notin release
  BY <1>0, <1>1 DEF PreheatInd, RunnerOK, HoldersOK, Preheat!BuyersKept, Preheat!TypeOK
<1>3. hook = "after" /\ dbStock \in Nat /\ redisStock \in Nat
  BY <1>0, <1>2, Created DEF Preheat!TypeOK
<1>4. Cardinality(reserved \ {u}) = Cardinality(reserved) - 1 /\ Cardinality(reserved \ {u}) \in Nat
  BY <1>0, <1>1, FS_RemoveElement, FS_CardinalityType
<1>5. StockOK' /\ dbStock' \in Nat
  BY <1>0, <1>1, <1>2, <1>3, <1>4 DEF StockOK
<1>6. Preheat!StockAgrees'
  BY <1>5, StockIsOK, PTL
<1>7. Preheat!TypeOK'
  BY <1>0, <1>1, <1>5 DEF Preheat!TypeOK
<1>8. Preheat!BuyersKept' /\ CreatingOK' /\ RunnerOK'
  BY <1>0, <1>1, <1>2, <1>3, <1>5, TaskAssumption
     DEF PreheatInd, Preheat!BuyersKept, CreatingOK, RunnerOK, Preheat!Active, Preheat!TypeOK
<1>9. HoldersOK'
  BY <1>0, <1>1, <1>2 DEF PreheatInd, HoldersOK, Preheat!Active, Preheat!TypeOK
<1> QED BY <1>6, <1>7, <1>8, <1>9 DEF PreheatInd

LEMMA PayStep ==
    ASSUME PreheatInd, NEW u \in Users, Preheat!Pay(u)
    PROVE  PreheatInd'
<1> USE DEF Preheat!dbVars, Preheat!redisVars, Preheat!readVars
<1>0. Preheat!TypeOK /\ hook = "after" /\ dbStock \in Nat
  BY Created DEF PreheatInd, Preheat!Pay
<1>1. /\ order[u] = "PENDING" /\ order' = [order EXCEPT ![u] = "PAID"]
      /\ UNCHANGED <<dbStock, redisStock, qualified, meta, release, owners, reserved, hook, runner, buyers,
                     amount, preheatFaults>>
  BY DEF Preheat!Pay
<1>2. Preheat!Active' = Preheat!Active
  BY <1>0, <1>1 DEF Preheat!Active, Preheat!TypeOK
<1>3. Preheat!TypeOK'
  BY <1>0, <1>1 DEF Preheat!TypeOK
<1>4. Preheat!StockAgrees'
  BY <1>1 DEF PreheatInd, Preheat!StockAgrees
<1>5. Preheat!BuyersKept' /\ CreatingOK' /\ RunnerOK'
  BY <1>0, <1>1, <1>2 DEF PreheatInd, Preheat!BuyersKept, CreatingOK, RunnerOK
<1>6. HoldersOK'
  BY <1>0, <1>1, <1>2 DEF PreheatInd, HoldersOK, Preheat!TypeOK
<1> QED BY <1>3, <1>4, <1>5, <1>6 DEF PreheatInd

LEMMA CloseStep ==
    ASSUME PreheatInd, NEW u \in Users, Preheat!Close(u)
    PROVE  PreheatInd'
<1> USE DEF Preheat!dbVars, Preheat!redisVars, Preheat!readVars
<1> DEFINE entry == <<u, Preheat!Owner(u)>>
<1>0. /\ StockOK /\ Preheat!TypeOK /\ Cardinality(reserved) \in Nat
      /\ IsFiniteSet(release) /\ Cardinality(release) \in Nat
  BY StockIsOK, PreheatSizes DEF PreheatInd
<1>1. /\ order[u] = "PENDING" /\ order' = [order EXCEPT ![u] = "CLOSED"]
      /\ dbStock' = dbStock + 1 /\ release' = release \cup {entry}
      /\ UNCHANGED <<redisStock, qualified, meta, owners, reserved, hook, runner, buyers, amount, preheatFaults>>
  BY DEF Preheat!Close
<1>2. hook = "after" /\ dbStock \in Nat /\ dbStock' \in Nat
  BY <1>1, Created
<1>3. entry \notin release /\ entry \in Users \X {"reservation", "nobody"} /\ u \notin reserved
  BY <1>1 DEF PreheatInd, HoldersOK, Preheat!Active, Preheat!Owner
<1>4. Cardinality(release') = Cardinality(release) + 1
  BY <1>0, <1>1, <1>3, FS_AddElement
<1>5. StockOK'
  BY <1>0, <1>1, <1>2, <1>4 DEF StockOK, Preheat!TypeOK
<1>6. Preheat!StockAgrees'
  BY <1>5, StockIsOK, PTL
<1>7. Preheat!Active' \subseteq Preheat!Active /\ u \notin Preheat!Active'
  BY <1>0, <1>1 DEF Preheat!Active, Preheat!TypeOK
<1>8. Preheat!TypeOK'
  BY <1>0, <1>1, <1>2, <1>3 DEF Preheat!TypeOK
<1>9. Preheat!BuyersKept' /\ CreatingOK' /\ RunnerOK'
  BY <1>0, <1>1, <1>2, <1>7, TaskAssumption
     DEF PreheatInd, Preheat!BuyersKept, CreatingOK, RunnerOK, Preheat!TypeOK
<1>10. HoldersOK'
  <2>1. ASSUME NEW v \in Users, v # u, NEW w \in {"reservation", "nobody"}
        PROVE  order'[v] = order[v] /\ (<<v, w>> \in release' <=> <<v, w>> \in release)
    BY <1>0, <1>1, <2>1 DEF Preheat!TypeOK
  <2>2. order'[u] = "CLOSED" /\ (<<u, "reservation">> \in release' => u \in owners)
    BY <1>0, <1>1 DEF PreheatInd, HoldersOK, Preheat!TypeOK, Preheat!Owner
  <2>3. ASSUME NEW v \in Users
        PROVE  /\ v \in reserved => order'[v] \in {"none", "CLOSED"} /\ <<v, "reservation">> \notin release'
               /\ <<v, "reservation">> \in release' => order'[v] = "CLOSED" /\ v \in owners
               /\ v \in Preheat!Active' /\ v \notin owners => <<v, "nobody">> \notin release'
    BY <1>3, <1>7, <2>1, <2>2 DEF PreheatInd, HoldersOK
  <2> QED BY <1>1, <2>3 DEF PreheatInd, HoldersOK
<1> QED BY <1>6, <1>8, <1>9, <1>10 DEF PreheatInd

LEMMA ReleaseStep ==
    ASSUME PreheatInd, NEW u \in Users, Preheat!Release(u)
    PROVE  PreheatInd'
<1> USE DEF Preheat!dbVars, Preheat!redisVars, Preheat!readVars
<1> DEFINE entry == <<u, Preheat!Owner(u)>>
<1>0. /\ StockOK /\ Preheat!TypeOK /\ Cardinality(reserved) \in Nat
      /\ IsFiniteSet(release) /\ Cardinality(release) \in Nat
  BY StockIsOK, PreheatSizes DEF PreheatInd
<1>1. /\ entry \in release /\ redisStock # None /\ qualified # None
      /\ redisStock' = redisStock + 1 /\ qualified' = qualified \ {u} /\ owners' = owners \ {u}
      /\ release' = release \ {entry}
      /\ UNCHANGED <<meta, dbStock, order, reserved, hook, runner, buyers, amount, preheatFaults>>
  BY DEF Preheat!Release
<1>2. hook = "after" /\ dbStock \in Nat
  BY <1>1, Created
<1>3. u \notin reserved /\ u \notin Preheat!Active /\ <<u, "reservation">> \notin release'
  BY <1>1 DEF PreheatInd, HoldersOK, Preheat!Active, Preheat!Owner
<1>4. Cardinality(release') = Cardinality(release) - 1
  BY <1>0, <1>1, FS_RemoveElement
<1>5. redisStock' \in Nat /\ qualified' \in SUBSET Users /\ redisStock \in Nat
  BY <1>0, <1>1 DEF Preheat!TypeOK
<1>6. StockOK'
  BY <1>0, <1>1, <1>4, <1>5 DEF StockOK
<1>7. Preheat!StockAgrees'
  BY <1>6, StockIsOK, PTL
<1>8. Preheat!TypeOK'
  BY <1>0, <1>1, <1>5, TaskAssumption DEF Preheat!TypeOK
<1>9. Preheat!Active' = Preheat!Active
  BY <1>1 DEF Preheat!Active
<1>10. Preheat!BuyersKept' /\ CreatingOK' /\ RunnerOK'
  BY <1>1, <1>2, <1>3, <1>9, TaskAssumption DEF PreheatInd, Preheat!BuyersKept, CreatingOK, RunnerOK
<1>11. HoldersOK'
  BY <1>1, <1>3, <1>9 DEF PreheatInd, HoldersOK
<1> QED BY <1>7, <1>8, <1>10, <1>11 DEF PreheatInd

LEMMA PreheatNext == PreheatInd /\ [Preheat!Next]_preheatVars => PreheatInd'
<1> SUFFICES ASSUME PreheatInd, [Preheat!Next]_preheatVars PROVE PreheatInd'
  OBVIOUS
<1>1. CASE UNCHANGED preheatVars
  BY <1>1 DEF preheatVars, PreheatInd, Preheat!TypeOK, Preheat!StockAgrees, Preheat!BuyersKept,
              CreatingOK, RunnerOK, HoldersOK, Preheat!Active
<1>2. CASE Preheat!Next
  BY <1>2, CreationSteps, RunnerSteps, ReserveStep, OrderStep, PayStep, CloseStep, ReleaseStep
     DEF Preheat!Next
<1> QED BY <1>1, <1>2

LEMMA PreheatFlat == Preheat!Spec <=> Preheat!Init /\ [][Preheat!Next]_preheatVars
<1>1. [Preheat!Next]_(Preheat!vars) <=> [Preheat!Next]_preheatVars
  BY DEF Preheat!vars, Preheat!dbVars, Preheat!redisVars, Preheat!readVars, preheatVars
<1> QED BY <1>1, PTL DEF Preheat!Spec

\* VoucherPreheat: the preheat after the commit and the one at start-up, in any order and
\* beside a sale that is already running, never offer a unit that MySQL has not, and no buyer
\* of a live order can buy again (seckill_preheat.lua, SeckillPreheatService.run).
THEOREM PreheatCorrect == Preheat!Spec => []PreheatInv
<1>1. PreheatInd => PreheatInv
  BY DEF PreheatInd, PreheatInv
<1> QED BY PreheatInit, PreheatNext, PreheatFlat, <1>1, PTL

--------------------------------------------------------------------------------
(* Lines without repetitions: what removing and inserting does to places.  *)

Members(s)        == {s[i] : i \in DOMAIN s}
Distinct(s)       == \A i \in DOMAIN s : \A j \in DOMAIN s : s[i] = s[j] => i = j
PlaceIn(s, x)     == CHOOSE i \in DOMAIN s : s[i] = x
Removed(s, i)     == SubSeq(s, 1, i - 1) \o SubSeq(s, i + 1, Len(s))
Inserted(s, i, x) == SubSeq(s, 1, i - 1) \o <<x>> \o SubSeq(s, i, Len(s))

LEMMA MemberHasPlace ==
    ASSUME NEW s, NEW x \in Members(s)
    PROVE  PlaceIn(s, x) \in DOMAIN s /\ s[PlaceIn(s, x)] = x
BY DEF Members, PlaceIn

LEMMA PlaceOfElement ==
    ASSUME NEW s, Distinct(s), NEW i \in DOMAIN s
    PROVE  PlaceIn(s, s[i]) = i /\ s[i] \in Members(s)
BY DEF PlaceIn, Distinct, Members

LEMMA JoinedLength ==
    ASSUME NEW S, NEW s \in Seq(S), NEW r \in Seq(S)
    PROVE  s \o r \in Seq(S) /\ Len(s \o r) = Len(s) + Len(r)
OBVIOUS

LEMMA JoinedElements ==
    ASSUME NEW S, NEW s \in Seq(S), NEW r \in Seq(S), NEW j \in 1..(Len(s) + Len(r))
    PROVE  (s \o r)[j] = IF j <= Len(s) THEN s[j] ELSE r[j - Len(s)]
OBVIOUS

LEMMA RemovedElements ==
    ASSUME NEW S, NEW s \in Seq(S), NEW i \in 1..Len(s)
    PROVE  /\ Removed(s, i) \in Seq(S) /\ Len(Removed(s, i)) = Len(s) - 1
           /\ \A j \in 1..(Len(s) - 1) : Removed(s, i)[j] = IF j < i THEN s[j] ELSE s[j + 1]
<1> DEFINE a == SubSeq(s, 1, i - 1)
           b == SubSeq(s, i + 1, Len(s))
<1>1. a \in Seq(S) /\ Len(a) = i - 1 /\ \A j \in 1..(i - 1) : a[j] = s[j]
  OBVIOUS
<1>2. b \in Seq(S) /\ Len(b) = Len(s) - i /\ \A j \in 1..(Len(s) - i) : b[j] = s[i + j]
  OBVIOUS
<1> HIDE DEF a, b
<1>3. a \o b \in Seq(S) /\ Len(a \o b) = Len(s) - 1
  <2>1. a \o b \in Seq(S) /\ Len(a \o b) = Len(a) + Len(b)
    BY <1>1, <1>2, JoinedLength
  <2>2. Len(s) \in Nat /\ (i - 1) + (Len(s) - i) = Len(s) - 1
    OBVIOUS
  <2>3. Len(a) + Len(b) = Len(s) - 1
    BY <1>1, <1>2, <2>2
  <2> QED BY <2>1, <2>3
<1>4. ASSUME NEW j \in 1..(Len(s) - 1) PROVE (a \o b)[j] = IF j < i THEN s[j] ELSE s[j + 1]
  <2>1. CASE j < i
    BY <1>1, <1>2, <2>1
  <2>2. CASE ~(j < i)
    <3>1. j - (i - 1) \in 1..(Len(s) - i) /\ i + (j - (i - 1)) = j + 1
      BY <2>2
    <3>2. (a \o b)[j] = b[j - (i - 1)]
      <4>1. j \in 1..(Len(a) + Len(b)) /\ ~(j <= Len(a)) /\ j - Len(a) = j - (i - 1)
        BY <1>1, <1>2, <2>2
      <4> QED BY <1>1, <1>2, <4>1, JoinedElements
    <3> QED BY <1>2, <2>2, <3>1, <3>2
  <2> QED BY <2>1, <2>2
<1> QED BY <1>3, <1>4 DEF Removed, a, b

LEMMA InsertedElements ==
    ASSUME NEW S, NEW s \in Seq(S), NEW i \in 1..(Len(s) + 1), NEW x \in S
    PROVE  /\ Inserted(s, i, x) \in Seq(S) /\ Len(Inserted(s, i, x)) = Len(s) + 1
           /\ \A j \in 1..(Len(s) + 1) :
                Inserted(s, i, x)[j] = IF j < i THEN s[j] ELSE IF j = i THEN x ELSE s[j - 1]
<1> DEFINE a == SubSeq(s, 1, i - 1)
           b == SubSeq(s, i, Len(s))
           c == a \o <<x>>
<1>1. a \in Seq(S) /\ Len(a) = i - 1 /\ \A j \in 1..(i - 1) : a[j] = s[j]
  OBVIOUS
<1>2. b \in Seq(S) /\ Len(b) = Len(s) + 1 - i /\ \A j \in 1..(Len(s) + 1 - i) : b[j] = s[i + j - 1]
  OBVIOUS
<1> HIDE DEF a, b
<1>3. c \in Seq(S) /\ Len(c) = i /\ \A j \in 1..i : c[j] = IF j < i THEN s[j] ELSE x
  BY <1>1
<1> HIDE DEF c
<1>4. c \o b \in Seq(S) /\ Len(c \o b) = Len(s) + 1
  <2>1. c \o b \in Seq(S) /\ Len(c \o b) = Len(c) + Len(b)
    BY <1>2, <1>3, JoinedLength
  <2>2. Len(s) \in Nat /\ i + (Len(s) + 1 - i) = Len(s) + 1
    OBVIOUS
  <2>3. Len(c) + Len(b) = Len(s) + 1
    BY <1>2, <1>3, <2>2
  <2> QED BY <2>1, <2>3
<1>5. ASSUME NEW j \in 1..(Len(s) + 1)
      PROVE  (c \o b)[j] = IF j < i THEN s[j] ELSE IF j = i THEN x ELSE s[j - 1]
  <2>1. CASE j <= i
    BY <1>2, <1>3, <2>1
  <2>2. CASE ~(j <= i)
    <3>1. j - i \in 1..(Len(s) + 1 - i) /\ i + (j - i) - 1 = j - 1
      BY <2>2
    <3>2. (c \o b)[j] = b[j - i]
      BY <1>2, <1>3, <2>2
    <3> QED BY <1>2, <2>2, <3>1, <3>2
  <2> QED BY <2>1, <2>2
<1> QED BY <1>4, <1>5 DEF Inserted, a, b, c

\* Those behind the removed one move up.
LEMMA RemovedPlaces ==
    ASSUME NEW S, NEW s \in Seq(S), Distinct(s), NEW x \in Members(s)
    PROVE  /\ Removed(s, PlaceIn(s, x)) \in Seq(S)
           /\ Len(Removed(s, PlaceIn(s, x))) = Len(s) - 1
           /\ Distinct(Removed(s, PlaceIn(s, x)))
           /\ Members(Removed(s, PlaceIn(s, x))) = Members(s) \ {x}
           /\ \A y \in Members(s) \ {x} :
                /\ PlaceIn(s, y) # PlaceIn(s, x)
                /\ PlaceIn(Removed(s, PlaceIn(s, x)), y) =
                     IF PlaceIn(s, y) < PlaceIn(s, x) THEN PlaceIn(s, y) ELSE PlaceIn(s, y) - 1
<1> DEFINE k == PlaceIn(s, x)
           r == Removed(s, k)
<1>1. k \in 1..Len(s) /\ s[k] = x
  BY MemberHasPlace
<1> HIDE DEF k
<1>2. /\ r \in Seq(S) /\ Len(r) = Len(s) - 1
      /\ \A j \in 1..(Len(s) - 1) : r[j] = IF j < k THEN s[j] ELSE s[j + 1]
  BY <1>1, RemovedElements
<1> HIDE DEF r
<1>3. DOMAIN s = 1..Len(s) /\ DOMAIN r = 1..(Len(s) - 1)
  BY <1>2
<1>4. Distinct(r)
  <2>1. SUFFICES ASSUME NEW i \in 1..(Len(s) - 1), NEW j \in 1..(Len(s) - 1), r[i] = r[j] PROVE i = j
    BY <1>3 DEF Distinct
  <2> DEFINE was(n) == IF n < k THEN n ELSE n + 1
  <2>2. was(i) \in 1..Len(s) /\ was(j) \in 1..Len(s) /\ r[i] = s[was(i)] /\ r[j] = s[was(j)]
    BY <1>1, <1>2, <2>1
  <2>3. was(i) = was(j)
    <3> HIDE DEF was
    <3> QED BY <1>3, <2>1, <2>2 DEF Distinct
  <2> QED BY <1>1, <2>1, <2>3
<1>5. ASSUME NEW y \in Members(s) \ {x}
      PROVE  /\ PlaceIn(s, y) # k /\ y \in Members(r)
             /\ PlaceIn(r, y) = IF PlaceIn(s, y) < k THEN PlaceIn(s, y) ELSE PlaceIn(s, y) - 1
  <2> DEFINE i == PlaceIn(s, y)
             j == IF i < k THEN i ELSE i - 1
  <2>1. i \in 1..Len(s) /\ s[i] = y
    BY <1>3, MemberHasPlace
  <2> HIDE DEF i
  <2>2. i # k /\ j \in DOMAIN r /\ r[j] = y
    BY <1>1, <1>2, <1>3, <2>1
  <2>3. PlaceIn(r, y) = j /\ y \in Members(r)
    <3> HIDE DEF j
    <3> QED BY <1>4, <2>2, PlaceOfElement
  <2> QED BY <2>2, <2>3 DEF i
<1>6. Members(r) \subseteq Members(s) \ {x}
  BY <1>1, <1>2, <1>3 DEF Members, Distinct
<1> QED BY <1>2, <1>4, <1>5, <1>6 DEF k, r

\* Those from the place of the new one on move down.
LEMMA InsertedPlaces ==
    ASSUME NEW S, NEW s \in Seq(S), Distinct(s), NEW i \in 1..(Len(s) + 1), NEW x \in S, x \notin Members(s)
    PROVE  /\ Inserted(s, i, x) \in Seq(S)
           /\ Len(Inserted(s, i, x)) = Len(s) + 1
           /\ Distinct(Inserted(s, i, x))
           /\ Members(Inserted(s, i, x)) = Members(s) \cup {x}
           /\ \A y \in Members(s) :
                PlaceIn(Inserted(s, i, x), y) = IF PlaceIn(s, y) < i THEN PlaceIn(s, y) ELSE PlaceIn(s, y) + 1
<1> DEFINE r == Inserted(s, i, x)
<1>1. /\ r \in Seq(S) /\ Len(r) = Len(s) + 1
      /\ \A j \in 1..(Len(s) + 1) : r[j] = IF j < i THEN s[j] ELSE IF j = i THEN x ELSE s[j - 1]
  BY InsertedElements
<1> HIDE DEF r
<1>2. DOMAIN s = 1..Len(s) /\ DOMAIN r = 1..(Len(s) + 1)
  BY <1>1
<1>3. \A j \in 1..Len(s) : s[j] # x
  BY <1>2 DEF Members
<1>4. Distinct(r)
  <2>1. SUFFICES ASSUME NEW j \in 1..(Len(s) + 1), NEW k \in 1..(Len(s) + 1), r[j] = r[k]
                 PROVE  j = k
    BY <1>2 DEF Distinct
  <2> DEFINE from(m) == IF m < i THEN m ELSE m - 1
  <2>2. ASSUME NEW m \in 1..(Len(s) + 1), m # i
        PROVE  from(m) \in 1..Len(s) /\ r[m] = s[from(m)]
    BY <1>1, <2>2
  <2>3. r[i] = x
    BY <1>1
  <2>4. (j = i) = (k = i)
    BY <1>3, <2>1, <2>2, <2>3
  <2>5. ASSUME j # i, k # i PROVE from(j) = from(k)
    <3>1. from(j) \in DOMAIN s /\ from(k) \in DOMAIN s /\ s[from(j)] = s[from(k)]
      BY <1>2, <2>1, <2>2, <2>5
    <3> HIDE DEF from
    <3> QED BY <3>1 DEF Distinct
  <2> QED BY <2>4, <2>5
<1>5. ASSUME NEW y \in Members(s)
      PROVE  /\ y \in Members(r)
             /\ PlaceIn(r, y) = IF PlaceIn(s, y) < i THEN PlaceIn(s, y) ELSE PlaceIn(s, y) + 1
  <2> DEFINE k == PlaceIn(s, y)
             j == IF k < i THEN k ELSE k + 1
  <2>1. k \in 1..Len(s) /\ s[k] = y
    BY <1>2, MemberHasPlace
  <2> HIDE DEF k
  <2>2. j \in DOMAIN r /\ r[j] = y
    BY <1>1, <1>2, <2>1
  <2>3. PlaceIn(r, y) = j /\ y \in Members(r)
    <3> HIDE DEF j
    <3> QED BY <1>4, <2>2, PlaceOfElement
  <2> QED BY <2>3 DEF k
<1>6. x \in Members(r)
  BY <1>1, <1>2 DEF Members
<1>7. Members(r) \subseteq Members(s) \cup {x}
  <2>1. ASSUME NEW j \in 1..(Len(s) + 1) PROVE r[j] \in Members(s) \cup {x}
    <3>1. CASE j = i
      BY <1>1, <3>1
    <3>2. CASE j # i
      <4>1. PICK k \in 1..Len(s) : r[j] = s[k]
        <5>1. CASE j < i
          BY <1>1, <5>1
        <5>2. CASE ~(j < i)
          <6>1. j - 1 \in 1..Len(s) /\ r[j] = s[j - 1]
            BY <1>1, <3>2, <5>2
          <6> QED BY <6>1
        <5> QED BY <5>1, <5>2
      <4> QED BY <1>2, <4>1 DEF Members
    <3> QED BY <3>1, <3>2
  <2> QED BY <1>2, <2>1 DEF Members
<1> QED BY <1>1, <1>4, <1>5, <1>6, <1>7 DEF r

LEMMA ClosingSequences ==
    /\ \A s, i : Closing!RemoveAt(s, i) = Removed(s, i)
    /\ \A s, i, x : Closing!InsertAt(s, i, x) = Inserted(s, i, x)
    /\ \A s : Closing!ToSet(s) = Members(s)
    /\ \A s : Closing!IsInjective(s) <=> Distinct(s)
    /\ \A x : Closing!Place(x) = PlaceIn(line, x)
BY DEF Closing!RemoveAt, Closing!InsertAt, Closing!ToSet, Closing!IsInjective, Closing!Place,
       Removed, Inserted, Members, Distinct, PlaceIn

LEMMA RetrySequences ==
    /\ \A s, i : Retry!RemoveAt(s, i) = Removed(s, i)
    /\ \A s : Retry!ToSet(s) = Members(s)
    /\ \A s : Retry!IsInjective(s) <=> Distinct(s)
    /\ \A x : Retry!Place(x) = PlaceIn(queue, x)
BY DEF Retry!RemoveAt, Retry!ToSet, Retry!IsInjective, Retry!Place, Removed, Members, Distinct, PlaceIn

--------------------------------------------------------------------------------
(* CloseScan.                                                              *)

LineOK ==
    /\ line \in Seq(Orders) /\ Distinct(line) /\ overdueOrders \subseteq Members(line)
    /\ after \in 0..Len(line)

BatchOK ==
    /\ batch \in Seq(Orders) /\ Len(batch) <= Page
    /\ \A i \in 1..Len(batch) : batch[i] \in overdueOrders /\ PlaceIn(line, batch[i]) > after

\* The page is in the order of ids, so that a cursor on one of its orders is before the next.
BatchOrdered ==
    \A i \in 1..Len(batch) : \A j \in 1..Len(batch) : i < j => PlaceIn(line, batch[i]) < PlaceIn(line, batch[j])

ClosingInd == LineOK /\ BatchOK /\ BatchOrdered /\ arrived \in 0..MaxOrders /\ closeFaults \in 0..MaxScanFaults

LEMMA ClosingImplied == ClosingInd => Closing!TypeOK /\ Closing!PageAhead
BY ClosingSequences DEF ClosingInd, LineOK, BatchOK, Closing!TypeOK, Closing!PageAhead, Closing!Pending

LEMMA ClosingInit == Closing!Init => ClosingInd
BY TaskAssumption DEF Closing!Init, ClosingInd, LineOK, BatchOK, BatchOrdered, Distinct, Members

\* What is left of the page after its first order.
LEMMA RestOfPage ==
    ASSUME BatchOK, batch # <<>>
    PROVE  /\ Head(batch) = batch[1] /\ 1 \in 1..Len(batch) /\ Tail(batch) \in Seq(Orders)
           /\ Len(Tail(batch)) = Len(batch) - 1
           /\ \A i \in 1..Len(Tail(batch)) : i + 1 \in 1..Len(batch) /\ Tail(batch)[i] = batch[i + 1]
BY DEF BatchOK

LEMMA OrderHasPlace ==
    ASSUME LineOK, NEW x \in Members(line)
    PROVE  PlaceIn(line, x) \in 1..Len(line) /\ line[PlaceIn(line, x)] = x /\ x \in Orders
BY MemberHasPlace DEF LineOK

LEMMA ArriveOrder ==
    ASSUME ClosingInd, NEW x \in Orders, NEW k \in 1..(Len(line) + 1), Closing!Arrive(x, k)
    PROVE  ClosingInd'
<1>1. /\ x \notin Members(line) /\ arrived < MaxOrders /\ arrived' = arrived + 1 /\ line' = Inserted(line, k, x)
      /\ after' = (IF k <= after THEN after + 1 ELSE after)
      /\ UNCHANGED <<overdueOrders, batch, closeFaults>>
  BY ClosingSequences DEF Closing!Arrive, Closing!Pending
<1>2. /\ line' \in Seq(Orders) /\ Len(line') = Len(line) + 1 /\ Distinct(line')
      /\ Members(line') = Members(line) \cup {x}
      /\ \A y \in Members(line) :
            PlaceIn(line', y) = IF PlaceIn(line, y) < k THEN PlaceIn(line, y) ELSE PlaceIn(line, y) + 1
  BY <1>1, InsertedPlaces DEF ClosingInd, LineOK
<1>3. LineOK'
  BY <1>1, <1>2 DEF ClosingInd, LineOK
<1>4. \A y \in Members(line) : PlaceIn(line, y) \in 1..Len(line)
  BY OrderHasPlace DEF ClosingInd
<1>5. \A i \in 1..Len(batch) : batch[i] \in Members(line)
  BY DEF ClosingInd, LineOK, BatchOK
<1>6. BatchOK'
  <2>1. SUFFICES ASSUME NEW i \in 1..Len(batch) PROVE PlaceIn(line', batch[i]) > after'
    BY <1>1 DEF ClosingInd, BatchOK
  <2>2. PlaceIn(line, batch[i]) > after /\ after \in Nat /\ PlaceIn(line, batch[i]) \in Nat
    BY <1>4, <1>5 DEF ClosingInd, LineOK, BatchOK
  <2>3. PlaceIn(line', batch[i]) = IF PlaceIn(line, batch[i]) < k THEN PlaceIn(line, batch[i]) ELSE PlaceIn(line, batch[i]) + 1
    BY <1>2, <1>5
  <2> QED BY <1>1, <2>2, <2>3
<1>7. BatchOrdered'
  <2>1. SUFFICES ASSUME NEW i \in 1..Len(batch), NEW j \in 1..Len(batch), i < j
                 PROVE  PlaceIn(line', batch[i]) < PlaceIn(line', batch[j])
    BY <1>1 DEF BatchOrdered
  <2>2. /\ PlaceIn(line, batch[i]) < PlaceIn(line, batch[j])
        /\ batch[i] \in Members(line) /\ batch[j] \in Members(line)
    BY <1>5, <2>1 DEF ClosingInd, BatchOrdered
  <2>3. PlaceIn(line, batch[i]) \in 1..Len(line) /\ PlaceIn(line, batch[j]) \in 1..Len(line) /\ k \in Int
    BY <1>1, <1>4, <2>2 DEF ClosingInd, LineOK
  <2> QED BY <1>2, <2>2, <2>3
<1>8. arrived' \in 0..MaxOrders /\ closeFaults' \in 0..MaxScanFaults
  BY <1>1, TaskAssumption DEF ClosingInd
<1> QED BY <1>3, <1>6, <1>7, <1>8 DEF ClosingInd

LEMMA ExpireOrder ==
    ASSUME ClosingInd, NEW x \in Orders, Closing!Expire(x)
    PROVE  ClosingInd'
BY ClosingSequences DEF Closing!Expire, Closing!Pending, ClosingInd, LineOK, BatchOK, BatchOrdered

LEMMA PayOrder ==
    ASSUME ClosingInd, NEW x \in Orders, Closing!Pay(x)
    PROVE  ClosingInd'
<1>1. /\ x \in Members(line) \ overdueOrders /\ line' = Removed(line, PlaceIn(line, x))
      /\ after' = (IF PlaceIn(line, x) <= after THEN after - 1 ELSE after)
      /\ UNCHANGED <<overdueOrders, batch, arrived, closeFaults>>
  BY ClosingSequences DEF Closing!Pay, Closing!Pending
<1>2. /\ line' \in Seq(Orders) /\ Len(line') = Len(line) - 1 /\ Distinct(line')
      /\ Members(line') = Members(line) \ {x}
      /\ \A y \in Members(line) \ {x} :
            /\ PlaceIn(line, y) # PlaceIn(line, x)
            /\ PlaceIn(line', y) =
                 IF PlaceIn(line, y) < PlaceIn(line, x) THEN PlaceIn(line, y) ELSE PlaceIn(line, y) - 1
  BY <1>1, RemovedPlaces DEF ClosingInd, LineOK
<1>3. \A y \in Members(line) : PlaceIn(line, y) \in 1..Len(line)
  BY OrderHasPlace DEF ClosingInd
<1>4. LineOK'
  <2>1. PlaceIn(line, x) \in 1..Len(line) /\ after \in 0..Len(line)
    BY <1>1, <1>3 DEF ClosingInd, LineOK
  <2>2. after' \in 0..Len(line')
    BY <1>1, <1>2, <2>1
  <2> QED BY <1>1, <1>2, <2>2 DEF ClosingInd, LineOK
<1>5. \A i \in 1..Len(batch) : batch[i] \in Members(line) \ {x}
  BY <1>1 DEF ClosingInd, LineOK, BatchOK
<1>6. BatchOK'
  <2>1. SUFFICES ASSUME NEW i \in 1..Len(batch) PROVE PlaceIn(line', batch[i]) > after'
    BY <1>1 DEF ClosingInd, BatchOK
  <2>2. /\ PlaceIn(line, batch[i]) > after /\ after \in Nat /\ PlaceIn(line, batch[i]) \in Nat
        /\ PlaceIn(line, x) \in Nat
    BY <1>1, <1>3, <1>5 DEF ClosingInd, LineOK, BatchOK
  <2>3. /\ PlaceIn(line, batch[i]) # PlaceIn(line, x)
        /\ PlaceIn(line', batch[i]) = IF PlaceIn(line, batch[i]) < PlaceIn(line, x)
                                      THEN PlaceIn(line, batch[i]) ELSE PlaceIn(line, batch[i]) - 1
    BY <1>2, <1>5
  <2> QED BY <1>1, <2>2, <2>3
<1>7. BatchOrdered'
  <2>1. SUFFICES ASSUME NEW i \in 1..Len(batch), NEW j \in 1..Len(batch), i < j
                 PROVE  PlaceIn(line', batch[i]) < PlaceIn(line', batch[j])
    BY <1>1 DEF BatchOrdered
  <2>2. PlaceIn(line, batch[i]) < PlaceIn(line, batch[j])
    BY <2>1 DEF ClosingInd, BatchOrdered
  <2>3. PlaceIn(line, batch[i]) \in Nat /\ PlaceIn(line, batch[j]) \in Nat /\ PlaceIn(line, x) \in Nat
    BY <1>1, <1>3, <1>5
  <2> QED BY <1>2, <1>5, <2>2, <2>3
<1> QED BY <1>1, <1>4, <1>6, <1>7 DEF ClosingInd

LEMMA CloseOrder ==
    ASSUME ClosingInd, Closing!Close
    PROVE  ClosingInd'
<1> DEFINE x == batch[1]
           k == PlaceIn(line, x)
<1>1. /\ Head(batch) = x /\ 1 \in 1..Len(batch) /\ Tail(batch) \in Seq(Orders)
      /\ Len(Tail(batch)) = Len(batch) - 1
      /\ \A i \in 1..Len(Tail(batch)) : i + 1 \in 1..Len(batch) /\ Tail(batch)[i] = batch[i + 1]
  BY RestOfPage DEF ClosingInd, Closing!Close
<1>2. /\ line' = Removed(line, k) /\ overdueOrders' = overdueOrders \ {x} /\ after' = k - 1
      /\ batch' = Tail(batch) /\ UNCHANGED <<arrived, closeFaults>>
  BY <1>1, ClosingSequences DEF Closing!Close
<1>3. x \in Members(line) /\ \A i \in 1..Len(batch) : batch[i] \in Members(line) /\ batch[i] \in overdueOrders
  BY <1>1 DEF ClosingInd, LineOK, BatchOK
<1>4. /\ line' \in Seq(Orders) /\ Len(line') = Len(line) - 1 /\ Distinct(line')
      /\ Members(line') = Members(line) \ {x}
      /\ \A y \in Members(line) \ {x} :
            PlaceIn(line', y) = IF PlaceIn(line, y) < k THEN PlaceIn(line, y) ELSE PlaceIn(line, y) - 1
  <2>1. line \in Seq(Orders) /\ Distinct(line)
    BY DEF ClosingInd, LineOK
  <2> QED BY <1>2, <1>3, <2>1, RemovedPlaces, Zenon
<1>5. \A y \in Members(line) : PlaceIn(line, y) \in 1..Len(line)
  BY OrderHasPlace DEF ClosingInd
<1>6. k \in 1..Len(line) /\ Len(line) \in Nat
  BY <1>3, <1>5 DEF ClosingInd, LineOK
<1>7. LineOK'
  BY <1>2, <1>4, <1>6 DEF ClosingInd, LineOK
<1>8. ASSUME NEW i \in 2..Len(batch)
      PROVE  batch[i] \in Members(line) \ {x} /\ PlaceIn(line', batch[i]) = PlaceIn(line, batch[i]) - 1
             /\ PlaceIn(line, batch[i]) > k /\ PlaceIn(line, batch[i]) \in Nat
  <2>1. k < PlaceIn(line, batch[i]) /\ batch[i] \in Members(line)
    BY <1>1, <1>3 DEF ClosingInd, BatchOrdered
  <2>2. batch[i] # x /\ PlaceIn(line, batch[i]) \in Nat
    BY <1>5, <1>6, <2>1
  <2> QED BY <1>4, <1>6, <2>1, <2>2
<1>9. BatchOK'
  <2>1. Len(batch') <= Page
    BY <1>1, <1>2, TaskAssumption DEF ClosingInd, BatchOK
  <2>2. SUFFICES ASSUME NEW i \in 1..Len(batch')
                 PROVE  batch'[i] \in overdueOrders' /\ PlaceIn(line', batch'[i]) > after'
    BY <1>1, <1>2, <2>1 DEF BatchOK
  <2>3. batch'[i] = batch[i + 1] /\ i + 1 \in 2..Len(batch)
    BY <1>1, <1>2
  <2> QED BY <1>2, <1>3, <1>6, <1>8, <2>3
<1>10. BatchOrdered'
  <2>1. SUFFICES ASSUME NEW i \in 1..Len(batch'), NEW j \in 1..Len(batch'), i < j
                 PROVE  PlaceIn(line', batch'[i]) < PlaceIn(line', batch'[j])
    BY DEF BatchOrdered
  <2>2. /\ batch'[i] = batch[i + 1] /\ i + 1 \in 2..Len(batch)
        /\ batch'[j] = batch[j + 1] /\ j + 1 \in 2..Len(batch)
    BY <1>1, <1>2
  <2>3. PlaceIn(line, batch[i + 1]) < PlaceIn(line, batch[j + 1])
    BY <2>1, <2>2 DEF ClosingInd, BatchOrdered
  <2> QED BY <1>8, <2>2, <2>3
<1> QED BY <1>2, <1>7, <1>9, <1>10 DEF ClosingInd

LEMMA CloseOrderFails ==
    ASSUME ClosingInd, Closing!CloseFails
    PROVE  ClosingInd'
<1> DEFINE x == batch[1]
           k == PlaceIn(line, x)
<1>1. /\ Head(batch) = x /\ 1 \in 1..Len(batch) /\ Tail(batch) \in Seq(Orders)
      /\ Len(Tail(batch)) = Len(batch) - 1
      /\ \A i \in 1..Len(Tail(batch)) : i + 1 \in 1..Len(batch) /\ Tail(batch)[i] = batch[i + 1]
  BY RestOfPage DEF ClosingInd, Closing!CloseFails
<1>2. /\ after' = k /\ batch' = Tail(batch) /\ UNCHANGED <<line, overdueOrders, arrived>>
      /\ closeFaults' = closeFaults \/ (closeFaults < MaxScanFaults /\ closeFaults' = closeFaults + 1)
  BY <1>1, ClosingSequences DEF Closing!CloseFails, Closing!MovePast, Closing!Fault
<1>3. x \in Members(line)
  BY <1>1 DEF ClosingInd, LineOK, BatchOK
<1>4. k \in 1..Len(line)
  BY <1>3, OrderHasPlace DEF ClosingInd
<1>5. LineOK'
  BY <1>2, <1>4 DEF ClosingInd, LineOK
<1>6. Len(batch') <= Page /\ closeFaults' \in 0..MaxScanFaults
  BY <1>1, <1>2, TaskAssumption DEF ClosingInd, BatchOK
<1>7. BatchOK'
  BY <1>1, <1>2, <1>6 DEF ClosingInd, BatchOK, BatchOrdered
<1>8. BatchOrdered'
  BY <1>1, <1>2 DEF ClosingInd, BatchOrdered
<1> QED BY <1>2, <1>5, <1>6, <1>7, <1>8 DEF ClosingInd

LEMMA RestartTask ==
    ASSUME ClosingInd, Closing!RestartProcess
    PROVE  ClosingInd'
BY TaskAssumption DEF Closing!RestartProcess, Closing!Fault, ClosingInd, LineOK, BatchOK, BatchOrdered

\* A set of numbers has a smallest one.
LEMMA SmallestMember ==
    ASSUME NEW S, S \subseteq Nat, S # {}
    PROVE  \E m \in S : \A n \in S : m <= n
<1> DEFINE R == {ss \in Nat \X Nat : ss[1] < ss[2]}
<1>1. R = OpToRel(<, Nat)
  BY DEF OpToRel
<1>2. IsWellFoundedOn(R, Nat)
  BY <1>1, NatLessThanWellFounded
<1>3. PICK m \in S : \A n \in S : <<n, m>> \notin R
  <2> HIDE DEF R
  <2> QED BY <1>2, WFMin
<1>4. \A n \in S : ~(n < m)
  BY <1>3
<1> QED BY <1>4

\* f gives the page that the orders up to the i-th make, for every i from the cursor to n.
Found(f, n) ==
    f = [i \in after..n |->
          IF i = after THEN <<>>
          ELSE IF line[i] \in overdueOrders /\ Len(f[i - 1]) < Page THEN Append(f[i - 1], line[i])
          ELSE f[i - 1]]

\* The recursive definition of ExpiredAfter defines something.
LEMMA FoundExists ==
    ASSUME LineOK, NEW n \in after..Len(line)
    PROVE  \E f : Found(f, n)
<1> DEFINE Bad == {k \in Nat : k >= after /\ ~ \E f : Found(f, k)}
<1>0. after \in Nat /\ n \in Nat /\ n >= after
  BY DEF LineOK
<1>1. SUFFICES ASSUME Bad # {} PROVE FALSE
  BY <1>0
<1>2. PICK m \in Bad : \A k \in Bad : m <= k
  <2>1. Bad \subseteq Nat
    OBVIOUS
  <2> HIDE DEF Bad
  <2> QED BY <1>1, <2>1, SmallestMember
<1>3. m # after
  <2>1. Found([i \in after..after |-> <<>>], after)
    <3>1. \A i \in after..after : i = after
      BY <1>0
    <3> QED BY <3>1 DEF Found
  <2> QED BY <2>1
<1>4. m - 1 \in Nat /\ m - 1 >= after /\ m \in Nat /\ m - 1 \notin Bad
  BY <1>0, <1>2, <1>3
<1>5. PICK f : Found(f, m - 1)
  BY <1>4
<1> DEFINE last == IF line[m] \in overdueOrders /\ Len(f[m - 1]) < Page THEN Append(f[m - 1], line[m]) ELSE f[m - 1]
           g == [i \in after..m |-> IF i = m THEN last ELSE f[i]]
<1>6. \A i \in after..m : i # m => i \in after..(m - 1) /\ (i # after => i - 1 \in after..(m - 1))
  BY <1>0, <1>4
<1>7. \A i \in after..(m - 1) : g[i] = f[i]
  BY <1>0, <1>4
<1>8. ASSUME NEW i \in after..m
      PROVE  g[i] = IF i = after THEN <<>>
                    ELSE IF line[i] \in overdueOrders /\ Len(g[i - 1]) < Page THEN Append(g[i - 1], line[i])
                    ELSE g[i - 1]
  <2>1. CASE i = m
    <3>1. g[i] = last /\ m - 1 \in after..(m - 1)
      BY <1>0, <1>4, <2>1
    <3>2. g[i - 1] = f[m - 1]
      BY <1>7, <2>1, <3>1
    <3> HIDE DEF g
    <3> QED BY <1>3, <2>1, <3>1, <3>2
  <2>2. CASE i # m
    <3>1. g[i] = f[i] /\ (i # after => g[i - 1] = f[i - 1])
      BY <1>6, <1>7, <2>2
    <3>2. f[i] = IF i = after THEN <<>>
                 ELSE IF line[i] \in overdueOrders /\ Len(f[i - 1]) < Page THEN Append(f[i - 1], line[i])
                 ELSE f[i - 1]
      BY <1>5, <1>6, <2>2 DEF Found
    <3> HIDE DEF g
    <3> QED BY <3>1, <3>2
  <2> QED BY <2>1, <2>2
<1>9. Found(g, m)
  <2>1. g = [i \in after..m |-> g[i]]
    OBVIOUS
  <2> HIDE DEF g
  <2> QED BY <1>8, <2>1 DEF Found
<1> QED BY <1>2, <1>9

\* A page: expired orders behind the cursor and up to the i-th, by id.
PageUpTo(p, i) ==
    /\ p \in Seq(Orders) /\ Len(p) <= Page
    /\ \A j \in 1..Len(p) : p[j] \in overdueOrders /\ PlaceIn(line, p[j]) \in (after + 1)..i
    /\ \A j \in 1..Len(p) : \A k \in 1..Len(p) : j < k => PlaceIn(line, p[j]) < PlaceIn(line, p[k])

LEMMA OneMore ==
    ASSUME LineOK, NEW i \in (after + 1)..Len(line), NEW p, PageUpTo(p, i - 1)
    PROVE  PageUpTo(IF line[i] \in overdueOrders /\ Len(p) < Page THEN Append(p, line[i]) ELSE p, i)
<1>0. after \in Nat /\ i \in Nat /\ i \in 1..Len(line) /\ i - 1 < i /\ after < i
  BY DEF LineOK
<1>1. CASE line[i] \in overdueOrders /\ Len(p) < Page
  <2> DEFINE q == Append(p, line[i])
  <2>1. line[i] \in Orders /\ PlaceIn(line, line[i]) = i
    BY <1>0, PlaceOfElement DEF LineOK
  <2>2. /\ q \in Seq(Orders) /\ Len(q) = Len(p) + 1 /\ q[Len(p) + 1] = line[i]
        /\ \A j \in 1..Len(p) : q[j] = p[j]
    BY <2>1 DEF PageUpTo
  <2> HIDE DEF q
  <2>3. ASSUME NEW j \in 1..Len(q)
        PROVE  /\ q[j] \in overdueOrders /\ PlaceIn(line, q[j]) \in (after + 1)..i
               /\ j # Len(q) => j \in 1..Len(p) /\ q[j] = p[j] /\ PlaceIn(line, q[j]) < i
               /\ j = Len(q) => PlaceIn(line, q[j]) = i
    <3>1. CASE j = Len(q)
      BY <1>0, <1>1, <2>1, <2>2, <3>1 DEF PageUpTo
    <3>2. CASE j # Len(q)
      <4>1. j \in 1..Len(p) /\ q[j] = p[j]
        BY <2>2, <3>2 DEF PageUpTo
      <4>2. PlaceIn(line, q[j]) \in (after + 1)..(i - 1) /\ q[j] \in overdueOrders
        BY <4>1 DEF PageUpTo
      <4> QED BY <1>0, <3>2, <4>1, <4>2
    <3> QED BY <3>1, <3>2
  <2>4. ASSUME NEW j \in 1..Len(q), NEW k \in 1..Len(q), j < k
        PROVE  PlaceIn(line, q[j]) < PlaceIn(line, q[k])
    <3>1. j # Len(q)
      BY <2>2, <2>4
    <3>2. CASE k = Len(q)
      BY <2>3, <3>1, <3>2
    <3>3. CASE k # Len(q)
      BY <2>3, <2>4, <3>1, <3>3 DEF PageUpTo
    <3> QED BY <3>2, <3>3
  <2>5. Len(q) <= Page
    BY <1>1, <2>2, TaskAssumption DEF PageUpTo
  <2>6. PageUpTo(q, i)
    BY <2>2, <2>3, <2>4, <2>5 DEF PageUpTo
  <2> QED BY <1>1, <2>6 DEF q
<1>2. CASE ~(line[i] \in overdueOrders /\ Len(p) < Page)
  <2>1. \A n \in (after + 1)..(i - 1) : n \in (after + 1)..i
    BY <1>0
  <2>2. PageUpTo(p, i)
    BY <2>1 DEF PageUpTo
  <2> QED BY <1>2, <2>2
<1> QED BY <1>1, <1>2

LEMMA ExpiredAfterIsPage ==
    ASSUME LineOK
    PROVE  PageUpTo(Closing!ExpiredAfter, Len(line))
<1>0. after \in Nat /\ Len(line) \in Nat /\ Len(line) \in after..Len(line)
  BY DEF LineOK
<1> DEFINE f == CHOOSE g : Found(g, Len(line))
           Bad == {k \in Nat : k \in after..Len(line) /\ ~PageUpTo(f[k], k)}
<1>1. Found(f, Len(line))
  BY <1>0, FoundExists
<1>2. Closing!ExpiredAfter = f[Len(line)]
  BY DEF Closing!ExpiredAfter, Found
<1> HIDE DEF f
<1>3. SUFFICES ASSUME Bad # {} PROVE FALSE
  BY <1>0, <1>2
<1>4. PICK m \in Bad : \A k \in Bad : m <= k
  <2>1. Bad \subseteq Nat
    OBVIOUS
  <2> HIDE DEF Bad
  <2> QED BY <1>3, <2>1, SmallestMember
<1>5. m \in after..Len(line) /\ ~PageUpTo(f[m], m)
  BY <1>4
<1>6. f[m] = IF m = after THEN <<>>
             ELSE IF line[m] \in overdueOrders /\ Len(f[m - 1]) < Page THEN Append(f[m - 1], line[m])
             ELSE f[m - 1]
  BY <1>1, <1>5 DEF Found
<1>7. m # after
  <2>1. PageUpTo(<<>>, m)
    BY TaskAssumption DEF PageUpTo
  <2> QED BY <1>5, <1>6, <2>1
<1>8. m - 1 \in Nat /\ m - 1 \in after..Len(line) /\ m \in (after + 1)..Len(line) /\ m - 1 \notin Bad
  BY <1>0, <1>4, <1>5, <1>7
<1>9. PageUpTo(f[m - 1], m - 1)
  BY <1>8
<1> QED BY <1>5, <1>6, <1>7, <1>8, <1>9, OneMore

LEMMA ScanOrders ==
    ASSUME ClosingInd, Closing!Scan
    PROVE  ClosingInd'
<1>1. PageUpTo(Closing!ExpiredAfter, Len(line)) /\ after \in Nat /\ Len(line) \in Nat
  BY ExpiredAfterIsPage DEF ClosingInd, LineOK
<1>2. /\ batch' = Closing!ExpiredAfter /\ UNCHANGED <<line, overdueOrders, arrived, closeFaults>>
      /\ after' = IF batch' = <<>> THEN 0 ELSE after
  BY DEF Closing!Scan, Closing!Restart
<1>3. PageUpTo(batch', Len(line))
  BY <1>1, <1>2
<1>4. LineOK'
  BY <1>1, <1>2 DEF ClosingInd, LineOK
<1>5. BatchOK'
  BY <1>1, <1>2, <1>3 DEF PageUpTo, BatchOK
<1>6. BatchOrdered'
  BY <1>2, <1>3 DEF PageUpTo, BatchOrdered
<1> QED BY <1>2, <1>4, <1>5, <1>6 DEF ClosingInd

LEMMA ClosingNext == ClosingInd /\ [Closing!Next]_closingVars => ClosingInd'
<1> SUFFICES ASSUME ClosingInd, [Closing!Next]_closingVars PROVE ClosingInd'
  OBVIOUS
<1>1. CASE UNCHANGED closingVars
  BY <1>1 DEF closingVars, ClosingInd, LineOK, BatchOK, BatchOrdered
<1>2. CASE Closing!Next
  BY <1>2, ArriveOrder, ExpireOrder, PayOrder, ScanOrders, CloseOrder, CloseOrderFails, RestartTask
     DEF Closing!Next
<1> QED BY <1>1, <1>2

\* CloseScan: the task works through a page in the order of ids, and its cursor never passes
\* an order of the page that it has not tried, although orders are inserted below the cursor,
\* paid beside it and fail to be closed (OrderCloseTask.scan).
THEOREM CursorBehindPage == Closing!Spec => [](Closing!TypeOK /\ Closing!PageAhead)
<1>1. Closing!Spec => Closing!Init /\ [][Closing!Next]_closingVars
  BY DEF Closing!Spec, Closing!vars, closingVars
<1> QED BY <1>1, ClosingInit, ClosingNext, ClosingImplied, PTL

--------------------------------------------------------------------------------
(* RetryScan.                                                              *)

QueueOK == queue \in Seq(Records) /\ Distinct(queue) /\ overdue \in 0..Len(queue)

RetryInd == QueueOK /\ page \in Seq(Records) /\ Len(page) <= Page /\ retryFaults \in 0..MaxScanFaults

LEMMA RetryImplied == RetryInd => Retry!TypeOK
BY RetrySequences DEF RetryInd, QueueOK, Retry!TypeOK

LEMMA RetryInit == Retry!Init => RetryInd
BY TaskAssumption DEF Retry!Init, RetryInd, QueueOK, Distinct

\* A record leaves the queue; the overdue ones among the others are still a prefix of it.
LEMMA RecordLeaves ==
    ASSUME QueueOK, NEW x \in Members(queue)
    PROVE  /\ Retry!Without(x) = Removed(queue, PlaceIn(queue, x))
           /\ Retry!Without(x) \in Seq(Records) /\ Len(Retry!Without(x)) = Len(queue) - 1
           /\ Distinct(Retry!Without(x)) /\ Members(Retry!Without(x)) = Members(queue) \ {x}
           /\ Retry!OverdueWithout(x) \in 0..(Len(queue) - 1) /\ x \in Records
<1>1. Retry!Without(x) = Removed(queue, PlaceIn(queue, x))
  BY RetrySequences DEF Retry!Without
<1>2. PlaceIn(queue, x) \in 1..Len(queue) /\ x \in Records
  BY MemberHasPlace DEF QueueOK
<1>3. Retry!OverdueWithout(x) = IF PlaceIn(queue, x) <= overdue THEN overdue - 1 ELSE overdue
  BY RetrySequences DEF Retry!OverdueWithout, Retry!Pending
<1>4. Retry!OverdueWithout(x) \in 0..(Len(queue) - 1)
  BY <1>2, <1>3 DEF QueueOK
<1> QED BY <1>1, <1>2, <1>4, RemovedPlaces DEF QueueOK

\* It may come back behind the others.
LEMMA RecordBehind ==
    ASSUME QueueOK, NEW x \in Members(queue)
    PROVE  /\ Append(Retry!Without(x), x) \in Seq(Records) /\ Len(Append(Retry!Without(x), x)) = Len(queue)
           /\ Distinct(Append(Retry!Without(x), x)) /\ Members(Append(Retry!Without(x), x)) = Members(queue)
<1> DEFINE s == Retry!Without(x)
           r == Append(s, x)
<1>1. s \in Seq(Records) /\ Len(s) = Len(queue) - 1 /\ Distinct(s) /\ Members(s) = Members(queue) \ {x} /\ x \in Records
  BY RecordLeaves
<1> HIDE DEF s
<1>2. r \in Seq(Records) /\ Len(r) = Len(s) + 1 /\ r[Len(s) + 1] = x /\ \A i \in 1..Len(s) : r[i] = s[i]
  BY <1>1
<1> HIDE DEF r
<1>3. DOMAIN s = 1..Len(s) /\ DOMAIN r = 1..(Len(s) + 1) /\ Len(queue) \in Nat
  BY <1>1, <1>2 DEF QueueOK
<1>4. \A i \in 1..Len(s) : s[i] # x
  BY <1>1, <1>3 DEF Members
<1>5. Distinct(r)
  BY <1>1, <1>2, <1>3, <1>4 DEF Distinct
<1>6. Members(r) = Members(s) \cup {x}
  BY <1>2, <1>3 DEF Members
<1>7. Len(r) = Len(queue)
  BY <1>1, <1>2, <1>3
<1> QED BY <1>1, <1>2, <1>5, <1>6, <1>7 DEF r, s

LEMMA ArriveRecord ==
    ASSUME RetryInd, NEW x \in Records, Retry!Arrive(x)
    PROVE  RetryInd' /\ page' = page
<1>1. x \notin Members(queue) /\ queue' = Append(queue, x) /\ UNCHANGED <<overdue, page, retryFaults>>
  BY RetrySequences DEF Retry!Arrive, Retry!Pending
<1>2. /\ queue' \in Seq(Records) /\ Len(queue') = Len(queue) + 1 /\ queue'[Len(queue) + 1] = x
      /\ \A i \in 1..Len(queue) : queue'[i] = queue[i]
  BY <1>1 DEF RetryInd, QueueOK
<1>3. \A i \in 1..Len(queue) : queue[i] # x
  BY <1>1 DEF Members, RetryInd, QueueOK
<1>4. Distinct(queue')
  <2>1. Len(queue) \in Nat /\ DOMAIN queue = 1..Len(queue) /\ DOMAIN queue' = 1..(Len(queue) + 1)
    BY <1>2 DEF RetryInd, QueueOK
  <2> QED BY <1>2, <1>3, <2>1 DEF Distinct, RetryInd, QueueOK
<1> QED BY <1>1, <1>2, <1>4 DEF RetryInd, QueueOK

LEMMA SettleRecord ==
    ASSUME RetryInd, NEW x, x \in Members(queue), queue' = Retry!Without(x), overdue' = Retry!OverdueWithout(x),
           page' = page \/ (page # <<>> /\ page' = Tail(page)), UNCHANGED retryFaults
    PROVE  RetryInd' /\ Members(queue') \subseteq Members(queue)
<1>1. QueueOK' /\ Members(queue') \subseteq Members(queue)
  BY RecordLeaves DEF RetryInd, QueueOK
<1>2. page' \in Seq(Records) /\ Len(page') <= Page
  BY TaskAssumption DEF RetryInd
<1> QED BY <1>1, <1>2 DEF RetryInd

LEMMA FailRecord ==
    ASSUME RetryInd, Retry!Fail
    PROVE  RetryInd' /\ Members(queue') \subseteq Members(queue)
<1> DEFINE x == Head(page)
<1>1. /\ page # <<>> /\ page' = Tail(page)
      /\ queue' = Retry!Deferred(x) /\ overdue' = (IF queue' = queue THEN overdue ELSE Retry!OverdueWithout(x))
  BY DEF Retry!Fail
<1>2. page' \in Seq(Records) /\ Len(page') <= Page
  BY <1>1, TaskAssumption DEF RetryInd
<1>3. retryFaults' \in 0..MaxScanFaults
  BY TaskAssumption DEF RetryInd, Retry!Fail
<1>4. QueueOK' /\ Members(queue') \subseteq Members(queue)
  <2>1. CASE x \in Members(queue)
    <3>1. queue' = Append(Retry!Without(x), x)
      BY <1>1, <2>1, RetrySequences DEF Retry!Deferred, Retry!Pending
    <3>2. queue' \in Seq(Records) /\ Len(queue') = Len(queue) /\ Distinct(queue') /\ Members(queue') = Members(queue)
      BY <2>1, <3>1, RecordBehind DEF RetryInd
    <3>3. Retry!OverdueWithout(x) \in 0..(Len(queue) - 1)
      BY <2>1, RecordLeaves DEF RetryInd
    <3>4. overdue' \in 0..Len(queue)
      BY <1>1, <3>3 DEF RetryInd, QueueOK
    <3> QED BY <3>2, <3>4 DEF QueueOK
  <2>2. CASE x \notin Members(queue)
    <3>1. queue' = queue /\ overdue' = overdue
      BY <1>1, <2>2, RetrySequences DEF Retry!Deferred, Retry!Pending
    <3> QED BY <3>1 DEF RetryInd, QueueOK
  <2> QED BY <2>1, <2>2
<1> QED BY <1>2, <1>3, <1>4 DEF RetryInd

LEMMA RetryNext ==
    ASSUME RetryInd, [Retry!Next]_retryVars
    PROVE  RetryInd' /\ (page' # page => Members(queue') \subseteq Members(queue))
<1>1. ASSUME NEW x \in Records, Retry!Arrive(x) PROVE RetryInd' /\ page' = page
  BY <1>1, ArriveRecord
<1>2. ASSUME NEW x \in Records, Retry!SettledElsewhere(x) PROVE RetryInd' /\ page' = page
  <2>1. x \in Members(queue) /\ queue' = Retry!Without(x) /\ overdue' = Retry!OverdueWithout(x)
        /\ page' = page /\ UNCHANGED retryFaults
    BY <1>2, RetrySequences DEF Retry!SettledElsewhere, Retry!Pending
  <2> QED BY <2>1, SettleRecord
<1>3. CASE Retry!Age
  BY <1>3 DEF Retry!Age, RetryInd, QueueOK
<1>4. CASE Retry!Scan
  <2> DEFINE n == IF overdue < Page THEN overdue ELSE Page
  <2>1. page' = SubSeq(queue, 1, n) /\ UNCHANGED <<queue, overdue, retryFaults>>
    BY <1>4 DEF Retry!Scan
  <2>2. n \in 0..Len(queue) /\ n <= Page /\ queue \in Seq(Records)
    BY TaskAssumption DEF RetryInd, QueueOK
  <2> HIDE DEF n
  <2>3. SubSeq(queue, 1, n) \in Seq(Records) /\ Len(SubSeq(queue, 1, n)) = n
    BY <2>2
  <2> QED BY <2>1, <2>2, <2>3 DEF RetryInd, QueueOK
<1>5. CASE Retry!Settle
  <2>1. Head(page) \in Members(queue) /\ queue' = Retry!Without(Head(page)) /\ page # <<>> /\ page' = Tail(page)
        /\ overdue' = Retry!OverdueWithout(Head(page)) /\ UNCHANGED retryFaults
    BY <1>5, RetrySequences DEF Retry!Settle, Retry!Pending
  <2> QED BY <2>1, SettleRecord
<1>6. CASE Retry!Fail
  BY <1>6, FailRecord
<1>7. CASE Retry!Abandon
  BY <1>7, TaskAssumption DEF Retry!Abandon, RetryInd, QueueOK
<1>8. CASE UNCHANGED retryVars
  BY <1>8 DEF retryVars, RetryInd, QueueOK
<1> QED BY <1>1, <1>2, <1>3, <1>4, <1>5, <1>6, <1>7, <1>8 DEF Retry!Next

LEMMA RetryFlat == Retry!Spec => Retry!Init /\ [][Retry!Next]_retryVars
BY DEF Retry!Spec, Retry!vars, retryVars

\* RetryScan: no record is queued twice, and the overdue ones are always the front of the
\* queue (overdue, cancel, defer).
THEOREM QueueInOrder == Retry!Spec => []Retry!TypeOK
<1>1. RetryInd /\ [Retry!Next]_retryVars => RetryInd'
  BY RetryNext
<1> QED BY <1>1, RetryInit, RetryFlat, RetryImplied, PTL

\* RetryScan: working on a page never brings back a record that someone else has settled since
\* it was read (reservation_defer.lua, ZADD XX).
THEOREM SettledStaysSettled == Retry!Spec => NothingResurrected
<1>1. RetryInd /\ [Retry!Next]_retryVars => RetryInd'
  BY RetryNext
<1>2. RetryInd /\ [Retry!Next]_retryVars =>
        [page' # page => Retry!ToSet(queue') \subseteq Retry!ToSet(queue)]_(Retry!vars)
  BY RetryNext, RetrySequences
<1> QED BY <1>1, <1>2, RetryInit, RetryFlat, PTL DEF NothingResurrected, Retry!NothingResurrected

--------------------------------------------------------------------------------
\* All that the run of the tasks checks for safety holds of their specification, for any
\* constants: each component takes its own steps or none.
THEOREM TasksHold == TaskSpec => [](LifeInv /\ ScansInv /\ PreheatInv) /\ ImplementsLife /\ NothingResurrected
<1>1. TaskInit => Init /\ Closing!Init /\ Retry!Init /\ Preheat!Init
  BY DEF TaskInit
<1>2. [TaskNext]_<<part, vars, closingVars, retryVars, preheatVars>> =>
        [Next]_vars /\ [Closing!Next]_closingVars /\ [Retry!Next]_retryVars /\ [Preheat!Next]_preheatVars
  BY DEF TaskNext
<1>3. Closing!Init /\ [][Closing!Next]_closingVars => Closing!Spec
  BY DEF Closing!Spec, Closing!vars, closingVars
<1>4. Retry!Init /\ [][Retry!Next]_retryVars => Retry!Spec
  BY DEF Retry!Spec, Retry!vars, retryVars
<1>5. Closing!TypeOK /\ Closing!PageAhead /\ Retry!TypeOK => ScansInv
  BY DEF ScansInv
<1> QED
  BY <1>1, <1>2, <1>3, <1>4, <1>5, CursorBehindPage, QueueInOrder, SettledStaysSettled, PreheatCorrect,
     PreheatFlat, LifeInvariance, LifeRefinement, PTL DEF TaskSpec, Spec
===================================================================================
