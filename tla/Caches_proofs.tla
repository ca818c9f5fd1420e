------------------------------ MODULE Caches_proofs ------------------------------
(***************************************************************************)
(* The likes of a blog, for any number of users, requests and faults: the  *)
(* count follows the rows, and the snapshot in Redis follows the commits   *)
(* unless a failure that was recorded has come between them.  With the     *)
(* proofs about the cache of shops this covers all that the caches hold.   *)
(***************************************************************************)
EXTENDS MCCaches, ShopCache_proofs, FiniteSetTheorems

USE SiteAssumption

--------------------------------------------------------------------------------
(* The count.                                                              *)

CountOK == IsFiniteSet(table) /\ liked = Cardinality(table) + Legacy

\* The instance counts as its module does.
LEMMA SameSize == \A S : Projection!Cardinality(S) = Cardinality(S)
BY DEF Projection!Cardinality, Cardinality

\* A like adds one to the size of the relation or changes nothing, an unlike likewise.
LEMMA SizeFollowsChange ==
    ASSUME CountOK, NEW t,
           table' = Projection!With(table, user[t], Projection!Wanted(t)), liked' = liked + Projection!CountChange(t)
    PROVE  CountOK'
<1> DEFINE u == user[t]
<1>1. Cardinality(table) \in Nat
  BY FS_CardinalityType DEF CountOK
<1>2. CASE Projection!Wanted(t)
  <2>1. table' = table \cup {u}
    BY <1>2 DEF Projection!With
  <2>2. IsFiniteSet(table') /\
        Cardinality(table') = IF u \in table THEN Cardinality(table) ELSE Cardinality(table) + 1
    BY <2>1, FS_AddElement DEF CountOK
  <2>3. Projection!CountChange(t) = IF u \in table THEN 0 ELSE 1
    BY <1>2 DEF Projection!CountChange
  <2> QED BY <1>1, <2>2, <2>3 DEF CountOK
<1>3. CASE ~Projection!Wanted(t)
  <2>1. table' = table \ {u}
    BY <1>3 DEF Projection!With
  <2>2. IsFiniteSet(table') /\
        Cardinality(table') = IF u \in table THEN Cardinality(table) - 1 ELSE Cardinality(table)
    <3>1. IsFiniteSet(table)
      BY DEF CountOK
    <3>2. /\ IsFiniteSet(table \ {u})
          /\ Cardinality(table \ {u}) = IF u \in table THEN Cardinality(table) - 1 ELSE Cardinality(table)
      <4> HIDE DEF u
      <4> QED BY <3>1, FS_RemoveElement
    <3> QED BY <2>1, <3>2
  <2>3. Projection!CountChange(t) = IF u \in table THEN -1 ELSE 0
    <3> DEFINE wanted == Projection!Wanted(t)
               member == u \in table
    <3>1. wanted = FALSE /\ member \in BOOLEAN
      BY <1>3 DEF Projection!Wanted
    <3>2. Projection!CountChange(t) = IF wanted = member THEN 0 ELSE IF wanted THEN 1 ELSE -1
      BY DEF Projection!CountChange
    <3> HIDE DEF wanted, member
    <3>3. Projection!CountChange(t) = IF member THEN -1 ELSE 0
      BY <3>1, <3>2
    <3> QED BY <3>3 DEF member
  <2> QED BY <1>1, <2>2, <2>3 DEF CountOK
<1> QED BY <1>2, <1>3

LEMMA NextCount ==
    ASSUME CountOK, [Projection!Next]_projectionVars
    PROVE  CountOK'
<1>1. ASSUME UNCHANGED <<table, liked>>
      PROVE  CountOK'
  BY <1>1 DEF CountOK
<1>2. ASSUME NEW t \in Clients, Projection!Like(t) \/ Projection!Query(t) \/ Projection!Work(t) \/ Projection!ThreadFault(t)
      PROVE  CountOK'
  <2>1. CASE Projection!Commit(t) \/ Projection!CommitReplyLost(t)
    BY <2>1, SizeFollowsChange DEF Projection!Commit, Projection!CommitReplyLost
  <2>2. CASE ~(Projection!Commit(t) \/ Projection!CommitReplyLost(t))
    <3>1. CASE Projection!Like(t) \/ Projection!Query(t)
      BY <3>1, <1>1 DEF Projection!Like, Projection!Query, Projection!dbVars
    <3>2. CASE Projection!Work(t)
      BY <3>2, <2>2, <1>1 DEF Projection!Work, Projection!TakeLock, Projection!LockBusy, Projection!Unlock, Projection!Begin, Projection!Change, Projection!ReadRows, Projection!Replace,
                              Projection!DeleteCache, Projection!Ready, Projection!Recheck, Projection!Read, Projection!Answer, Projection!dbVars
    <3>3. CASE Projection!ThreadFault(t)
      BY <3>3, <2>2, <1>1 DEF Projection!ThreadFault, Projection!CallFails, Projection!ScriptReplyLost, Projection!LockOrphaned, Projection!dbVars
    <3> QED BY <1>2, <3>1, <3>2, <3>3
  <2> QED BY <2>1, <2>2
<1>3. CASE Projection!RenewalFails \/ Projection!LeaseEnds \/ Projection!Crash \/ Projection!Tick
  BY <1>3, <1>1 DEF Projection!RenewalFails, Projection!LeaseEnds, Projection!Crash, Projection!Tick, Projection!dbVars
<1>4. CASE UNCHANGED projectionVars
  BY <1>4, <1>1 DEF projectionVars, Projection!dbVars
<1> QED BY <1>2, <1>3, <1>4 DEF Projection!Next

LEMMA InitCount == Projection!Init => CountOK
<1>1. ASSUME Projection!Init
      PROVE  IsFiniteSet(table)
  BY <1>1, FS_Subset DEF Projection!Init
<1> QED BY <1>1, SameSize DEF Projection!Init, CountOK

LEMMA LikesSpec == Projection!Spec <=> Projection!Init /\ [][Projection!Next]_projectionVars
BY DEF Projection!Spec, Projection!vars, Projection!dbVars, Projection!cacheVars,
       Projection!lockVars, projectionVars

\* The count of likes is that of the rows and of the likes from before the identities were
\* stored, whatever is lost (SocialTransactionService.setLike).
THEOREM CountCorrect == Projection!Spec => []CountMatches
<1>1. CountOK => CountMatches
  BY SameSize DEF CountOK, CountMatches, Projection!CountMatches
<1> QED BY <1>1, InitCount, NextCount, LikesSpec, PTL

--------------------------------------------------------------------------------
(* The snapshot.                                                           *)

\* Labels at which a thread relies on the Redisson lock.
Critical == {"begin", "commit", "unlock", "leave"} \cup Projection!Project \cup Projection!Refresh

\* Whoever relies on the lock holds it.
Exclusive == \A t \in Clients : place[t] \in Critical => projectionLock = t

\* A commit whose projection is still to come differs from the snapshot by its own change.
ChangePending ==
    \A t \in Clients : place[t] = "project" => cache = None \/ Projection!With(cache, user[t], read[t]) = table

\* A relation that was read and not yet written is the relation.
RowsCurrent == \A t \in Clients : place[t] \in {"replace", "restore"} => read[t] = table

Calm == Exclusive /\ Projection!Exact /\ ChangePending /\ RowsCurrent

LikesControl ==
    /\ DOMAIN place = Clients /\ DOMAIN user = Clients /\ DOMAIN read = Clients
    /\ disturbed \in BOOLEAN

ProjectionInd == LikesControl /\ (disturbed \/ Calm)

LEMMA LikesInit ==
    ASSUME Projection!Init
    PROVE  ProjectionInd
<1>1. LikesControl
  BY DEF Projection!Init, LikesControl
<1>2. Exclusive /\ ChangePending /\ RowsCurrent
  BY DEF Projection!Init, Exclusive, Critical, Projection!Project, Projection!Refresh, ChangePending, RowsCurrent
<1>3. Projection!Exact
  BY DEF Projection!Init, Projection!Exact
<1> QED BY <1>1, <1>2, <1>3 DEF ProjectionInd, Calm

\* A step of t outside the stores, to a label where it relies on nothing new.
QuietStep(t) ==
    /\ \E label : /\ place' = [place EXCEPT ![t] = label]
                  /\ label \notin {"project", "replace", "restore"}
                  /\ label \in Critical => projectionLock' = t \/ (place[t] \in Critical /\ projectionLock' = projectionLock)
                  /\ place[t] \in Projection!Project => label \in Projection!Project \/ cache \in {None, table}
    /\ DOMAIN user' = Clients /\ DOMAIN read' = Clients
    /\ \A u \in Clients \ {t} : user'[u] = user[u] /\ read'[u] = read[u]
    /\ projectionLock' = projectionLock \/ projectionLock \in {None, t}
    /\ disturbed' = disturbed
    /\ UNCHANGED <<table, cache>>

LEMMA QuietKeeps ==
    ASSUME ProjectionInd, NEW t \in Clients, QuietStep(t)
    PROVE  ProjectionInd'
<1>1. PICK label : /\ place' = [place EXCEPT ![t] = label]
                   /\ label \notin {"project", "replace", "restore"}
                   /\ label \in Critical => projectionLock' = t \/ (place[t] \in Critical /\ projectionLock' = projectionLock)
                   /\ place[t] \in Projection!Project => label \in Projection!Project \/ cache \in {None, table}
  BY DEF QuietStep
<1>2. LikesControl'
  BY <1>1 DEF QuietStep, ProjectionInd, LikesControl
<1>3. ASSUME Calm
      PROVE  Calm'
  <2>1. Exclusive'
    BY <1>1, <1>3 DEF QuietStep, ProjectionInd, LikesControl, Calm, Exclusive
  <2>2. Projection!Exact'
    <3>1. CASE cache \in {None, table}
      BY <3>1 DEF QuietStep, Projection!Exact
    <3>2. CASE Projection!Projecting
      <4>1. PICK u \in Clients : place[u] \in Projection!Project
        BY <3>2 DEF Projection!Projecting
      <4> QED BY <1>1, <4>1, <3>1 DEF QuietStep, ProjectionInd, LikesControl, Projection!Exact, Projection!Projecting
    <3> QED BY <1>3, <3>1, <3>2 DEF Calm, Projection!Exact
  <2>3. ChangePending' /\ RowsCurrent'
    BY <1>1, <1>3 DEF QuietStep, ProjectionInd, LikesControl, Calm, ChangePending, RowsCurrent
  <2> QED BY <2>1, <2>2, <2>3 DEF Calm
<1> QED BY <1>2, <1>3 DEF ProjectionInd, QuietStep

LEMMA QuietActions ==
    ASSUME ProjectionInd, NEW t \in Clients,
           \/ Projection!Like(t) \/ Projection!Query(t) \/ Projection!TakeLock(t) \/ Projection!LockBusy(t) \/ Projection!Unlock(t) \/ Projection!Begin(t)
           \/ Projection!Ready(t) \/ Projection!Recheck(t) \/ Projection!Read(t) \/ Projection!Answer(t) \/ Projection!LockOrphaned(t)
           \/ Projection!CallFails(t)
    PROVE  ProjectionInd'
<1>1. DOMAIN place = Clients /\ DOMAIN user = Clients /\ DOMAIN read = Clients
  BY DEF ProjectionInd, LikesControl
<1>2. CASE Projection!Like(t) \/ Projection!Query(t) \/ Projection!LockBusy(t) \/ Projection!Ready(t) \/ Projection!Read(t) \/ Projection!Answer(t)
  <2>1. QuietStep(t)
    BY <1>1, <1>2 DEF Projection!Like, Projection!Query, Projection!LockBusy, Projection!GivesUp, Projection!Ready, Projection!Read, Projection!Answer, Projection!Goto, Projection!GoWith, Projection!Done,
                      QuietStep, Critical, Projection!Project, Projection!Refresh, Projection!dbVars, Projection!cacheVars, Projection!lockVars
  <2> QED BY <2>1, QuietKeeps
<1>3. CASE Projection!TakeLock(t) \/ Projection!Begin(t) \/ Projection!Recheck(t)
  <2>1. QuietStep(t)
    BY <1>1, <1>3 DEF Projection!TakeLock, Projection!Free, Projection!Begin, Projection!Recheck, Projection!Goto,
                      QuietStep, Critical, Projection!Project, Projection!Refresh, Projection!dbVars, Projection!cacheVars, Projection!lockVars
  <2> QED BY <2>1, QuietKeeps
<1>4. CASE Projection!Unlock(t) \/ Projection!LockOrphaned(t)
  <2>1. QuietStep(t)
    BY <1>1, <1>4 DEF Projection!Unlock, Projection!LockOrphaned, Projection!Goto, Projection!Done,
                      QuietStep, Critical, Projection!Project, Projection!Refresh, Projection!dbVars, Projection!cacheVars, Projection!lockVars
  <2> QED BY <2>1, QuietKeeps
<1>5. CASE Projection!CallFails(t)
  <2>1. CASE place[t] = "delete"
    <3>1. disturbed' = TRUE /\ LikesControl'
      BY <1>1, <1>5, <2>1 DEF Projection!CallFails, Projection!GoWith, Projection!Done, Projection!Disturb, ProjectionInd, LikesControl, Projection!Refresh
    <3> QED BY <3>1 DEF ProjectionInd
  <2>2. CASE place[t] # "delete"
    <3>1. QuietStep(t)
      BY <1>1, <1>5, <2>2 DEF Projection!CallFails, Projection!GoWith, Projection!Done, QuietStep, Critical, Projection!Project, Projection!Refresh,
                              Projection!cacheVars, Projection!lockVars
    <3> QED BY <3>1, QuietKeeps
  <2> QED BY <2>1, <2>2
<1> QED BY <1>2, <1>3, <1>4, <1>5

\* The holder of the lock is alone: for its step only its own thread is to be considered.
LEMMA HolderKeeps ==
    ASSUME ProjectionInd, NEW t \in Clients, place[t] \in Critical,
           NEW label \in Critical, place' = [place EXCEPT ![t] = label],
           DOMAIN user' = Clients, DOMAIN read' = Clients,
           UNCHANGED <<projectionLock, disturbed>>,
           Calm => /\ cache' \in {None, table'} \/ label \in Projection!Project
                   /\ label = "project" =>
                         cache' = None \/ Projection!With(cache', user'[t], read'[t]) = table'
                   /\ label \in {"replace", "restore"} => read'[t] = table'
    PROVE  ProjectionInd'
<1>1. LikesControl'
  BY DEF ProjectionInd, LikesControl
<1>2. ASSUME Calm
      PROVE  Calm'
  <2>1. projectionLock = t /\ \A u \in Clients \ {t} : place'[u] \notin Critical
    BY <1>2 DEF ProjectionInd, LikesControl, Calm, Exclusive
  <2>2. place'[t] = label
    BY DEF ProjectionInd, LikesControl
  <2>3. Exclusive'
    BY <2>1 DEF Exclusive
  <2>4. Projection!Exact'
    BY <1>2, <2>2 DEF Projection!Exact, Projection!Projecting
  <2>5. ChangePending' /\ RowsCurrent'
    BY <1>2, <2>1, <2>2 DEF ChangePending, RowsCurrent, Critical, Projection!Project, Projection!Refresh
  <2> QED BY <2>3, <2>4, <2>5 DEF Calm
<1> QED BY <1>1, <1>2 DEF ProjectionInd

\* A holder that is not projecting finds the snapshot exact.
LEMMA HolderSeesExact ==
    ASSUME ProjectionInd, Calm, NEW t \in Clients, place[t] \in Critical \ Projection!Project
    PROVE  cache \in {None, table}
<1>1. \A u \in Clients : place[u] \in Critical => u = t
  BY DEF Calm, Exclusive
<1> QED BY <1>1 DEF Calm, Projection!Exact, Projection!Projecting, Critical

LEMMA CommitKeeps ==
    ASSUME ProjectionInd, NEW t \in Clients, Projection!Commit(t)
    PROVE  ProjectionInd'
<1>1. DOMAIN read = Clients
  BY DEF ProjectionInd, LikesControl
<1>2. /\ place[t] = "commit" /\ place' = [place EXCEPT ![t] = "project"]
      /\ read' = [read EXCEPT ![t] = Projection!Wanted(t)] /\ read'[t] = Projection!Wanted(t) /\ DOMAIN read' = Clients
  BY Zenon, <1>1 DEF Projection!Commit, Projection!GoWith
<1>3. UNCHANGED <<projectionLock, disturbed, user, cache>> /\ table' = Projection!With(table, user[t], Projection!Wanted(t))
  BY DEF Projection!Commit, Projection!GoWith, Projection!lockVars, Projection!cacheVars
<1>4. "commit" \in Critical \ Projection!Project /\ "project" \in Critical /\ "project" \in Projection!Project
  BY DEF Critical, Projection!Project
<1>5. Calm => cache' = None \/ Projection!With(cache', user'[t], read'[t]) = table'
  <2>1. ASSUME cache = table
        PROVE  Projection!With(cache', user'[t], read'[t]) = table'
    BY Zenon, <2>1, <1>2, <1>3
  <2> QED BY <2>1, <1>2, <1>3, <1>4, HolderSeesExact
<1>6. DOMAIN user' = Clients
  BY <1>3 DEF ProjectionInd, LikesControl
<1> QED BY <1>2, <1>3, <1>4, <1>5, <1>6, HolderKeeps

LEMMA ProjectionSteps ==
    ASSUME ProjectionInd, NEW t \in Clients,
           Projection!Change(t) \/ Projection!ReadRows(t) \/ Projection!Replace(t) \/ Projection!DeleteCache(t) \/ Projection!ScriptReplyLost(t)
    PROVE  ProjectionInd'
<1>1. DOMAIN user = Clients /\ DOMAIN read = Clients
  BY DEF ProjectionInd, LikesControl
<1>2. Calm => /\ place[t] = "project" => cache = None \/ Projection!With(cache, user[t], read[t]) = table
              /\ place[t] \in {"replace", "restore"} => read[t] = table
  BY DEF Calm, ChangePending, RowsCurrent
<1>3. /\ {"project", "rebuild", "replace", "delete"} \subseteq Critical
      /\ {"reload", "restore", "unlock", "leave"} \subseteq Critical \ Projection!Project
      /\ {"rebuild", "replace", "delete"} \subseteq Projection!Project
  BY DEF Critical, Projection!Project, Projection!Refresh
<1>4. CASE Projection!Change(t)
  <2>1. CASE cache = None
    <3>1. /\ place[t] = "project" /\ place' = [place EXCEPT ![t] = "rebuild"]
          /\ UNCHANGED <<user, read, projectionLock, disturbed>>
      BY <1>4, <2>1 DEF Projection!Change, Projection!Goto, Projection!lockVars
    <3> QED BY <3>1, <1>1, <1>3, HolderKeeps
  <2>2. CASE cache # None
    <3>1. /\ place[t] = "project" /\ place' = [place EXCEPT ![t] = "unlock"]
          /\ cache' = Projection!With(cache, user[t], read[t]) /\ read' = [read EXCEPT ![t] = None]
          /\ UNCHANGED <<user, table, projectionLock, disturbed>>
      BY <1>4, <2>2 DEF Projection!Change, Projection!GoWith, Projection!lockVars, Projection!dbVars
    <3>2. Calm => cache' = table'
      BY <3>1, <2>2, <1>2
    <3> QED BY <3>1, <3>2, <1>1, <1>3, HolderKeeps
  <2> QED BY <2>1, <2>2
<1>5. CASE Projection!ReadRows(t)
  <2>1. CASE place[t] = "rebuild"
    <3>1. /\ place' = [place EXCEPT ![t] = "replace"] /\ read' = [read EXCEPT ![t] = table]
          /\ UNCHANGED <<user, table, projectionLock, disturbed>>
      BY <1>5, <2>1 DEF Projection!ReadRows, Projection!GoWith, Projection!lockVars, Projection!dbVars
    <3> QED BY <2>1, <3>1, <1>1, <1>3, HolderKeeps
  <2>2. CASE place[t] = "reload"
    <3>1. /\ place' = [place EXCEPT ![t] = "restore"] /\ read' = [read EXCEPT ![t] = table]
          /\ UNCHANGED <<user, table, cache, projectionLock, disturbed>>
      BY <1>5, <2>2 DEF Projection!ReadRows, Projection!GoWith, Projection!lockVars, Projection!dbVars, Projection!cacheVars
    <3>2. Calm => cache' \in {None, table'}
      BY <2>2, <3>1, <1>3, HolderSeesExact
    <3> QED BY <2>2, <3>1, <3>2, <1>1, <1>3, HolderKeeps
  <2> QED BY <1>5, <2>1, <2>2 DEF Projection!ReadRows
<1>6. CASE Projection!Replace(t)
  <2>1. PICK label \in {"unlock", "leave"} : place' = [place EXCEPT ![t] = label]
    BY <1>6 DEF Projection!Replace, Projection!GoWith
  <2>2. /\ place[t] \in {"replace", "restore"} /\ cache' = read[t]
        /\ read' = [read EXCEPT ![t] = None] /\ UNCHANGED <<user, table, projectionLock, disturbed>>
    BY <1>6 DEF Projection!Replace, Projection!GoWith, Projection!lockVars, Projection!dbVars
  <2>3. Calm => cache' = table'
    BY <2>2, <1>2
  <2> QED BY <2>1, <2>2, <2>3, <1>1, <1>3, HolderKeeps
<1>7. CASE Projection!DeleteCache(t)
  <2>1. /\ place[t] = "delete" /\ place' = [place EXCEPT ![t] = "unlock"] /\ cache' = None
        /\ read' = [read EXCEPT ![t] = None] /\ UNCHANGED <<user, projectionLock, disturbed>>
    BY <1>7 DEF Projection!DeleteCache, Projection!GoWith, Projection!lockVars
  <2> QED BY <2>1, <1>1, <1>3, HolderKeeps
<1>8. CASE Projection!ScriptReplyLost(t)
  <2>1. PICK label \in {"delete", "unlock"} : place' = [place EXCEPT ![t] = label]
    BY <1>8 DEF Projection!ScriptReplyLost, Projection!GoWith
  <2>2. /\ place[t] \in {"project", "replace", "restore"}
        /\ read' = [read EXCEPT ![t] = None] /\ UNCHANGED <<user, table, projectionLock, disturbed>>
    BY <1>8 DEF Projection!ScriptReplyLost, Projection!GoWith, Projection!lockVars, Projection!dbVars
  <2>3. Calm => cache' = table'
    <3>1. CASE place[t] = "project" /\ cache # None /\ cache' = Projection!With(cache, user[t], read[t])
      BY <3>1, <2>2, <1>2
    <3>2. CASE place[t] \in {"replace", "restore"} /\ cache' = read[t]
      BY <3>2, <2>2, <1>2
    <3> QED BY <1>8, <3>1, <3>2 DEF Projection!ScriptReplyLost
  <2> QED BY <2>1, <2>2, <2>3, <1>1, <1>3, HolderKeeps
<1> QED BY <1>4, <1>5, <1>6, <1>7, <1>8

LEMMA SystemSteps ==
    ASSUME ProjectionInd, Projection!RenewalFails \/ Projection!LeaseEnds \/ Projection!Crash \/ Projection!Tick \/ UNCHANGED projectionVars
    PROVE  ProjectionInd'
<1>1. CASE Projection!RenewalFails \/ UNCHANGED projectionVars
  BY <1>1 DEF Projection!RenewalFails, projectionVars, Projection!dbVars, Projection!cacheVars, Projection!lockVars, ProjectionInd, LikesControl, Calm,
              Exclusive, Projection!Exact, Projection!Projecting, ChangePending, RowsCurrent
<1>2. CASE Projection!LeaseEnds
  <2>1. UNCHANGED <<table, cache, place, user, read>>
    BY <1>2 DEF Projection!LeaseEnds, Projection!dbVars, Projection!cacheVars
  <2>2. disturbed' \in BOOLEAN /\ (disturbed' \/ (~disturbed /\ projectionLock \notin Clients))
    BY <1>2 DEF Projection!LeaseEnds, ProjectionInd, LikesControl
  <2>3. ASSUME Calm, projectionLock \notin Clients
        PROVE  Calm'
    BY <2>1, <2>3 DEF Calm, Exclusive, Projection!Exact, Projection!Projecting, ChangePending, RowsCurrent
  <2> QED BY <2>1, <2>2, <2>3 DEF ProjectionInd, LikesControl
<1>3. CASE Projection!Crash
  <2>1. LikesControl'
    BY <1>3 DEF Projection!Crash, ProjectionInd, LikesControl
  <2>2. disturbed' \/ (~disturbed /\ \A t \in Clients : place[t] \notin Projection!Project)
    BY <1>3 DEF Projection!Crash, ProjectionInd, LikesControl
  <2>3. /\ UNCHANGED <<table, cache>> /\ \A t \in Clients : place'[t] = "idle"
    BY <1>3 DEF Projection!Crash, Projection!cacheVars
  <2>4. Exclusive' /\ ChangePending' /\ RowsCurrent'
    BY <2>3 DEF Exclusive, Critical, Projection!Project, Projection!Refresh, ChangePending, RowsCurrent
  <2>5. ASSUME Calm, \A t \in Clients : place[t] \notin Projection!Project
        PROVE  Projection!Exact'
    BY <2>3, <2>5 DEF Calm, Projection!Exact, Projection!Projecting
  <2> QED BY <2>1, <2>2, <2>4, <2>5 DEF ProjectionInd, Calm
<1>4. CASE Projection!Tick
  <2>1. UNCHANGED <<table, projectionLock, place, user, read, disturbed>> /\ cache' \in {None, cache}
    BY <1>4 DEF Projection!Tick, Projection!dbVars, Projection!lockVars
  <2>2. Calm => Calm'
    BY <2>1 DEF Calm, Exclusive, Projection!Exact, Projection!Projecting, ChangePending, RowsCurrent
  <2> QED BY <2>1, <2>2 DEF ProjectionInd, LikesControl
<1> QED BY <1>1, <1>2, <1>3, <1>4

LEMMA LikesNext ==
    ASSUME ProjectionInd, [Projection!Next]_projectionVars
    PROVE  ProjectionInd'
<1>1. ASSUME NEW t \in Clients, Projection!Like(t) \/ Projection!Query(t) \/ Projection!Work(t) \/ Projection!ThreadFault(t)
      PROVE  ProjectionInd'
  <2>1. CASE Projection!CommitReplyLost(t)
    <3>1. disturbed' = TRUE /\ LikesControl'
      BY <2>1 DEF Projection!CommitReplyLost, Projection!GoWith, Projection!Disturb, ProjectionInd, LikesControl
    <3> QED BY <3>1 DEF ProjectionInd
  <2> QED BY <1>1, <2>1, QuietActions, CommitKeeps, ProjectionSteps DEF Projection!Work, Projection!ThreadFault
<1> QED BY <1>1, SystemSteps DEF Projection!Next

--------------------------------------------------------------------------------
(* The types.                                                              *)

\* A thread that is to change or has changed the relation does it for a user, and what it
\* is to write as a snapshot are users.
LikesTypes ==
    /\ table \in SUBSET Users
    /\ row \in Clients \cup {None}
    /\ cache \in (SUBSET Users) \cup {None} /\ age \in 0..Ttl
    /\ projectionLock \in Clients \cup {None, Orphan} /\ watched \in BOOLEAN
    /\ place \in [Clients -> Projection!PCs]
    /\ user \in [Clients -> Users \cup {None}]
    /\ disturbed \in BOOLEAN /\ projectionFaults \in 0..MaxProjectionFaults
    /\ DOMAIN read = Clients
    /\ \A t \in Clients :
         /\ place[t] \in {"lock", "begin", "commit", "project"} => user[t] \in Users
         /\ place[t] \in {"replace", "restore"} => read[t] \in SUBSET Users

LEMMA InitTypes == Projection!Init => LikesTypes
<1> SUFFICES ASSUME Projection!Init PROVE LikesTypes
  OBVIOUS
<1>1. disturbed \in BOOLEAN /\ watched \in BOOLEAN
  BY Zenon DEF Projection!Init
<1>2. /\ place \in [Clients -> Projection!PCs] /\ user \in [Clients -> Users \cup {None}]
      /\ DOMAIN read = Clients /\ \A t \in Clients : place[t] = "idle"
  BY DEF Projection!Init, Projection!PCs
<1> QED BY <1>1, <1>2 DEF Projection!Init, LikesTypes

LEMMA WithTypes ==
    ASSUME NEW S \in SUBSET Users, NEW u \in Users, NEW wanted
    PROVE  Projection!With(S, u, wanted) \in SUBSET Users
BY DEF Projection!With

LEMMA NextTypes ==
    ASSUME LikesTypes, [Projection!Next]_projectionVars
    PROVE  LikesTypes'
<1> USE DEF Projection!PCs, Projection!Project, Projection!Refresh, Projection!dbVars,
            Projection!cacheVars, Projection!lockVars, Projection!Goto, Projection!GoWith,
            Projection!Done, Projection!Fault, Projection!Disturb
<1>1. ASSUME NEW t \in Clients, Projection!Like(t) \/ Projection!Query(t) PROVE LikesTypes'
  BY <1>1 DEF LikesTypes, Projection!Like, Projection!Query
<1>2. ASSUME NEW t \in Clients,
             Projection!TakeLock(t) \/ Projection!LockBusy(t) \/ Projection!Unlock(t)
      PROVE  LikesTypes'
  <2>1. watched' \in BOOLEAN /\ disturbed' \in BOOLEAN
    BY <1>2, Zenon DEF LikesTypes, Projection!TakeLock, Projection!LockBusy, Projection!Unlock
  <2>2. CASE Projection!TakeLock(t)
    BY <2>1, <2>2 DEF LikesTypes, Projection!TakeLock
  <2>3. CASE Projection!LockBusy(t)
    BY <2>1, <2>3 DEF LikesTypes, Projection!LockBusy
  <2>4. CASE Projection!Unlock(t)
    BY <2>1, <2>4 DEF LikesTypes, Projection!Unlock
  <2> QED BY <1>2, <2>2, <2>3, <2>4
<1>3. ASSUME NEW t \in Clients,
             Projection!Begin(t) \/ Projection!ReadRows(t) \/ Projection!Replace(t)
                \/ Projection!DeleteCache(t)
      PROVE  LikesTypes'
  BY <1>3 DEF LikesTypes, Projection!Begin, Projection!ReadRows, Projection!Replace, Projection!DeleteCache
<1>4. ASSUME NEW t \in Clients, Projection!Commit(t) \/ Projection!CommitReplyLost(t) PROVE LikesTypes'
  <2>1. table' \in SUBSET Users
    BY <1>4, WithTypes DEF LikesTypes, Projection!Commit, Projection!CommitReplyLost
  <2>2. CASE Projection!Commit(t)
    BY <2>1, <2>2 DEF LikesTypes, Projection!Commit
  <2>3. CASE Projection!CommitReplyLost(t)
    BY <2>1, <2>3 DEF LikesTypes, Projection!CommitReplyLost
  <2> QED BY <1>4, <2>2, <2>3
<1>5. ASSUME NEW t \in Clients, Projection!Change(t) \/ Projection!ScriptReplyLost(t) PROVE LikesTypes'
  <2>1. cache' \in (SUBSET Users) \cup {None}
    BY <1>5, WithTypes DEF LikesTypes, Projection!Change, Projection!ScriptReplyLost
  <2>2. CASE Projection!Change(t)
    BY <2>1, <2>2 DEF LikesTypes, Projection!Change, Projection!AgeAfterChange
  <2>3. CASE Projection!ScriptReplyLost(t)
    BY <2>1, <2>3 DEF LikesTypes, Projection!ScriptReplyLost, Projection!AgeAfterChange
  <2> QED BY <1>5, <2>2, <2>3
<1>6. ASSUME NEW t \in Clients,
             Projection!Ready(t) \/ Projection!Recheck(t) \/ Projection!Read(t) \/ Projection!Answer(t)
      PROVE  LikesTypes'
  BY <1>6 DEF LikesTypes, Projection!Ready, Projection!Recheck, Projection!Read, Projection!Answer
<1>7. ASSUME NEW t \in Clients, Projection!CallFails(t) \/ Projection!LockOrphaned(t) PROVE LikesTypes'
  <2>1. watched' \in BOOLEAN /\ disturbed' \in BOOLEAN
    BY <1>7, Zenon DEF LikesTypes, Projection!CallFails, Projection!LockOrphaned
  <2>2. CASE Projection!CallFails(t)
    BY <2>1, <2>2 DEF LikesTypes, Projection!CallFails
  <2>3. CASE Projection!LockOrphaned(t)
    BY <2>1, <2>3 DEF LikesTypes, Projection!LockOrphaned
  <2> QED BY <1>7, <2>2, <2>3
<1>8. CASE Projection!RenewalFails \/ Projection!LeaseEnds
  <2>1. watched' \in BOOLEAN /\ disturbed' \in BOOLEAN
    BY <1>8, Zenon DEF LikesTypes, Projection!RenewalFails, Projection!LeaseEnds
  <2> QED BY <1>8, <2>1 DEF LikesTypes, Projection!RenewalFails, Projection!LeaseEnds
<1>9. CASE Projection!Crash
  <2>1. watched' \in BOOLEAN /\ disturbed' \in BOOLEAN
    BY <1>9, Zenon DEF LikesTypes, Projection!Crash
  <2> QED BY <1>9, <2>1 DEF LikesTypes, Projection!Crash
<1>10. CASE Projection!Tick
  BY <1>10 DEF LikesTypes, Projection!Tick
<1>11. CASE UNCHANGED projectionVars
  BY <1>11 DEF LikesTypes, projectionVars
<1> QED
  BY <1>1, <1>2, <1>3, <1>4, <1>5, <1>6, <1>7, <1>8, <1>9, <1>10, <1>11
  DEF Projection!Next, Projection!Work, Projection!ThreadFault

--------------------------------------------------------------------------------
\* Unless a failure has come between a commit and its projection, or a holder lost its lock,
\* the snapshot is the relation, or missing, or about to be brought up to date
\* (SocialInteractionService.locked covers the transaction and the projection).
THEOREM ProjectionCorrect == Projection!Spec => []ProjectionInv
<1>1. LikesTypes /\ CountOK /\ ProjectionInd => ProjectionInv
  <2> SUFFICES ASSUME LikesTypes, CountOK, ProjectionInd PROVE ProjectionInv
    OBVIOUS
  <2>1. liked \in Nat
    BY FS_CardinalityType DEF CountOK
  <2>2. Projection!TypeOK
    BY <2>1 DEF LikesTypes, Projection!TypeOK
  <2>3. Projection!ProjectionExact
    BY DEF ProjectionInd, Calm, Projection!ProjectionExact
  <2> QED BY <2>2, <2>3 DEF ProjectionInv
<1> QED
  BY <1>1, InitTypes, NextTypes, InitCount, NextCount, LikesInit, LikesNext, LikesSpec, PTL

\* All that the run of the caches checks holds of their specification, for any constants.
THEOREM CachesHold == CacheSpec => [](CacheInv /\ ProjectionInv /\ CountMatches)
<1>1. CacheInit => Init /\ Projection!Init
  BY DEF CacheInit
<1>2. [CacheNext]_cacheVars => [Next]_vars /\ [Projection!Next]_projectionVars
  BY DEF CacheNext, Shop, Likes, cacheVars
<1> QED
  BY <1>1, <1>2, CacheInvariance, CountCorrect, ProjectionCorrect, LikesSpec, PTL DEF CacheSpec, Spec
==================================================================================
