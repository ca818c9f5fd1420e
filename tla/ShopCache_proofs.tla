---------------------------- MODULE ShopCache_proofs -----------------------------
(***************************************************************************)
(* The cache of a shop, for any number of requests, updates and faults:    *)
(* nothing older than what the last invalidation left behind is in either  *)
(* cache or in the hands of a thread.                                      *)
(***************************************************************************)
EXTENDS ShopCache, SequenceTheorems, TLAPS

--------------------------------------------------------------------------------
(* The inductive invariant.                                                *)

\* Where the kinds of threads may be.
Loading  == {"waitRead", "forget"} \cup Guarded
Updating == {"waitWrite"} \cup Writing

ControlOK ==
    /\ pc \in [Threads -> PCs]
    /\ \A t \in Threads : pc[t] \in Loading => t \in Readers \cup {Task}
    /\ \A t \in Threads : pc[t] \in Updating => t \in Updaters
    /\ waiting \in Seq(Threads)

\* The guard keeps loads and invalidations apart, and only a load has a version in hand.
GuardOK ==
    /\ readers \subseteq Readers \cup {Task} /\ writer \in Updaters \cup {None}
    /\ \A t \in Threads : pc[t] \in Guarded => t \in readers
    /\ \A t \in Threads : pc[t] \in Writing => writer = t
    /\ writer # None => readers = {}
    /\ \A t \in Threads : got[t] # None => pc[t] \in Guarded

\* The task is handed to the pool once: while the id is in the set nobody else submits it.
RebuildOK ==
    /\ rebuilding \in BOOLEAN
    /\ pc[Task] # "idle" => rebuilding
    /\ \A t \in Threads : pc[t] = "submit" => rebuilding /\ pc[Task] = "idle"
    /\ \A t, u \in Threads : pc[t] = "submit" /\ pc[u] = "submit" => t = u

ValuesOK ==
    /\ db \in Versions /\ floor \in Versions /\ floor <= db
    /\ redis \in Versions \cup {None} /\ l1 \in (Versions \ {0}) \cup {None}
    /\ got \in [Threads -> Versions \cup {None}]
    /\ NeverOlderThanInvalidated

LockOK ==
    /\ lock \in Threads \cup {None, Orphan} /\ renewing \in BOOLEAN
    /\ faults \in 0..MaxFaults

CacheInd == ControlOK /\ GuardOK /\ RebuildOK /\ ValuesOK /\ LockOK

\* All of the parts but the lock of the load.
Core == ControlOK /\ GuardOK /\ RebuildOK /\ ValuesOK

LEMMA IndTypes == CacheInd => TypeOK /\ NeverOlderThanInvalidated
BY DEF CacheInd, ControlOK, GuardOK, RebuildOK, ValuesOK, LockOK, TypeOK

LEMMA InitInd ==
    ASSUME Init
    PROVE  CacheInd
<1>1. ControlOK
  BY EmptySeq DEF Init, ControlOK, PCs, Waiting, Loading, Updating, Guarded, Writing, Locked
<1>2. GuardOK
  BY DEF Init, GuardOK, Guarded, Writing, Locked
<1>3. RebuildOK
  BY DEF Init, RebuildOK, Threads
<1>4. ValuesOK
  BY ShopCacheAssumption DEF Init, ValuesOK, Versions, NeverOlderThanInvalidated, NotOlder
<1>5. LockOK
  <2>1. renewing \in BOOLEAN
    BY Zenon DEF Init
  <2> QED BY <2>1, ShopCacheAssumption DEF Init, LockOK
<1> QED BY <1>1, <1>2, <1>3, <1>4, <1>5 DEF CacheInd

--------------------------------------------------------------------------------
(* A load goes on inside the guard, with or without a version in hand.     *)

\* The labels between the submission and the start of the guard are not among them.
Inside == Guarded \ {"submit"}

\* What a step of a load may do to the caches and to its own version.
LoadStep(t) ==
    /\ t \in Threads /\ pc[t] \in Guarded
    /\ \E label \in Inside : pc' = [pc EXCEPT ![t] = label]
    /\ \E v \in {None, got[t], redis, l1, db} : got' = [got EXCEPT ![t] = v]
    /\ redis' \in {redis, got[t]} /\ l1' \in {l1, None, got[t]} /\ l1' # 0
    /\ UNCHANGED <<db, floor, guardVars>>

LEMMA LoadControl ==
    ASSUME Core, NEW t, LoadStep(t), pc[t] = "submit" \/ UNCHANGED rebuilding
    PROVE  ControlOK' /\ GuardOK'
<1>1. PICK label \in Inside : pc' = [pc EXCEPT ![t] = label]
  BY DEF LoadStep
<1>2. PICK v : got' = [got EXCEPT ![t] = v]
  BY DEF LoadStep
<1>3. t \in Threads /\ pc[t] \in Guarded /\ label \in Guarded /\ UNCHANGED guardVars
  BY DEF LoadStep, Inside
<1>4. ControlOK'
  BY <1>1, <1>3 DEF Core, ControlOK, Loading, Updating, Guarded, Locked, Writing, Waiting, PCs, guardVars
<1>5. GuardOK'
  BY <1>1, <1>2, <1>3 DEF Core, ControlOK, ValuesOK, GuardOK, Guarded, Locked, Writing, guardVars
<1> QED BY <1>4, <1>5

LEMMA LoadValues ==
    ASSUME Core, NEW t, LoadStep(t)
    PROVE  ValuesOK'
<1>1. PICK v \in {None, got[t], redis, l1, db} : got' = [got EXCEPT ![t] = v]
  BY DEF LoadStep
<1>2. v \in Versions \cup {None} /\ NotOlder(v)
  BY <1>1 DEF LoadStep, Core, ValuesOK, NeverOlderThanInvalidated, NotOlder
<1>3. got' \in [Threads -> Versions \cup {None}] /\ \A u \in Threads : NotOlder(got'[u])
  BY <1>1, <1>2 DEF LoadStep, Core, ValuesOK, NeverOlderThanInvalidated
<1>4. /\ redis' \in Versions \cup {None} /\ NotOlder(redis')
      /\ l1' \in (Versions \ {0}) \cup {None} /\ NotOlder(l1')
  BY DEF LoadStep, Core, ValuesOK, NeverOlderThanInvalidated, NotOlder
<1>5. db' = db /\ floor' = floor
  BY DEF LoadStep
<1> QED BY <1>3, <1>4, <1>5 DEF Core, ValuesOK, NeverOlderThanInvalidated, NotOlder

LEMMA LoadCore ==
    ASSUME Core, NEW t, LoadStep(t), UNCHANGED rebuilding, pc[t] # "submit"
    PROVE  Core'
<1>1. RebuildOK'
  BY DEF LoadStep, Core, ControlOK, RebuildOK, Inside, Guarded, Locked
<1> QED BY <1>1, LoadControl, LoadValues DEF Core

LEMMA LoadActions ==
    ASSUME Core, NEW t \in Threads,
           \/ ReadLocal(t) \/ ReadRedis(t) \/ PutLocal(t) \/ TakeLock(t) \/ LockBusy(t)
           \/ Recheck(t) \/ ReadDb(t) \/ StoreRedis(t) \/ StoreLocal(t) \/ Unlock(t)
           \/ StoreReplyLost(t) \/ LockReplyLost(t) \/ UnlockFails(t)
           \/ (CheckDue(t) /\ UNCHANGED rebuilding)
           \/ (CallFails(t) /\ pc[t] # "delete")
    PROVE  Core'
<1>1. got = [got EXCEPT ![t] = got[t]] /\ l1 # 0 /\ None # 0
  BY ShopCacheAssumption DEF Core, ValuesOK, Versions
<1>2. CASE ReadLocal(t) \/ ReadRedis(t) \/ PutLocal(t) \/ (CheckDue(t) /\ UNCHANGED rebuilding)
  <2>1. LoadStep(t) /\ UNCHANGED rebuilding /\ pc[t] # "submit"
    BY <1>1, <1>2 DEF ReadLocal, ReadRedis, PutLocal, CheckDue, Goto, GoWith, LoadStep, Inside,
                      Guarded, Locked, guardVars
  <2> QED BY <2>1, LoadCore
<1>3. CASE TakeLock(t) \/ LockBusy(t) \/ Recheck(t) \/ ReadDb(t)
  <2>1. LoadStep(t) /\ UNCHANGED rebuilding /\ pc[t] # "submit"
    BY <1>1, <1>3 DEF TakeLock, LockBusy, Recheck, ReadDb, Goto, GoWith, LoadStep, Inside,
                      Guarded, Locked, guardVars
  <2> QED BY <2>1, LoadCore
<1>4. CASE StoreRedis(t) \/ StoreLocal(t) \/ Unlock(t)
  <2>1. LoadStep(t) /\ UNCHANGED rebuilding /\ pc[t] # "submit"
    BY <1>1, <1>4 DEF StoreRedis, StoreLocal, Unlock, Kept, AfterLock, Goto, GoWith, LoadStep,
                      Inside, Guarded, Locked, guardVars
  <2> QED BY <2>1, LoadCore
<1>5. CASE \/ StoreReplyLost(t) \/ LockReplyLost(t) \/ UnlockFails(t)
          \/ (CallFails(t) /\ pc[t] # "delete")
  <2>1. LoadStep(t) /\ UNCHANGED rebuilding /\ pc[t] # "submit"
    BY <1>1, <1>5 DEF StoreReplyLost, LockReplyLost, UnlockFails, CallFails, Goto, GoWith,
                      LoadStep, Inside, Guarded, Locked, guardVars
  <2> QED BY <2>1, LoadCore
<1> QED BY <1>2, <1>3, <1>4, <1>5

--------------------------------------------------------------------------------
(* The guard.                                                              *)

LEMMA LeavesType ==
    ASSUME Core, NEW t \in Threads, Turn(t)
    PROVE  Leaves(t) \in Seq(Threads)
<1>1. waiting \in Seq(Threads) /\ 1 \in DOMAIN waiting /\ waiting[1] = t
  BY DEF Core, ControlOK, Turn
<1>2. (CHOOSE i \in DOMAIN waiting : waiting[i] = t) \in 1..Len(waiting)
  BY <1>1
<1>3. ASSUME NEW i \in 1..Len(waiting) PROVE RemoveAt(waiting, i) \in Seq(Threads)
  <2>1. SubSeq(waiting, 1, i - 1) \in Seq(Threads)
    BY <1>1, SubSeqProperties
  <2>2. SubSeq(waiting, i + 1, Len(waiting)) \in Seq(Threads)
    BY <1>1, SubSeqProperties
  <2> QED BY <2>1, <2>2, ConcatProperties DEF RemoveAt
<1> QED BY <1>2, <1>3 DEF Leaves

LEMMA WaitsType ==
    ASSUME Core, NEW t \in Threads, Waits(t)
    PROVE  waiting' \in Seq(Threads) /\ readers' = readers /\ writer' = writer
BY AppendProperties DEF Core, ControlOK, Waits

\* A step that changes no version keeps what holds of the versions.
LEMMA ValuesKept ==
    ASSUME Core, UNCHANGED <<db, floor, redis, l1, got>>
    PROVE  ValuesOK'
BY DEF Core, ValuesOK, NeverOlderThanInvalidated, NotOlder

LEMMA AcquireReadCore ==
    ASSUME Core, NEW t \in Threads, AcquireRead(t)
    PROVE  Core'
<1>1. ValuesOK'
  BY ValuesKept DEF AcquireRead, Goto
<1>2. PICK label \in {"lock", "local"} : pc' = [pc EXCEPT ![t] = label]
  BY DEF AcquireRead, Goto
<1>3. t \in Readers \cup {Task} /\ pc[t] = "waitRead"
  BY DEF AcquireRead, Core, ControlOK, Loading
<1>4. ControlOK'
  BY <1>2, <1>3, LeavesType
     DEF AcquireRead, Core, ControlOK, Loading, Updating, Guarded, Locked, Writing, Waiting, PCs
<1>5. GuardOK'
  BY <1>2, <1>3 DEF AcquireRead, Goto, Core, ControlOK, GuardOK, Guarded, Locked, Writing
<1>6. RebuildOK'
  BY <1>2, <1>3 DEF AcquireRead, Core, ControlOK, RebuildOK
<1> QED BY <1>1, <1>4, <1>5, <1>6 DEF Core

LEMMA AcquireWriteCore ==
    ASSUME Core, NEW t \in Threads, AcquireWrite(t)
    PROVE  Core'
<1>1. ValuesOK'
  BY ValuesKept DEF AcquireWrite, Goto
<1>2. pc' = [pc EXCEPT ![t] = "delete"] /\ pc[t] = "waitWrite" /\ t \in Updaters
  BY DEF AcquireWrite, Goto, Core, ControlOK, Updating
<1>3. ControlOK'
  BY <1>2, LeavesType
     DEF AcquireWrite, Core, ControlOK, Loading, Updating, Guarded, Locked, Writing, Waiting, PCs
<1>4. GuardOK'
  BY <1>2, ShopCacheAssumption
     DEF AcquireWrite, Drained, Goto, Core, ControlOK, GuardOK, Guarded, Locked, Writing, Threads
<1>5. RebuildOK'
  BY <1>2, ShopCacheAssumption DEF AcquireWrite, Core, ControlOK, RebuildOK, Threads
<1> QED BY <1>1, <1>3, <1>4, <1>5 DEF Core

LEMMA ReleaseReadCore ==
    ASSUME Core, NEW t \in Threads, ReleaseRead(t)
    PROVE  Core'
<1>1. /\ pc[t] = "unguard" /\ t \in Readers \cup {Task}
      /\ pc' = [pc EXCEPT ![t] = IF t = Task THEN "forget" ELSE "idle"]
      /\ got' = [got EXCEPT ![t] = None] /\ readers' = readers \ {t}
      /\ UNCHANGED <<db, redis, l1, writer, waiting, rebuilding, floor>>
  BY DEF ReleaseRead, GoWith, Core, ControlOK, Loading, Guarded
<1>2. ValuesOK'
  BY <1>1 DEF Core, ValuesOK, NeverOlderThanInvalidated, NotOlder
<1>3. ControlOK'
  BY <1>1 DEF Core, ControlOK, Loading, Updating, Guarded, Locked, Writing, Waiting, PCs
<1>4. GuardOK'
  BY <1>1 DEF Core, ControlOK, ValuesOK, GuardOK, Guarded, Locked, Writing
<1>5. RebuildOK'
  BY <1>1 DEF Core, ControlOK, RebuildOK
<1> QED BY <1>2, <1>3, <1>4, <1>5 DEF Core

--------------------------------------------------------------------------------
(* Queries and the rebuild.                                                *)

LEMMA QueryCore ==
    ASSUME Core, NEW t \in Threads, Query(t)
    PROVE  Core'
<1>1. ValuesOK'
  BY ValuesKept DEF Query, Goto
<1>2. /\ pc[t] = "idle" /\ t \in Readers /\ t # Task /\ pc' = [pc EXCEPT ![t] = "waitRead"]
      /\ waiting' \in Seq(Threads) /\ UNCHANGED <<readers, writer, rebuilding, got>>
  BY WaitsType, ShopCacheAssumption DEF Query, Goto
<1>3. ControlOK'
  BY <1>2 DEF Core, ControlOK, Loading, Updating, Guarded, Locked, Writing, Waiting, PCs
<1>4. GuardOK'
  BY <1>2 DEF Core, ControlOK, GuardOK, Guarded, Locked, Writing
<1>5. RebuildOK'
  BY <1>2 DEF Core, ControlOK, RebuildOK
<1> QED BY <1>1, <1>3, <1>4, <1>5 DEF Core

\* The first thread to notice a passed deadline takes the id into the set.
LEMMA CheckDueCore ==
    ASSUME Core, NEW t \in Threads, CheckDue(t), ~ UNCHANGED rebuilding
    PROVE  Core'
<1>1. ValuesOK'
  BY ValuesKept DEF CheckDue, Goto
<1>2. /\ pc[t] = "due" /\ pc' = [pc EXCEPT ![t] = "submit"] /\ ~rebuilding /\ rebuilding'
      /\ UNCHANGED <<readers, writer, waiting, got>>
  BY DEF CheckDue, Goto, guardVars
<1>3. ControlOK'
  BY <1>2 DEF Core, ControlOK, Loading, Updating, Guarded, Locked, Writing, Waiting, PCs
<1>4. GuardOK'
  BY <1>2 DEF Core, ControlOK, GuardOK, Guarded, Locked, Writing
<1>5. rebuilding' \in BOOLEAN
  BY <1>2, Zenon DEF CheckDue
<1>6. t # Task /\ pc[Task] = "idle" /\ \A u \in Threads : pc[u] # "submit"
  BY <1>2 DEF Core, RebuildOK
<1>7. RebuildOK'
  BY <1>2, <1>5, <1>6 DEF Core, ControlOK, RebuildOK
<1> QED BY <1>1, <1>3, <1>4, <1>7 DEF Core

LEMMA SubmitCore ==
    ASSUME Core, NEW t \in Threads, Submit(t)
    PROVE  Core'
<1>1. ValuesOK'
  BY ValuesKept DEF Submit
<1>2. /\ pc[t] = "submit" /\ rebuilding /\ pc[Task] = "idle" /\ t # Task /\ Task \in Threads
      /\ pc' = [pc EXCEPT ![t] = "unguard", ![Task] = "waitRead"]
      /\ waiting' \in Seq(Threads) /\ UNCHANGED <<readers, writer, rebuilding, got>>
  BY WaitsType DEF Submit, Core, RebuildOK, Threads
<1>3. ControlOK'
  BY <1>2 DEF Core, ControlOK, Loading, Updating, Guarded, Locked, Writing, Waiting, PCs
<1>4. GuardOK'
  BY <1>2 DEF Core, ControlOK, GuardOK, Guarded, Locked, Writing
<1>5. RebuildOK'
  BY <1>2 DEF Core, ControlOK, RebuildOK
<1> QED BY <1>1, <1>3, <1>4, <1>5 DEF Core

LEMMA RejectedCore ==
    ASSUME Core, NEW t \in Threads, Rejected(t)
    PROVE  Core'
<1>1. ValuesOK'
  BY ValuesKept DEF Rejected, Goto
<1>2. /\ pc[t] = "submit" /\ pc' = [pc EXCEPT ![t] = "unguard"]
      /\ pc[Task] = "idle" /\ t # Task /\ Task \in Threads
      /\ UNCHANGED <<readers, writer, waiting, got>>
  BY DEF Rejected, Goto, guardVars, Core, RebuildOK, Threads
<1>3. ControlOK'
  BY <1>2 DEF Core, ControlOK, Loading, Updating, Guarded, Locked, Writing, Waiting, PCs
<1>4. GuardOK'
  BY <1>2 DEF Core, ControlOK, GuardOK, Guarded, Locked, Writing
<1>5. rebuilding' \in BOOLEAN
  BY Zenon DEF Rejected, Forgotten
<1>6. \A u \in Threads : pc'[u] # "submit"
  BY <1>2 DEF Core, ControlOK, RebuildOK
<1>7. RebuildOK'
  BY <1>2, <1>5, <1>6 DEF Core, ControlOK, RebuildOK
<1> QED BY <1>1, <1>3, <1>4, <1>7 DEF Core

LEMMA ForgetCore ==
    ASSUME Core, Forget
    PROVE  Core'
<1>1. ValuesOK'
  BY ValuesKept DEF Forget, Goto
<1>2. /\ pc[Task] = "forget" /\ pc' = [pc EXCEPT ![Task] = "idle"] /\ Task \in Threads
      /\ UNCHANGED <<readers, writer, waiting, got>>
  BY DEF Forget, Goto, guardVars, Threads
<1>3. ControlOK'
  BY <1>2 DEF Core, ControlOK, Loading, Updating, Guarded, Locked, Writing, Waiting, PCs
<1>4. GuardOK'
  BY <1>2 DEF Core, ControlOK, GuardOK, Guarded, Locked, Writing
<1>5. rebuilding' \in BOOLEAN
  BY Zenon DEF Forget
<1>6. \A u \in Threads : pc'[u] # "submit"
  BY <1>2 DEF Core, ControlOK, RebuildOK
<1>7. RebuildOK'
  BY <1>2, <1>5, <1>6 DEF Core, ControlOK, RebuildOK
<1> QED BY <1>1, <1>3, <1>4, <1>7 DEF Core

--------------------------------------------------------------------------------
(* Updates and what passes by itself.                                      *)

LEMMA UpdateCore ==
    ASSUME Core, NEW t \in Threads, Update(t)
    PROVE  Core'
<1>1. /\ pc[t] = "idle" /\ t \in Updaters /\ t # Task /\ pc' = [pc EXCEPT ![t] = "waitWrite"]
      /\ db \in 1..(MaxVersion - 1) /\ db' = db + 1
      /\ waiting' \in Seq(Threads)
      /\ UNCHANGED <<readers, writer, rebuilding, got, redis, l1, floor>>
  BY WaitsType, ShopCacheAssumption DEF Update, Goto
<1>2. ValuesOK'
  BY <1>1, ShopCacheAssumption DEF Core, ValuesOK, NeverOlderThanInvalidated, NotOlder, Versions
<1>3. ControlOK'
  BY <1>1 DEF Core, ControlOK, Loading, Updating, Guarded, Locked, Writing, Waiting, PCs
<1>4. GuardOK'
  BY <1>1 DEF Core, ControlOK, GuardOK, Guarded, Locked, Writing
<1>5. RebuildOK'
  BY <1>1 DEF Core, ControlOK, RebuildOK
<1> QED BY <1>2, <1>3, <1>4, <1>5 DEF Core

\* A new version nobody hears of: saveShop, or a commit whose reply is lost.
LEMMA SilentCore ==
    ASSUME Core, Save \/ \E t \in Threads : CommitReplyLost(t)
    PROVE  Core'
<1>1. /\ db' = db + 1 /\ db + 1 \in Versions
      /\ UNCHANGED <<redis, l1, guardVars, rebuilding, pc, got, floor>>
  BY ShopCacheAssumption DEF Save, CommitReplyLost, Versions
<1>2. ValuesOK'
  BY <1>1, ShopCacheAssumption DEF Core, ValuesOK, NeverOlderThanInvalidated, NotOlder, Versions
<1> QED BY <1>1, <1>2 DEF Core, ControlOK, GuardOK, RebuildOK, guardVars

LEMMA DeleteCore ==
    ASSUME Core, NEW t \in Threads, Delete(t) \/ (CallFails(t) /\ pc[t] = "delete")
    PROVE  Core'
<1>1. /\ pc[t] = "delete" /\ pc' = [pc EXCEPT ![t] = "invalidate"] /\ redis' \in {redis, None}
      /\ UNCHANGED <<db, l1, readers, writer, waiting, rebuilding, got, floor>>
  BY DEF Delete, CallFails, Goto, guardVars
<1>2. t \in Updaters /\ t # Task
  BY <1>1, ShopCacheAssumption DEF Core, ControlOK, Updating, Writing
<1>3. ValuesOK'
  BY <1>1 DEF Core, ValuesOK, NeverOlderThanInvalidated, NotOlder
<1>4. ControlOK'
  BY <1>1, <1>2 DEF Core, ControlOK, Loading, Updating, Guarded, Locked, Writing, Waiting, PCs
<1>5. GuardOK'
  BY <1>1 DEF Core, ControlOK, GuardOK, Guarded, Locked, Writing
<1>6. RebuildOK'
  BY <1>1, <1>2 DEF Core, ControlOK, RebuildOK
<1> QED BY <1>3, <1>4, <1>5, <1>6 DEF Core

\* Nobody has a version in hand while the write guard is held: what is left is current.
LEMMA InvalidateCore ==
    ASSUME Core, NEW t \in Threads, Invalidate(t)
    PROVE  Core'
<1>1. /\ pc[t] = "invalidate" /\ pc' = [pc EXCEPT ![t] = "idle"]
      /\ l1' = None /\ writer' = None /\ floor' = (IF redis = None THEN db ELSE floor)
      /\ UNCHANGED <<db, redis, readers, waiting, rebuilding, got>>
  BY DEF Invalidate, Goto
<1>2. t \in Updaters /\ t # Task /\ writer = t /\ t # None
  BY <1>1, ShopCacheAssumption DEF Core, ControlOK, GuardOK, Updating, Writing
<1>3. readers = {} /\ \A u \in Threads : got[u] = None
  BY <1>2 DEF Core, GuardOK
<1>4. ValuesOK'
  BY <1>1, <1>3 DEF Core, ValuesOK, NeverOlderThanInvalidated, NotOlder, Versions
<1>5. ControlOK'
  BY <1>1, <1>2 DEF Core, ControlOK, Loading, Updating, Guarded, Locked, Writing, Waiting, PCs
<1>6. GuardOK'
  BY <1>1, <1>2, <1>3 DEF Core, ControlOK, GuardOK, Guarded, Locked, Writing
<1>7. RebuildOK'
  BY <1>1, <1>2 DEF Core, ControlOK, RebuildOK
<1> QED BY <1>4, <1>5, <1>6, <1>7 DEF Core

LEMMA CrashCore ==
    ASSUME Core, Crash
    PROVE  Core'
<1>1. /\ pc' = [t \in Threads |-> "idle"] /\ got' = [t \in Threads |-> None]
      /\ l1' = None /\ readers' = {} /\ writer' = None /\ waiting' = << >>
      /\ UNCHANGED <<db, redis, floor>>
  BY DEF Crash
<1>2. ValuesOK'
  BY <1>1 DEF Core, ValuesOK, NeverOlderThanInvalidated, NotOlder
<1>3. ControlOK'
  BY <1>1, EmptySeq DEF ControlOK, Loading, Updating, Guarded, Locked, Writing, Waiting, PCs
<1>4. GuardOK'
  BY <1>1 DEF GuardOK, Guarded, Locked, Writing
<1>5. rebuilding' \in BOOLEAN
  BY Zenon DEF Crash
<1>6. RebuildOK'
  BY <1>1, <1>5 DEF RebuildOK, Threads
<1> QED BY <1>2, <1>3, <1>4, <1>6 DEF Core

LEMMA ExpiryCore ==
    ASSUME Core, Expiry \/ RenewalFails \/ UNCHANGED vars
    PROVE  Core'
<1>1. /\ redis' \in {redis, None} /\ l1' \in {l1, None}
      /\ UNCHANGED <<db, guardVars, rebuilding, pc, got, floor>>
  BY DEF Expiry, LeaseEnds, ExpireRedis, ExpireLocal, RenewalFails, vars
<1>2. ValuesOK'
  BY <1>1 DEF Core, ValuesOK, NeverOlderThanInvalidated, NotOlder
<1> QED BY <1>1, <1>2 DEF Core, ControlOK, GuardOK, RebuildOK, guardVars

LEMMA NextCore ==
    ASSUME Core, [Next]_vars
    PROVE  Core'
<1>1. ASSUME NEW t \in Threads, Work(t) PROVE Core'
  <2>1. CASE CheckDue(t)
    BY <2>1, LoadActions, CheckDueCore
  <2>2. CASE \/ ReadLocal(t) \/ ReadRedis(t) \/ PutLocal(t) \/ TakeLock(t) \/ LockBusy(t)
             \/ Recheck(t) \/ ReadDb(t) \/ StoreRedis(t) \/ StoreLocal(t) \/ Unlock(t)
    BY <2>2, LoadActions
  <2> QED BY <1>1, <2>1, <2>2, AcquireReadCore, AcquireWriteCore, ReleaseReadCore, SubmitCore,
             RejectedCore, DeleteCore, InvalidateCore, ForgetCore DEF Work
<1>2. ASSUME NEW t \in Threads, ThreadFault(t) PROVE Core'
  BY <1>2, LoadActions, DeleteCore, SilentCore DEF ThreadFault
<1> QED BY <1>1, <1>2, QueryCore, UpdateCore, SilentCore, CrashCore, ExpiryCore DEF Next

--------------------------------------------------------------------------------
(* The lock.                                                               *)

LEMMA NextLock ==
    ASSUME CacheInd, [Next]_vars
    PROVE  LockOK'
<1>1. ASSUME NEW t \in Threads, TakeLock(t) \/ Unlock(t) \/ LockReplyLost(t) \/ UnlockFails(t)
      PROVE  LockOK'
  <2>1. renewing' \in BOOLEAN
    BY <1>1, Zenon DEF CacheInd, LockOK, TakeLock, Unlock, LockReplyLost, UnlockFails, lockVars
  <2>2. lock' \in Threads \cup {None, Orphan} /\ faults' \in 0..MaxFaults
    <3>1. CASE TakeLock(t) \/ Unlock(t)
      BY <3>1, ShopCacheAssumption DEF CacheInd, LockOK, TakeLock, Unlock, lockVars
    <3>2. CASE LockReplyLost(t) \/ UnlockFails(t)
      <4>1. lock' = Orphan /\ Fault
        BY <3>2, Zenon DEF LockReplyLost, UnlockFails
      <4> QED BY <4>1, ShopCacheAssumption DEF CacheInd, LockOK, Fault
    <3> QED BY <1>1, <3>1, <3>2
  <2> QED BY <2>1, <2>2 DEF LockOK
<1>2. CASE RenewalFails \/ Crash
  <2>1. renewing' \in BOOLEAN
    BY <1>2, Zenon DEF RenewalFails, Crash
  <2>2. lock' \in Threads \cup {None, Orphan} /\ faults' \in 0..MaxFaults
    BY <1>2, ShopCacheAssumption DEF CacheInd, LockOK, RenewalFails, Crash, Fault
  <2> QED BY <2>1, <2>2 DEF LockOK
<1>3. CASE LeaseEnds
  BY <1>3 DEF CacheInd, LockOK, LeaseEnds
<1>4. ASSUME NEW t \in Threads, CallFails(t) \/ StoreReplyLost(t) \/ CommitReplyLost(t)
      PROVE  LockOK'
  BY <1>4, ShopCacheAssumption
     DEF CacheInd, LockOK, CallFails, StoreReplyLost, CommitReplyLost, Fault, lockVars
<1>5. ASSUME UNCHANGED <<lockVars, faults>> PROVE LockOK'
  BY <1>5 DEF CacheInd, LockOK, lockVars
<1>6. ASSUME NEW t \in Threads, Query(t) \/ Update(t) PROVE LockOK'
  BY <1>5, <1>6 DEF Query, Update, lockVars
<1>7. ASSUME NEW t \in Threads, Work(t) PROVE LockOK'
  <2>1. CASE AcquireRead(t) \/ AcquireWrite(t) \/ ReleaseRead(t) \/ Delete(t) \/ Invalidate(t)
    BY <2>1, <1>5 DEF AcquireRead, AcquireWrite, ReleaseRead, Delete, Invalidate, lockVars
  <2>2. CASE ReadLocal(t) \/ ReadRedis(t) \/ PutLocal(t) \/ CheckDue(t) \/ Submit(t) \/ Rejected(t)
    BY <2>2, <1>5 DEF ReadLocal, ReadRedis, PutLocal, CheckDue, Submit, Rejected, lockVars
  <2>3. CASE LockBusy(t) \/ Recheck(t) \/ ReadDb(t) \/ StoreRedis(t) \/ StoreLocal(t) \/ Forget
    BY <2>3, <1>5 DEF LockBusy, Recheck, ReadDb, StoreRedis, StoreLocal, Forget, lockVars
  <2> QED BY <1>1, <1>7, <2>1, <2>2, <2>3 DEF Work
<1>8. CASE Save \/ ExpireRedis \/ ExpireLocal \/ UNCHANGED vars
  BY <1>5, <1>8 DEF Save, ExpireRedis, ExpireLocal, vars, lockVars
<1> QED BY <1>1, <1>2, <1>3, <1>4, <1>6, <1>7, <1>8 DEF Next, ThreadFault, Expiry

--------------------------------------------------------------------------------
(* Who holds the guard and who waits for it.                               *)

\* What GuardOK does not say: holders are inside, and the queue is those who wait.
Queued(t) == \E i \in DOMAIN waiting : waiting[i] = t

QueueOK ==
    /\ \A t \in Threads : t \in readers => pc[t] \in Guarded
    /\ \A t \in Threads : writer = t => pc[t] \in Writing
    /\ \A t \in Threads : pc[t] \in Waiting <=> Queued(t)
    /\ \A i, j \in DOMAIN waiting : waiting[i] = waiting[j] => i = j

\* A thread is in one of three places, or in none.
SamePlace(t) ==
    /\ pc'[t] \in Guarded <=> pc[t] \in Guarded
    /\ pc'[t] \in Writing <=> pc[t] \in Writing
    /\ pc'[t] \in Waiting <=> pc[t] \in Waiting

LEMMA PlacesDiffer ==
    /\ Guarded \cap Writing = {} /\ Guarded \cap Waiting = {} /\ Writing \cap Waiting = {}
    /\ {"idle", "forget"} \cap (Guarded \cup Writing \cup Waiting) = {}
BY DEF Guarded, Locked, Writing, Waiting

LEMMA StayQueue ==
    ASSUME QueueOK, UNCHANGED guardVars, \A t \in Threads : SamePlace(t)
    PROVE  QueueOK'
BY DEF QueueOK, Queued, SamePlace, guardVars

\* One thread goes from one label to another of the same place.
LEMMA StepQueue ==
    ASSUME ControlOK, QueueOK, NEW t \in Threads, NEW label, UNCHANGED guardVars,
           pc' = [pc EXCEPT ![t] = label],
           \/ pc[t] \in Guarded /\ label \in Guarded
           \/ pc[t] \in Writing /\ label \in Writing
           \/ pc[t] = "forget" /\ label = "idle"
    PROVE  QueueOK'
<1>1. SamePlace(t)
  BY PlacesDiffer DEF ControlOK, SamePlace
<1>2. ASSUME NEW u \in Threads, u # t PROVE SamePlace(u)
  BY <1>2 DEF ControlOK, SamePlace
<1> QED BY <1>1, <1>2, StayQueue

\* Who joins the queue was idle, and in nobody's way.
LEMMA JoinQueue ==
    ASSUME ControlOK, QueueOK, NEW t \in Threads, Waits(t),
           pc[t] = "idle", pc'[t] \in Waiting, \A u \in Threads \ {t} : SamePlace(u)
    PROVE  QueueOK'
<1>1. /\ waiting \in Seq(Threads) /\ waiting' \in Seq(Threads)
      /\ Len(waiting') = Len(waiting) + 1 /\ waiting'[Len(waiting) + 1] = t
      /\ \A i \in 1..Len(waiting) : waiting'[i] = waiting[i]
  BY AppendProperties DEF ControlOK, Waits
<1>2. DOMAIN waiting = 1..Len(waiting) /\ DOMAIN waiting' = 1..(Len(waiting) + 1)
      /\ Len(waiting) \in Nat
  BY <1>1
<1>3. ~Queued(t) /\ UNCHANGED <<readers, writer>> /\ pc'[t] \notin Guarded \cup Writing
  BY PlacesDiffer DEF QueueOK, Waits
<1>4. ASSUME NEW u \in Threads PROVE Queued(u)' <=> Queued(u) \/ u = t
  BY <1>1, <1>2 DEF Queued
<1>5. \A u \in Threads : pc'[u] \in Waiting <=> Queued(u)'
  BY <1>4 DEF QueueOK, SamePlace
<1>6. \A i, j \in DOMAIN waiting' : waiting'[i] = waiting'[j] => i = j
  BY <1>1, <1>2, <1>3 DEF QueueOK, Queued
<1>7. /\ \A u \in Threads : u \in readers' => pc'[u] \in Guarded
      /\ \A u \in Threads : writer' = u => pc'[u] \in Writing
  BY <1>3, PlacesDiffer DEF QueueOK, SamePlace
<1> QED BY <1>5, <1>6, <1>7 DEF QueueOK

LEMMA WithoutFirst ==
    ASSUME NEW S, NEW s \in Seq(S), s # << >>
    PROVE  /\ Len(RemoveAt(s, 1)) = Len(s) - 1 /\ DOMAIN RemoveAt(s, 1) = 1..(Len(s) - 1)
           /\ \A i \in 1..(Len(s) - 1) : RemoveAt(s, 1)[i] = s[i + 1]
<1> DEFINE r == Tail(s)
<1>1. r \in Seq(S) /\ Len(r) = Len(s) - 1 /\ Len(s) \in Nat \ {0}
  BY HeadTailProperties
<1>2. \A i \in 1..(Len(s) - 1) : r[i] = s[i + 1]
  BY <1>1, HeadTailProperties
<1>3. RemoveAt(s, 1) = << >> \o SubSeq(s, 2, Len(s))
  BY SubSeqEmpty DEF RemoveAt
<1>4. RemoveAt(s, 1) = r
  BY <1>1, <1>3, TailIsSubSeq
<1> HIDE DEF r
<1>5. DOMAIN r = 1..(Len(s) - 1)
  BY <1>1
<1> QED BY <1>1, <1>2, <1>4, <1>5

\* Whose turn it is leaves the queue, and the others keep their order.
LEMMA LeavesQueue ==
    ASSUME ControlOK, QueueOK, NEW t \in Threads, Turn(t), waiting' = Leaves(t)
    PROVE  /\ \A u \in Threads : Queued(u)' <=> Queued(u) /\ u # t
           /\ \A i, j \in DOMAIN waiting' : waiting'[i] = waiting'[j] => i = j
<1>1. waiting \in Seq(Threads) /\ 1 \in DOMAIN waiting /\ waiting[1] = t /\ Len(waiting) \in Nat \ {0}
  BY DEF ControlOK, Turn
<1>2. (CHOOSE i \in DOMAIN waiting : waiting[i] = t) = 1
  BY <1>1 DEF QueueOK
<1>3. waiting' = RemoveAt(waiting, 1)
  BY <1>2 DEF Leaves
<1>4. /\ Len(waiting') = Len(waiting) - 1 /\ DOMAIN waiting' = 1..(Len(waiting) - 1)
      /\ \A i \in 1..(Len(waiting) - 1) : waiting'[i] = waiting[i + 1]
  BY <1>1, <1>3, WithoutFirst
<1>5. DOMAIN waiting = 1..Len(waiting)
  BY <1>1
<1>6. ASSUME NEW u \in Threads, Queued(u), u # t PROVE Queued(u)'
  <2>1. PICK i \in 1..Len(waiting) : waiting[i] = u
    BY <1>5, <1>6 DEF Queued
  <2>2. i - 1 \in 1..(Len(waiting) - 1) /\ waiting'[i - 1] = u
    BY <1>1, <1>4, <1>6, <2>1
  <2> QED BY <1>4, <2>2 DEF Queued
<1>7. ASSUME NEW u \in Threads, Queued(u)' PROVE Queued(u) /\ u # t
  <2>1. PICK i \in 1..(Len(waiting) - 1) : waiting'[i] = u
    BY <1>4, <1>7 DEF Queued
  <2>2. i + 1 \in 1..Len(waiting) /\ waiting[i + 1] = u /\ i + 1 # 1
    BY <1>1, <1>4, <2>1
  <2> QED BY <1>1, <1>5, <2>2 DEF Queued, QueueOK
<1>8. ASSUME NEW i \in DOMAIN waiting', NEW j \in DOMAIN waiting', waiting'[i] = waiting'[j]
      PROVE  i = j
  <2>1. i + 1 \in DOMAIN waiting /\ j + 1 \in DOMAIN waiting /\ waiting[i + 1] = waiting[j + 1]
    BY <1>1, <1>4, <1>5, <1>8
  <2> QED BY <2>1, <1>4 DEF QueueOK
<1> QED BY <1>6, <1>7, <1>8

LEMMA EnterQueue ==
    ASSUME Core, QueueOK, NEW t \in Threads, AcquireRead(t) \/ AcquireWrite(t)
    PROVE  QueueOK'
<1>1. PICK label \in Guarded \cup Writing : pc' = [pc EXCEPT ![t] = label]
  BY DEF AcquireRead, AcquireWrite, Goto, Guarded, Locked, Writing
<1>2. Turn(t) /\ waiting' = Leaves(t) /\ writer = None /\ pc'[t] = label
  BY <1>1 DEF AcquireRead, AcquireWrite, Core, ControlOK
<1>3. \/ label \in Guarded /\ readers' = readers \cup {t} /\ writer' = writer
      \/ label \in Writing /\ readers' = readers /\ writer' = t
  BY <1>1, <1>2 DEF AcquireRead, AcquireWrite, Goto, Guarded, Locked, Writing
<1>4. t \notin readers
  BY PlacesDiffer DEF QueueOK, AcquireRead, AcquireWrite, Waiting
<1>5. \A u \in Threads \ {t} : pc'[u] = pc[u]
  BY <1>1 DEF Core, ControlOK
<1>6. \A u \in Threads : pc'[u] \in Waiting <=> Queued(u)'
  BY <1>1, <1>2, <1>5, LeavesQueue, PlacesDiffer DEF QueueOK, Core
<1>7. /\ \A u \in Threads : u \in readers' => pc'[u] \in Guarded
      /\ \A u \in Threads : writer' = u => pc'[u] \in Writing
  BY <1>2, <1>3, <1>4, <1>5, ShopCacheAssumption DEF QueueOK
<1> QED BY <1>2, <1>6, <1>7, LeavesQueue DEF QueueOK, Core

LEMMA ExitQueue ==
    ASSUME Core, QueueOK, NEW t \in Threads, ReleaseRead(t) \/ Invalidate(t)
    PROVE  QueueOK'
<1>1. PICK label \in {"idle", "forget"} : pc' = [pc EXCEPT ![t] = label]
  BY DEF ReleaseRead, Invalidate, Goto, GoWith
<1>2. pc[t] \notin Waiting /\ pc'[t] \notin Waiting /\ waiting' = waiting
  BY <1>1, PlacesDiffer DEF ReleaseRead, Invalidate, Guarded, Writing, Waiting, Core, ControlOK
<1>3. \A u \in Threads \ {t} : pc'[u] = pc[u]
  BY <1>1 DEF Core, ControlOK
<1>4. /\ \A u \in Threads : u \in readers' => u \in readers /\ u # t
      /\ \A u \in Threads : writer' = u => writer = u /\ u # t
  <2>1. CASE ReleaseRead(t)
    BY <2>1, PlacesDiffer DEF ReleaseRead, QueueOK, Guarded
  <2>2. CASE Invalidate(t)
    BY <2>2, PlacesDiffer, ShopCacheAssumption DEF Invalidate, QueueOK, Writing
  <2> QED BY <2>1, <2>2
<1>5. \A u \in Threads : pc'[u] \in Waiting <=> Queued(u)'
  BY <1>2, <1>3 DEF QueueOK, Queued
<1> QED BY <1>2, <1>3, <1>4, <1>5 DEF QueueOK

LEMMA NextQueue ==
    ASSUME Core, QueueOK, [Next]_vars
    PROVE  QueueOK'
<1>1. ASSUME NEW t \in Threads, Query(t) \/ Update(t) PROVE QueueOK'
  <2>1. PICK label \in Waiting : pc' = [pc EXCEPT ![t] = label]
    BY <1>1 DEF Query, Update, Goto, Waiting
  <2>2. Waits(t) /\ pc[t] = "idle" /\ pc'[t] \in Waiting /\ \A u \in Threads \ {t} : SamePlace(u)
    BY <1>1, <2>1 DEF Query, Update, Core, ControlOK, SamePlace
  <2> QED BY <2>2, JoinQueue DEF Core
<1>2. ASSUME NEW t \in Threads, Submit(t) PROVE QueueOK'
  <2>1. /\ Task \in Threads /\ pc[Task] = "idle" /\ t # Task /\ pc[t] = "submit" /\ Waits(Task)
        /\ pc' = [pc EXCEPT ![t] = "unguard", ![Task] = "waitRead"]
    BY <1>2 DEF Submit, Core, RebuildOK, Threads
  <2>2. pc'[Task] \in Waiting /\ pc'[t] = "unguard" /\ \A u \in Threads \ {t, Task} : pc'[u] = pc[u]
    BY <2>1 DEF Core, ControlOK, Waiting
  <2>3. \A u \in Threads \ {Task} : SamePlace(u)
    BY <2>1, <2>2, PlacesDiffer DEF SamePlace, Guarded
  <2> QED BY <2>1, <2>2, <2>3, JoinQueue DEF Core
<1>3. ASSUME NEW t \in Threads,
             \/ ReadLocal(t) \/ ReadRedis(t) \/ PutLocal(t) \/ CheckDue(t) \/ Rejected(t)
             \/ TakeLock(t) \/ LockBusy(t)
      PROVE  QueueOK'
  <2>1. PICK label \in Guarded : pc' = [pc EXCEPT ![t] = label]
    BY <1>3 DEF ReadLocal, ReadRedis, PutLocal, CheckDue, Rejected, TakeLock, LockBusy,
                Goto, GoWith, Guarded, Locked
  <2>2. pc[t] \in Guarded /\ UNCHANGED guardVars
    BY <1>3 DEF ReadLocal, ReadRedis, PutLocal, CheckDue, Rejected, TakeLock, LockBusy,
                Guarded, Locked
  <2> QED BY <2>1, <2>2, StepQueue DEF Core
<1>4. ASSUME NEW t \in Threads,
             \/ Recheck(t) \/ ReadDb(t) \/ StoreRedis(t) \/ StoreLocal(t) \/ Unlock(t)
             \/ StoreReplyLost(t) \/ LockReplyLost(t) \/ UnlockFails(t)
             \/ (CallFails(t) /\ pc[t] # "delete")
      PROVE  QueueOK'
  <2>1. PICK label \in Guarded : pc' = [pc EXCEPT ![t] = label]
    BY <1>4 DEF Recheck, ReadDb, StoreRedis, StoreLocal, Unlock, AfterLock, StoreReplyLost,
                LockReplyLost, UnlockFails, CallFails, Goto, GoWith, Guarded, Locked
  <2>2. pc[t] \in Guarded /\ UNCHANGED guardVars
    BY <1>4 DEF Recheck, ReadDb, StoreRedis, StoreLocal, Unlock, StoreReplyLost,
                LockReplyLost, UnlockFails, CallFails, Guarded, Locked
  <2> QED BY <2>1, <2>2, StepQueue DEF Core
<1>5. ASSUME NEW t \in Threads, Delete(t) \/ (CallFails(t) /\ pc[t] = "delete") PROVE QueueOK'
  <2>1. /\ pc[t] \in Writing /\ "invalidate" \in Writing /\ UNCHANGED guardVars
        /\ pc' = [pc EXCEPT ![t] = "invalidate"]
    BY <1>5 DEF Delete, CallFails, Goto, Writing
  <2> QED BY <2>1, StepQueue DEF Core
<1>6. ASSUME Forget PROVE QueueOK'
  BY <1>6, StepQueue DEF Forget, Goto, Core, Threads
<1>7. ASSUME NEW t \in Threads, Work(t) PROVE QueueOK'
  BY <1>2, <1>3, <1>4, <1>5, <1>6, <1>7, EnterQueue, ExitQueue DEF Work
<1>8. CASE Crash
  <2>1. /\ readers' = {} /\ writer' = None /\ waiting' = << >>
        /\ pc' = [t \in Threads |-> "idle"]
    BY <1>8 DEF Crash
  <2>2. DOMAIN waiting' = {} /\ \A t \in Threads : pc'[t] \notin Waiting /\ writer' # t
    BY <2>1, ShopCacheAssumption DEF Waiting
  <2> QED BY <2>1, <2>2 DEF QueueOK, Queued
<1>9. ASSUME UNCHANGED <<guardVars, pc>> PROVE QueueOK'
  BY <1>9, StayQueue DEF SamePlace
<1>10. CASE Save \/ RenewalFails \/ Expiry \/ UNCHANGED vars
  BY <1>9, <1>10 DEF Save, RenewalFails, Expiry, LeaseEnds, ExpireRedis, ExpireLocal, vars
<1>11. ASSUME NEW t \in Threads, ThreadFault(t) PROVE QueueOK'
  BY <1>4, <1>5, <1>9, <1>11 DEF ThreadFault, CommitReplyLost
<1> QED BY <1>1, <1>7, <1>8, <1>10, <1>11 DEF Next

LEMMA InitQueue ==
    ASSUME Init
    PROVE  QueueOK
<1>1. DOMAIN waiting = {} /\ \A t \in Threads : pc[t] \notin Waiting /\ writer # t
  BY ShopCacheAssumption DEF Init, Waiting
<1> QED BY <1>1 DEF Init, QueueOK, Queued

LEMMA Accounted == Core /\ QueueOK => GuardAccounted
<1> SUFFICES ASSUME Core, QueueOK PROVE GuardAccounted
  OBVIOUS
<1>1. readers = {t \in Threads : pc[t] \in Guarded}
  BY DEF Core, GuardOK, QueueOK, Threads
<1>2. \A t \in Threads : writer = t <=> pc[t] \in Writing
  BY DEF Core, GuardOK, QueueOK
<1>3. ToSet(waiting) = {t \in Threads : pc[t] \in Waiting}
  <2>1. \A i \in DOMAIN waiting : waiting[i] \in Threads
    BY DEF Core, ControlOK
  <2> QED BY <2>1 DEF QueueOK, Queued, ToSet
<1>4. IsInjective(waiting)
  BY DEF QueueOK, IsInjective
<1> QED BY <1>1, <1>2, <1>3, <1>4 DEF GuardAccounted

\* Who is inside has a step; when nobody is inside the first of the queue may enter.
LEMMA Unjammed == Core /\ QueueOK => NobodyJammed
<1> SUFFICES ASSUME Core, QueueOK, waiting # << >>, \A t \in Threads : ~GoesOn(t)
             PROVE  MayEnter(Head(waiting))
  BY DEF NobodyJammed
<1>1. Head(waiting) \in Threads /\ Queued(Head(waiting))
  BY DEF Core, ControlOK, Queued
<1>2. \A t \in Threads : pc[t] \notin Guarded \cup Writing
  BY PlacesDiffer DEF Core, ControlOK, GoesOn, GivesUp, Loading, Writing
<1>3. readers = {} /\ writer = None
  BY <1>2 DEF Core, GuardOK, QueueOK, Threads
<1> QED BY <1>1, <1>3 DEF QueueOK, Waiting, MayEnter, Drained

--------------------------------------------------------------------------------
\* No load, rebuild or failure puts a version back into a cache, or leaves it in the hands of
\* a thread, that is older than the last invalidation that went through; and the guard is
\* held by those who are inside it, and never jammed (ShopCacheService).
THEOREM CacheInvariance == Spec => []CacheInv
<1>1. Init => CacheInd /\ QueueOK
  BY InitInd, InitQueue
<1>2. CacheInd /\ QueueOK /\ [Next]_vars => CacheInd' /\ QueueOK'
  BY NextCore, NextLock, NextQueue DEF CacheInd, Core
<1>3. CacheInd /\ QueueOK => CacheInv
  BY IndTypes, Accounted, Unjammed DEF CacheInd, Core, CacheInv
<1> QED BY <1>1, <1>2, <1>3, PTL DEF Spec
================================================================================
