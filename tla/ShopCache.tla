------------------------------- MODULE ShopCache -------------------------------
(***************************************************************************)
(* The two-level cache of one shop in one application instance             *)
(* (ShopCacheService): Caffeine (L1), Redis, MySQL, the fair read-write    *)
(* guard of the shop's stripe, the Redisson lock around a load, and the    *)
(* asynchronous rebuild of a hot entry whose logical deadline has passed.  *)
(*                                                                         *)
(* A shop is its version: each committed update makes a new one, 0 is a    *)
(* shop that does not exist.  A cached 0 is the empty string in Redis.     *)
(* A call to Redis, to the lock or to MySQL is one step and may fail; the  *)
(* lock of a thread that went away without unlocking is held by Orphan.    *)
(* Times are abstracted: an entry may expire, or be found past its logical *)
(* deadline, whenever it is looked at.                                     *)
(***************************************************************************)
EXTENDS Integers, Sequences, FiniteSets, SequencesExt

CONSTANTS
    Readers,        \* threads that serve GET /shop/{id}
    Updaters,       \* threads that serve PUT /shop
    Task,           \* the rebuild task of the shop in the pool, queued or running
    Hot,            \* the shop is one of the configured hot ids
    MaxVersion,     \* bound on the updates
    MaxFaults,      \* bound on failed calls, lost replies and crashes
    None,           \* nothing
    Orphan          \* holder of a lock whose thread went away

Threads  == Readers \cup Updaters \cup {Task}
Versions == 0..MaxVersion

ASSUME ShopCacheAssumption ==
    /\ Hot \in BOOLEAN /\ MaxVersion \in Nat \ {0} /\ MaxFaults \in Nat
    /\ Readers \cap Updaters = {} /\ Task \notin Readers \cup Updaters
    /\ None \notin Nat /\ {None, Orphan} \cap Threads = {} /\ None # Orphan

VARIABLES
    db,             \* MySQL: the committed version
    redis,          \* the version in cache:shop:{id}, None if there is no key
    l1,             \* the version in Caffeine
    lock,           \* holder of lock:shop:{id}
    renewing,       \* the watchdog extends the lock's lease
    readers,        \* threads that hold the read guard
    writer,         \* the thread that holds the write guard
    waiting,        \* threads that wait for the guard, first come first served
    rebuilding,     \* the id is in the set of ids being rebuilt
    pc,             \* what each thread does next
    got,            \* the version it has in hand
    floor,          \* history: the database when caches were last cleared after a commit
    faults          \* faults so far

guardVars == <<readers, writer, waiting>>
lockVars  == <<lock, renewing>>
vars == <<db, redis, l1, lockVars, guardVars, rebuilding, pc, got, floor, faults>>

\* Labels at which a thread is inside the read guard, and inside the lock as well.
Locked  == {"recheck", "db", "storeRedis", "storeLocal", "unlock"}
Guarded == {"local", "redis", "lock", "put", "due", "submit", "unguard"} \cup Locked
Writing == {"delete", "invalidate"}
Waiting == {"waitRead", "waitWrite"}
PCs     == {"idle", "forget"} \cup Waiting \cup Guarded \cup Writing

Init ==
    /\ db \in {0, 1}
    /\ redis \in {None, db}
    /\ l1 = None
    /\ lock = None /\ renewing = FALSE
    /\ readers = {} /\ writer = None /\ waiting = <<>>
    /\ rebuilding = FALSE
    /\ pc = [t \in Threads |-> "idle"]
    /\ got = [t \in Threads |-> None]
    /\ floor = 0
    /\ faults = 0

--------------------------------------------------------------------------------
(* How a step of a thread ends.                                            *)

Goto(t, label) ==
    /\ pc' = [pc EXCEPT ![t] = label]
    /\ UNCHANGED got

\* A read returned version v, or None: the key is missing.
GoWith(t, label, v) ==
    /\ pc' = [pc EXCEPT ![t] = label]
    /\ got' = [got EXCEPT ![t] = v]

Fault ==
    /\ faults < MaxFaults
    /\ faults' = faults + 1

--------------------------------------------------------------------------------
(* The guard: a fair ReentrantReadWriteLock.                               *)

\* Slip: a lock made without "fair" lets a reader pass a waiting writer.
Barging(t) == t \in ToSet(waiting) /\ (pc[t] = "waitRead" \/ Head(waiting) = t)

\* A fair lock is given to the thread that has waited longest.
Turn(t) == waiting # << >> /\ Head(waiting) = t

Waits(t) == waiting' = Append(waiting, t) /\ UNCHANGED <<readers, writer>>

Leaves(t) == RemoveAt(waiting, CHOOSE i \in DOMAIN waiting : waiting[i] = t)

AcquireRead(t) ==
    /\ pc[t] = "waitRead"
    /\ Turn(t) /\ writer = None
    /\ readers' = readers \cup {t}
    /\ waiting' = Leaves(t)
    /\ Goto(t, IF t = Task THEN "lock" ELSE "local")
    /\ UNCHANGED <<db, redis, l1, lockVars, writer, rebuilding, floor, faults>>

\* Slip: the invalidation does not wait for the loads under way.
AnyTime == TRUE

Drained == readers = {}

AcquireWrite(t) ==
    /\ pc[t] = "waitWrite"
    /\ Turn(t) /\ writer = None /\ Drained
    /\ writer' = t
    /\ waiting' = Leaves(t)
    /\ Goto(t, "delete")
    /\ UNCHANGED <<db, redis, l1, lockVars, readers, rebuilding, floor, faults>>

\* The finally blocks: the read guard is given back whatever happened before.  The
\* task has the id taken out of the set of ids being rebuilt afterwards.
ReleaseRead(t) ==
    /\ pc[t] = "unguard"
    /\ readers' = readers \ {t}
    /\ GoWith(t, IF t = Task THEN "forget" ELSE "idle", None)
    /\ UNCHANGED <<db, redis, l1, lockVars, writer, waiting, rebuilding, floor, faults>>

--------------------------------------------------------------------------------
(* query: a request for the shop.                                          *)

Query(t) ==
    /\ t \in Readers /\ pc[t] = "idle"
    /\ Goto(t, "waitRead")
    /\ Waits(t)
    /\ UNCHANGED <<db, redis, l1, lockVars, rebuilding, floor, faults>>

ReadLocal(t) ==
    /\ pc[t] = "local"
    /\ IF l1 # None THEN GoWith(t, "due", l1) ELSE Goto(t, "redis")
    /\ UNCHANGED <<db, redis, l1, lockVars, guardVars, rebuilding, floor, faults>>

ReadRedis(t) ==
    /\ pc[t] = "redis"
    /\ IF redis # None THEN GoWith(t, "put", redis) ELSE Goto(t, "lock")
    /\ UNCHANGED <<db, redis, l1, lockVars, guardVars, rebuilding, floor, faults>>

\* Slip: "no such shop" is kept in L1, too.
Anything(v) == v

\* What L1 keeps of a loaded version: not that there is no such shop.
Kept(v) == IF v = 0 THEN None ELSE v

\* The entry that query returns is put into L1, unless it says "no such shop".
PutLocal(t) ==
    /\ pc[t] = "put"
    /\ IF got[t] = 0
       THEN Goto(t, "unguard") /\ UNCHANGED l1
       ELSE Goto(t, "due") /\ l1' = got[t]
    /\ UNCHANGED <<db, redis, lockVars, guardVars, rebuilding, floor, faults>>

\* rebuildLater: an entry past its logical deadline is returned as it is, and the first
\* to notice hands a task to the pool.
CheckDue(t) ==
    /\ pc[t] = "due"
    /\ \/ Goto(t, "unguard") /\ UNCHANGED rebuilding
       \/ Hot /\ ~rebuilding /\ rebuilding' = TRUE /\ Goto(t, "submit")
    /\ UNCHANGED <<db, redis, l1, lockVars, guardVars, floor, faults>>

Submit(t) ==
    /\ pc[t] = "submit"
    /\ pc' = [pc EXCEPT ![t] = "unguard", ![Task] = "waitRead"]
    /\ Waits(Task)
    /\ UNCHANGED <<db, redis, l1, lockVars, rebuilding, got, floor, faults>>

\* Slip: the id stays in the set when the pool refuses the task.
NotForgotten == UNCHANGED rebuilding

Forgotten == rebuilding' = FALSE

\* The queue of the pool is full of tasks for other shops.
Rejected(t) ==
    /\ pc[t] = "submit"
    /\ Forgotten
    /\ Goto(t, "unguard")
    /\ UNCHANGED <<db, redis, l1, lockVars, guardVars, floor, faults>>

--------------------------------------------------------------------------------
(* loadCold and the task: under the lock, look again, then load.           *)

\* A query waits for the lock and gives up after a while; the task only tries.
TakeLock(t) ==
    /\ pc[t] = "lock"
    /\ lock = None
    /\ lock' = t /\ renewing' = TRUE
    /\ Goto(t, "recheck")
    /\ UNCHANGED <<db, redis, l1, guardVars, rebuilding, floor, faults>>

\* Slip: a query waits for the lock without a limit.
OnlyTask(t) == t = Task

\* The time limit of a query's tryLock, and the task's tryLock without waiting.
GivesUp(t) == t \in Readers \cup {Task}

LockBusy(t) ==
    /\ pc[t] = "lock"
    /\ lock # None
    /\ GivesUp(t)
    /\ Goto(t, "unguard")
    /\ UNCHANGED <<db, redis, l1, lockVars, guardVars, rebuilding, floor, faults>>

\* What another thread has stored meanwhile is used.  The task loads a missing entry,
\* and one past its deadline; "no such shop" has no deadline.
Recheck(t) ==
    /\ pc[t] = "recheck"
    /\ IF redis = None THEN Goto(t, "db")
       ELSE IF t \in Readers THEN GoWith(t, "unlock", redis)
       ELSE \/ redis # 0 /\ Goto(t, "db")
            \/ GoWith(t, "storeLocal", redis)
    /\ UNCHANGED <<db, redis, l1, lockVars, guardVars, rebuilding, floor, faults>>

ReadDb(t) ==
    /\ pc[t] = "db"
    /\ GoWith(t, "storeRedis", db)
    /\ UNCHANGED <<db, redis, l1, lockVars, guardVars, rebuilding, floor, faults>>

StoreRedis(t) ==
    /\ pc[t] = "storeRedis"
    /\ redis' = got[t]
    /\ Goto(t, "storeLocal")
    /\ UNCHANGED <<db, l1, lockVars, guardVars, rebuilding, floor, faults>>

StoreLocal(t) ==
    /\ pc[t] = "storeLocal"
    /\ l1' = Kept(got[t])
    /\ Goto(t, "unlock")
    /\ UNCHANGED <<db, redis, lockVars, guardVars, rebuilding, floor, faults>>

\* Where a thread goes after the lock: a query without a value throws.
AfterLock(t) == IF t = Task \/ got[t] = None THEN "unguard" ELSE "put"

\* isHeldByCurrentThread and unlock: a lock that was lost is left alone.
Unlock(t) ==
    /\ pc[t] = "unlock"
    /\ IF lock = t THEN lock' = None /\ renewing' = FALSE ELSE UNCHANGED lockVars
    /\ Goto(t, AfterLock(t))
    /\ UNCHANGED <<db, redis, l1, guardVars, rebuilding, floor, faults>>

Forget ==
    /\ pc[Task] = "forget"
    /\ rebuilding' = FALSE
    /\ Goto(Task, "idle")
    /\ UNCHANGED <<db, redis, l1, lockVars, guardVars, floor, faults>>

--------------------------------------------------------------------------------
(* saveShop, update and its afterCommit hook.                              *)

\* saveShop inserts a new shop and tells no cache.
Save ==
    /\ db = 0
    /\ db' = 1
    /\ UNCHANGED <<redis, l1, lockVars, guardVars, rebuilding, pc, got, floor, faults>>

\* The update commits; the hook waits for the loads that are under way.
Update(t) ==
    /\ t \in Updaters /\ pc[t] = "idle"
    /\ db \in 1..(MaxVersion - 1)
    /\ db' = db + 1
    /\ Goto(t, "waitWrite")
    /\ Waits(t)
    /\ UNCHANGED <<redis, l1, lockVars, rebuilding, floor, faults>>

Delete(t) ==
    /\ pc[t] = "delete"
    /\ redis' = None
    /\ Goto(t, "invalidate")
    /\ UNCHANGED <<db, l1, lockVars, guardVars, rebuilding, floor, faults>>

\* L1 is cleared even if the delete failed, and the guard given back.
Invalidate(t) ==
    /\ pc[t] = "invalidate"
    /\ l1' = None
    /\ writer' = None
    /\ floor' = IF redis = None THEN db ELSE floor
    /\ Goto(t, "idle")
    /\ UNCHANGED <<db, redis, lockVars, readers, waiting, rebuilding, faults>>

--------------------------------------------------------------------------------
(* What goes wrong.                                                        *)

\* A call throws before it takes effect: the query fails, the task logs, both go
\* through their finally blocks; a failed delete is logged.
CallFails(t) ==
    /\ Fault
    /\ \/ pc[t] \in {"redis", "lock"} /\ GoWith(t, "unguard", None)
       \/ pc[t] \in {"recheck", "db", "storeRedis"} /\ GoWith(t, "unlock", None)
       \/ pc[t] = "delete" /\ Goto(t, "invalidate")
    /\ UNCHANGED <<db, redis, l1, lockVars, guardVars, rebuilding, floor>>

\* The call took effect, its reply is lost: the caller sees an exception.
StoreReplyLost(t) ==
    /\ Fault
    /\ pc[t] = "storeRedis"
    /\ redis' = got[t]
    /\ GoWith(t, "unlock", None)
    /\ UNCHANGED <<db, l1, lockVars, guardVars, rebuilding, floor>>

\* The lock was taken, but the client does not know: nobody unlocks or renews it.
LockReplyLost(t) ==
    /\ Fault
    /\ pc[t] = "lock" /\ lock = None
    /\ lock' = Orphan /\ renewing' = FALSE
    /\ Goto(t, "unguard")
    /\ UNCHANGED <<db, redis, l1, guardVars, rebuilding, floor>>

\* isHeldByCurrentThread throws: unlock is not called, and the watchdog goes on.  Or
\* unlock throws: the watchdog stops, the lease runs out.
UnlockFails(t) ==
    /\ Fault
    /\ pc[t] = "unlock" /\ lock = t
    /\ lock' = Orphan
    /\ renewing' \in {renewing, FALSE}
    /\ GoWith(t, "unguard", None)
    /\ UNCHANGED <<db, redis, l1, guardVars, rebuilding, floor>>

\* The watchdog cannot reach Redis and gives up.
RenewalFails ==
    /\ Fault
    /\ renewing
    /\ renewing' = FALSE
    /\ UNCHANGED <<db, redis, l1, lock, guardVars, rebuilding, pc, got, floor>>

\* The reply to the commit is lost: afterCommit is not called.
CommitReplyLost(t) ==
    /\ Fault
    /\ t \in Updaters /\ pc[t] = "idle"
    /\ db \in 1..(MaxVersion - 1)
    /\ db' = db + 1
    /\ UNCHANGED <<redis, l1, lockVars, guardVars, rebuilding, pc, got, floor>>

Crash ==
    /\ Fault
    /\ l1' = None
    /\ lock' = (IF lock = None THEN None ELSE Orphan) /\ renewing' = FALSE
    /\ readers' = {} /\ writer' = None /\ waiting' = <<>>
    /\ rebuilding' = FALSE
    /\ pc' = [t \in Threads |-> "idle"]
    /\ got' = [t \in Threads |-> None]
    /\ UNCHANGED <<db, redis, floor>>

LeaseEnds ==
    /\ lock # None /\ ~renewing
    /\ lock' = None
    /\ UNCHANGED <<db, redis, l1, renewing, guardVars, rebuilding, pc, got, floor, faults>>

\* Slip: only "no such shop" is stored with a time to live.
OnlyEmpty == redis = 0

\* Everything is stored with one.
HasTtl == redis # None

ExpireRedis ==
    /\ HasTtl
    /\ redis' = None
    /\ UNCHANGED <<db, l1, lockVars, guardVars, rebuilding, pc, got, floor, faults>>

\* Caffeine: seconds after the write, or when it is full.
ExpireLocal ==
    /\ l1 # None
    /\ l1' = None
    /\ UNCHANGED <<db, redis, lockVars, guardVars, rebuilding, pc, got, floor, faults>>

--------------------------------------------------------------------------------
Work(t) ==
    \/ AcquireRead(t) \/ AcquireWrite(t) \/ ReleaseRead(t)
    \/ ReadLocal(t) \/ ReadRedis(t) \/ PutLocal(t) \/ CheckDue(t) \/ Submit(t) \/ Rejected(t)
    \/ TakeLock(t) \/ LockBusy(t) \/ Recheck(t) \/ ReadDb(t)
    \/ StoreRedis(t) \/ StoreLocal(t) \/ Unlock(t)
    \/ Delete(t) \/ Invalidate(t)
    \/ t = Task /\ Forget

ThreadFault(t) ==
    \/ CallFails(t) \/ StoreReplyLost(t) \/ LockReplyLost(t)
    \/ UnlockFails(t) \/ CommitReplyLost(t)

Expiry == LeaseEnds \/ ExpireRedis \/ ExpireLocal

Next ==
    \/ \E t \in Threads : Query(t) \/ Update(t) \/ Work(t) \/ ThreadFault(t)
    \/ Save \/ RenewalFails \/ Crash \/ Expiry

Spec == Init /\ [][Next]_vars

Fairness ==
    /\ \A t \in Threads : WF_vars(Work(t))
    /\ WF_vars(LeaseEnds) /\ WF_vars(ExpireRedis) /\ WF_vars(ExpireLocal)

FairSpec == Spec /\ Fairness

--------------------------------------------------------------------------------
(* Properties.                                                             *)

TypeOK ==
    /\ db \in Versions /\ floor \in Versions
    /\ redis \in Versions \cup {None} /\ l1 \in (Versions \ {0}) \cup {None}
    /\ lock \in Threads \cup {None, Orphan} /\ renewing \in BOOLEAN
    /\ readers \subseteq Readers \cup {Task}
    /\ writer \in Updaters \cup {None}
    /\ waiting \in Seq(Threads)
    /\ rebuilding \in BOOLEAN
    /\ pc \in [Threads -> PCs]
    /\ got \in [Threads -> Versions \cup {None}]
    /\ faults \in 0..MaxFaults

NotOlder(v) == v = None \/ v >= floor

\* Once an update's invalidation has gone through, nothing older is in either cache or
\* in the hands of a thread that could return or store it, whatever was being loaded while
\* the update committed (invalidateAfterCommit waits for the loads under way).
NeverOlderThanInvalidated ==
    NotOlder(redis) /\ NotOlder(l1) /\ \A t \in Threads : NotOlder(got[t])

\* Every way out of a load, a refused task, a failed delete and an error included, gives
\* the guard back, and nobody goes on without it: it is held by those who are inside, and
\* its queue has everyone who waits, once (the finally blocks of query, rebuild and
\* invalidateAfterCommit).
GuardAccounted ==
    /\ readers = {t \in Threads : pc[t] \in Guarded}
    /\ \A t \in Threads : writer = t <=> pc[t] \in Writing
    /\ ToSet(waiting) = {t \in Threads : pc[t] \in Waiting} /\ IsInjective(waiting)

\* Inside, only the lock of a load can be taken by others, and its time limit ends that.
GoesOn(t) ==
    /\ pc[t] \in Guarded \cup Writing
    /\ pc[t] = "lock" => lock = None \/ GivesUp(t)

MayEnter(t) ==
    /\ writer = None
    /\ pc[t] = "waitRead" \/ (pc[t] = "waitWrite" /\ Drained)

\* Readers that hold the guard while they wait for the lock, an update that queues behind
\* them and readers behind it never all wait for one another: the first in the queue may
\* enter, or somebody inside has a step (loadCold takes the lock inside the guard).
NobodyJammed ==
    waiting # << >> => MayEnter(Head(waiting)) \/ \E t \in Threads : GoesOn(t)

\* What the two caches, every load under way and the guard hold, in all.
CacheInv == TypeOK /\ NeverOlderThanInvalidated /\ GuardAccounted /\ NobodyJammed

\* Every query ends, with an answer or an error: waiting for the lock inside the
\* guard, with an update waiting outside, blocks nobody for good.
QueryAnswers == \A t \in Readers : pc[t] = "waitRead" ~> pc[t] = "idle"

\* An update is not held up for ever by queries that keep coming (the guard is fair).
UpdateReturns == \A t \in Updaters : pc[t] = "waitWrite" ~> pc[t] = "idle"

\* A shop does not stay in the set of ids being rebuilt: a full queue, a busy lock or a
\* failing load lets a later query try again (rebuildLater).
RebuildEnds == rebuilding ~> ~rebuilding

\* Whoever uses the cache comes to an end.
EveryCallEnds == QueryAnswers /\ UpdateReturns /\ RebuildEnds

\* When the updates stop both caches come to agree with MySQL, even after a delete that
\* failed, a commit whose hook never ran, or a crash before it.
EventuallyFresh == <>[](redis \in {None, db} /\ l1 \in {None, db})

\* "uses the watchdog; unlocked in the same thread's finally" (loadCold): a
\* lock is not left behind for good.
OrphanEnds == lock = Orphan ~> lock # Orphan
================================================================================
