---------------------------- MODULE SocialProjection ----------------------------
(***************************************************************************)
(* The likes of one blog: the relation and its count in MySQL, their       *)
(* projection in Redis with a time to live, and the Redisson lock that     *)
(* covers the transaction and the projection (SocialInteractionService,    *)
(* SocialTransactionService, SocialProjectionService).  The follows of one *)
(* user are kept by the same code, without a count.                        *)
(*                                                                         *)
(* A projection without its marker "0", or of another type, counts as      *)
(* missing.  The lock of a thread that went away is held by Orphan.        *)
(***************************************************************************)
EXTENDS Integers, FiniteSets

CONSTANTS
    Users,
    Threads,        \* request threads: each serves an interaction or a query
    Legacy,         \* likes counted before their identities were stored
    Ttl,            \* life of a snapshot in ticks
    MaxFaults,      \* bound on failed calls, lost replies and crashes
    None,           \* nothing
    Orphan          \* holder of a lock whose thread went away

VARIABLES
    table,          \* tb_blog_like: the users who like the blog
    liked,          \* tb_blog.liked
    row,            \* the thread whose transaction holds the row lock of the blog
    cache,          \* blog:liked:{id}: a complete snapshot, or None
    age,            \* ticks since the snapshot was written
    lock,           \* holder of the Redisson lock
    renewing,       \* the watchdog extends its lease
    pc,             \* what each thread does next
    user,           \* the user it serves
    got,            \* what it has read: the rows, the old like, the answer
    disturbed,      \* history: a failure left a commit without its projection
    faults

dbVars    == <<table, liked, row>>
cacheVars == <<cache, age>>
lockVars  == <<lock, renewing>>
vars == <<dbVars, cacheVars, lockVars, pc, user, got, disturbed, faults>>

\* The lock is held for an interaction, or for the rebuild a query asks for.
Project == {"project", "rebuild", "replace", "delete"}
Refresh == {"recheck", "reload", "restore"}
PCs == {"idle", "lock", "begin", "commit", "unlock", "ready", "wait", "leave", "read",
        "answered"} \cup Project \cup Refresh
Desires == {"like", "unlike", "toggle"}

Init ==
    /\ table \in SUBSET Users
    /\ liked = Cardinality(table) + Legacy
    /\ row = None
    /\ cache \in {None, table}
    /\ age = 0
    /\ lock = None /\ renewing = FALSE
    /\ pc = [t \in Threads |-> "idle"]
    /\ user = [t \in Threads |-> None]
    /\ got = [t \in Threads |-> None]
    /\ disturbed = FALSE
    /\ faults = 0

--------------------------------------------------------------------------------
Goto(t, label) ==
    /\ pc' = [pc EXCEPT ![t] = label]
    /\ UNCHANGED <<user, got>>

GoWith(t, label, value) ==
    /\ pc' = [pc EXCEPT ![t] = label]
    /\ got' = [got EXCEPT ![t] = value]
    /\ UNCHANGED user

Done(t) ==
    /\ pc' = [pc EXCEPT ![t] = "idle"]
    /\ user' = [user EXCEPT ![t] = None]
    /\ got' = [got EXCEPT ![t] = None]

Fault ==
    /\ faults < MaxFaults
    /\ faults' = faults + 1

--------------------------------------------------------------------------------
(* locked: the Redisson lock, with a time limit and a watchdog.            *)

\* Slip: each thread takes a lock of its own.
Anyone == TRUE

Free == lock = None

TakeLock(t) ==
    /\ pc[t] \in {"lock", "wait"}
    /\ Free
    /\ lock' = t /\ renewing' = TRUE
    /\ Goto(t, IF pc[t] = "lock" THEN "begin" ELSE "recheck")
    /\ UNCHANGED <<dbVars, cacheVars, disturbed, faults>>

\* Slip: a query waits without a time limit.
OnlyInteractions(t) == pc[t] = "lock"

\* tryLock waits two seconds.
GivesUp(t) == pc[t] \in {"lock", "wait"}

\* "too many operations, try again later"
LockBusy(t) ==
    /\ GivesUp(t)
    /\ lock # None
    /\ Done(t)
    /\ UNCHANGED <<dbVars, cacheVars, lockVars, disturbed, faults>>

\* A query goes on to read, an interaction has its answer.
Unlock(t) ==
    /\ pc[t] \in {"unlock", "leave"}
    /\ IF lock = t THEN lock' = None /\ renewing' = FALSE ELSE UNCHANGED lockVars
    /\ IF pc[t] = "leave" THEN Goto(t, "read") ELSE Done(t)
    /\ UNCHANGED <<dbVars, cacheVars, disturbed, faults>>

--------------------------------------------------------------------------------
(* like: the transaction, then the projection.                             *)

Like(t) ==
    /\ pc[t] = "idle"
    /\ \E u \in Users, want \in Desires :
           /\ user' = [user EXCEPT ![t] = u]
           /\ got' = [got EXCEPT ![t] = want]
    /\ pc' = [pc EXCEPT ![t] = "lock"]
    /\ UNCHANGED <<dbVars, cacheVars, lockVars, disturbed, faults>>

\* lockBlog: SELECT ... FOR UPDATE, and the old like read after it.
Begin(t) ==
    /\ pc[t] = "begin"
    /\ row = None
    /\ row' = t
    /\ Goto(t, "commit")
    /\ UNCHANGED <<table, liked, cacheVars, lockVars, disturbed, faults>>

Wanted(t) == IF got[t] = "toggle" THEN user[t] \notin table ELSE got[t] = "like"

\* Slip: the counter follows the request, not the change.
CountRequest(t) == IF Wanted(t) THEN 1 ELSE -1

\* The counter moves with a row that is inserted or removed.
CountChange(t) ==
    IF Wanted(t) = (user[t] \in table) THEN 0 ELSE IF Wanted(t) THEN 1 ELSE -1

With(set, u, wanted) == IF wanted THEN set \cup {u} ELSE set \ {u}

Commit(t) ==
    /\ pc[t] = "commit"
    /\ table' = With(table, user[t], Wanted(t))
    /\ liked' = liked + CountChange(t)
    /\ row' = None
    /\ GoWith(t, "project", Wanted(t))
    /\ UNCHANGED <<cacheVars, lockVars, disturbed, faults>>

\* Slip: a change renews the life of the whole snapshot.
AgeRenewed == 0

\* A change does not extend it.
AgeAfterChange == age

\* change: the script adds or removes the member of a complete snapshot; without one it
\* answers -1, and the relation is read again.
Change(t) ==
    /\ pc[t] = "project"
    /\ IF cache = None
       THEN Goto(t, "rebuild") /\ UNCHANGED cacheVars
       ELSE /\ cache' = With(cache, user[t], got[t])
            /\ age' = AgeAfterChange
            /\ GoWith(t, "unlock", None)
    /\ UNCHANGED <<dbVars, lockVars, disturbed, faults>>

--------------------------------------------------------------------------------
(* rebuild: read the relation, replace the snapshot.                       *)

ReadRows(t) ==
    /\ pc[t] \in {"rebuild", "reload"}
    /\ GoWith(t, IF pc[t] = "rebuild" THEN "replace" ELSE "restore", table)
    /\ UNCHANGED <<dbVars, cacheVars, lockVars, disturbed, faults>>

Replace(t) ==
    /\ pc[t] \in {"replace", "restore"}
    /\ cache' = got[t]
    /\ age' = 0
    /\ GoWith(t, IF pc[t] = "replace" THEN "unlock" ELSE "leave", None)
    /\ UNCHANGED <<dbVars, lockVars, disturbed, faults>>

\* The projection failed after the commit: the snapshot is deleted.
DeleteCache(t) ==
    /\ pc[t] = "delete"
    /\ cache' = None /\ age' = 0
    /\ GoWith(t, "unlock", None)
    /\ UNCHANGED <<dbVars, lockVars, disturbed, faults>>

--------------------------------------------------------------------------------
(* A query: ensure that there is a snapshot, then read it.                 *)

Query(t) ==
    /\ pc[t] = "idle"
    /\ Goto(t, "ready")
    /\ UNCHANGED <<dbVars, cacheVars, lockVars, disturbed, faults>>

Ready(t) ==
    /\ pc[t] = "ready"
    /\ Goto(t, IF cache # None THEN "read" ELSE "wait")
    /\ UNCHANGED <<dbVars, cacheVars, lockVars, disturbed, faults>>

Recheck(t) ==
    /\ pc[t] = "recheck"
    /\ Goto(t, IF cache # None THEN "leave" ELSE "reload")
    /\ UNCHANGED <<dbVars, cacheVars, lockVars, disturbed, faults>>

\* ZRANGE or ZSCORE: a missing key reads as "nobody", "not liked".
Read(t) ==
    /\ pc[t] = "read"
    /\ GoWith(t, "answered", cache)
    /\ UNCHANGED <<dbVars, cacheVars, lockVars, disturbed, faults>>

Answer(t) ==
    /\ pc[t] = "answered"
    /\ Done(t)
    /\ UNCHANGED <<dbVars, cacheVars, lockVars, disturbed, faults>>

--------------------------------------------------------------------------------
(* What goes wrong.                                                        *)

Disturb == disturbed' = TRUE

\* A call throws before it takes effect.  A transaction rolls back; a projection
\* falls back to the delete, and a failed delete to the time to live.
CallFails(t) ==
    /\ Fault
    /\ \/ pc[t] \in {"ready", "wait", "lock", "read"} /\ Done(t) /\ UNCHANGED <<row, disturbed>>
       \/ /\ pc[t] \in {"begin", "commit"} \cup Refresh
          /\ GoWith(t, "unlock", None)
          /\ row' = (IF row = t THEN None ELSE row) /\ UNCHANGED disturbed
       \/ /\ pc[t] \in {"project", "rebuild", "replace"}
          /\ GoWith(t, "delete", None) /\ UNCHANGED <<row, disturbed>>
       \/ pc[t] = "delete" /\ GoWith(t, "unlock", None) /\ Disturb /\ UNCHANGED row
    /\ UNCHANGED <<table, liked, cacheVars, lockVars>>

\* The transaction committed, the reply is lost: its exception skips the projection.
CommitReplyLost(t) ==
    /\ Fault
    /\ pc[t] = "commit"
    /\ table' = With(table, user[t], Wanted(t))
    /\ liked' = liked + CountChange(t)
    /\ row' = None
    /\ GoWith(t, "unlock", None)
    /\ Disturb
    /\ UNCHANGED <<cacheVars, lockVars>>

\* A script ran, its reply is lost.
ScriptReplyLost(t) ==
    /\ Fault
    /\ \/ pc[t] = "project" /\ cache # None
          /\ cache' = With(cache, user[t], got[t]) /\ age' = AgeAfterChange
          /\ GoWith(t, "delete", None)
       \/ pc[t] \in {"replace", "restore"} /\ cache' = got[t] /\ age' = 0
          /\ GoWith(t, IF pc[t] = "replace" THEN "delete" ELSE "unlock", None)
    /\ UNCHANGED <<dbVars, lockVars, disturbed>>

\* tryLock's reply is lost; isHeldByCurrentThread or unlock fails.
LockOrphaned(t) ==
    /\ Fault
    /\ \/ pc[t] \in {"lock", "wait"} /\ lock = None /\ renewing' = FALSE
       \/ pc[t] \in {"unlock", "leave"} /\ lock = t /\ renewing' \in {renewing, FALSE}
    /\ lock' = Orphan
    /\ Done(t)
    /\ UNCHANGED <<dbVars, cacheVars, disturbed>>

\* The watchdog gives up: the lease may run out while its holder works on.
RenewalFails ==
    /\ Fault
    /\ renewing
    /\ renewing' = FALSE
    /\ UNCHANGED <<dbVars, cacheVars, lock, pc, user, got, disturbed>>

LeaseEnds ==
    /\ lock # None /\ ~renewing
    /\ lock' = None
    /\ disturbed' = (disturbed \/ lock \in Threads)
    /\ UNCHANGED <<dbVars, cacheVars, renewing, pc, user, got, faults>>

Crash ==
    /\ Fault
    /\ row' = None
    /\ lock' = (IF lock = None THEN None ELSE Orphan) /\ renewing' = FALSE
    /\ disturbed' = (disturbed \/ \E t \in Threads : pc[t] \in Project)
    /\ pc' = [t \in Threads |-> "idle"]
    /\ user' = [t \in Threads |-> None]
    /\ got' = [t \in Threads |-> None]
    /\ UNCHANGED <<table, liked, cacheVars>>

\* Time passes for a snapshot until its life is over.
Tick ==
    /\ cache # None
    /\ IF age < Ttl THEN age' = age + 1 /\ UNCHANGED cache ELSE age' = 0 /\ cache' = None
    /\ UNCHANGED <<dbVars, lockVars, pc, user, got, disturbed, faults>>

--------------------------------------------------------------------------------
Work(t) ==
    \/ TakeLock(t) \/ LockBusy(t) \/ Unlock(t)
    \/ Begin(t) \/ Commit(t) \/ Change(t)
    \/ ReadRows(t) \/ Replace(t) \/ DeleteCache(t)
    \/ Ready(t) \/ Recheck(t) \/ Read(t) \/ Answer(t)

ThreadFault(t) ==
    CallFails(t) \/ CommitReplyLost(t) \/ ScriptReplyLost(t) \/ LockOrphaned(t)

Next ==
    \/ \E t \in Threads : Like(t) \/ Query(t) \/ Work(t) \/ ThreadFault(t)
    \/ RenewalFails \/ LeaseEnds \/ Crash \/ Tick

Spec == Init /\ [][Next]_vars

Fairness ==
    /\ \A t \in Threads : WF_vars(Work(t)) /\ SF_vars(Begin(t))
    /\ WF_vars(LeaseEnds) /\ WF_vars(Tick)

FairSpec == Spec /\ Fairness

--------------------------------------------------------------------------------
(* Properties.                                                             *)

TypeOK ==
    /\ table \in SUBSET Users /\ liked \in Nat
    /\ row \in Threads \cup {None}
    /\ cache \in (SUBSET Users) \cup {None} /\ age \in 0..Ttl
    /\ lock \in Threads \cup {None, Orphan} /\ renewing \in BOOLEAN
    /\ pc \in [Threads -> PCs]
    /\ user \in [Threads -> Users \cup {None}]
    /\ disturbed \in BOOLEAN /\ faults \in 0..MaxFaults

Projecting == \E t \in Threads : pc[t] \in Project

\* The snapshot is the relation, or missing, or about to be brought up to date.
Exact == cache \in {None, table} \/ Projecting

\* The snapshot follows the commits in their order, and no rebuild puts an older relation
\* back, as long as no holder lost its lock and no failure left a commit
\* without its projection (the lock covers transaction and projection).
ProjectionExact == disturbed \/ Exact

\* The count is the number of likes, even when a lock is lost and two requests of the same
\* user meet: row and counter change in one transaction, which decides under the row lock.
CountMatches == liked = Cardinality(table) + Legacy

\* When the failures are over the snapshot becomes exact for good, however many
\* interactions go on: no change prolongs a snapshot that missed one.
EventuallyExact == <>[]Exact

\* Every request ends, by an answer or by "try again later".
RequestEnds == \A t \in Threads : pc[t] # "idle" ~> pc[t] = "idle"

\* "Missing data is rebuilt from the relation" (README, social interactions): an answer
\* "nobody likes it" is not taken from a key that is not there.
MissingIsRebuilt == \A t \in Threads : pc[t] = "answered" => got[t] # None \/ table = {}
================================================================================
