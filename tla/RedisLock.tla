--------------------------------- MODULE RedisLock --------------------------------
(***************************************************************************)
(* SimpleRedisLock with unlock.lua: a key with the identity of its owner   *)
(* and a time to live.  Thread numbers repeat in every process; ID_PREFIX, *)
(* drawn anew when a process starts, tells the processes apart.  Nothing   *)
(* in the application takes this lock; the callers are those of ILock.     *)
(***************************************************************************)
EXTENDS Naturals

CONSTANTS
    Processes,
    Numbers,        \* Thread.currentThread().getId()
    MaxStarts       \* bound on the starts of a process

VARIABLES
    lock,           \* lock:{name}: the identity of its owner, or Free
    starts,         \* how often each process has been started
    working,        \* threads for which tryLock has returned true, until they unlock
    lease           \* of these, the ones whose time to live has not run out

vars == <<lock, starts, working, lease>>

\* A thread of a process.
Callers == Processes \X Numbers

Free == << >>

\* Slip: the number of the thread alone.
NumberOnly(t) == <<t[2]>>

Identity(t) == <<t[1], starts[t[1]], t[2]>>

Init ==
    /\ lock = Free /\ starts = [p \in Processes |-> 1]
    /\ working = {} /\ lease = {}

\* SET NX with an expiry.
TryLock(t) ==
    /\ t \notin working /\ lock = Free
    /\ lock' = Identity(t)
    /\ working' = working \cup {t} /\ lease' = lease \cup {t}
    /\ UNCHANGED starts

\* The key is written, but the reply is lost.
TryLockLost(t) ==
    /\ t \notin working /\ lock = Free
    /\ lock' = Identity(t)
    /\ UNCHANGED <<starts, working, lease>>

\* Slip: the key is deleted whoever owns it.
Always(t) == lock # Free

OwnedBy(t) == lock = Identity(t)

\* unlock.lua; its reply may be lost.
UnLock(t) ==
    /\ t \in working
    /\ lock' = IF OwnedBy(t) THEN Free ELSE lock
    /\ working' = working \ {t} /\ lease' = lease \ {t}
    /\ UNCHANGED starts

\* The call of the script fails: the key is left to its time to live.
UnLockFails(t) ==
    /\ t \in working
    /\ working' = working \ {t} /\ lease' = lease \ {t}
    /\ UNCHANGED <<lock, starts>>

\* The key expires, and its owner does not notice.
Expire ==
    /\ lock # Free
    /\ lock' = Free
    /\ lease' = {t \in lease : ~OwnedBy(t)}
    /\ UNCHANGED <<starts, working>>

Restart(p) ==
    /\ starts[p] < MaxStarts
    /\ starts' = [starts EXCEPT ![p] = @ + 1]
    /\ working' = {t \in working : t[1] # p} /\ lease' = {t \in lease : t[1] # p}
    /\ UNCHANGED lock

Next ==
    \/ \E t \in Callers : TryLock(t) \/ TryLockLost(t) \/ UnLock(t) \/ UnLockFails(t)
    \/ Expire
    \/ \E p \in Processes : Restart(p)

Spec == Init /\ [][Next]_vars

--------------------------------------------------------------------------------
\* Ranges; an owner is a thread of some start of its process.
TypeOK ==
    /\ starts \in [Processes -> 1..MaxStarts]
    /\ lock \in {Free} \cup {<<p, n, k>> : p \in Processes, n \in 1..MaxStarts, k \in Numbers}
    /\ lease \subseteq working /\ working \subseteq Callers

\* A thread whose lease has not run out owns the key, so no two of them work at once: a
\* late unlock by a thread that lost its lease does not free the lock of another.
LeaseOwns == \A t \in lease : OwnedBy(t) /\ \A u \in lease : u = t
================================================================================
