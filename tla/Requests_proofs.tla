------------------------------ MODULE Requests_proofs -----------------------------
(***************************************************************************)
(* What requests pass on their way, and the small services they call, for  *)
(* every number of users, tokens, threads and processes and any bounds.    *)
(***************************************************************************)
EXTENDS MCRequests, FiniteSetTheorems, WellFoundedInduction, TLAPS

--------------------------------------------------------------------------------
\* A set of numbers has a smallest one.
LEMMA SmallestMember ==
    ASSUME NEW S, S \subseteq Nat, S # {}
    PROVE  \E m \in S : \A n \in S : m <= n
<1> DEFINE R == {ss \in Nat \X Nat : ss[1] < ss[2]}
<1>1. R = OpToRel(<, Nat)
  BY DEF OpToRel
<1>2. IsWellFoundedOn(R, Nat)
  BY <1>1, NatLessThanWellFounded
<1>3. PICK m \in S : \A n \in S : <<n, m>> \notin R
  <2> HIDE DEF R
  <2> QED BY <1>2, WFMin
<1>4. \A n \in S : ~(n < m)
  BY <1>3
<1> QED BY <1>4

--------------------------------------------------------------------------------
(* IdWorker.                                                               *)

\* Two numbers below the base on top of different multiples of it are different: the
\* shift of nextId keeps second and count apart.
LEMMA Packing ==
    ASSUME NEW B \in Nat, NEW s \in Nat, NEW r \in Nat, NEW c \in 0..(B - 1), NEW d \in 0..(B - 1),
           s * B + c = r * B + d
    PROVE  s = r /\ c = d
<1>1. ASSUME NEW x \in Nat, NEW y \in Nat, x < y
      PROVE  y * B >= x * B + B
  <2>1. PICK z \in Nat : y = x + 1 + z
    <3>1. y - x - 1 \in Nat /\ y = x + 1 + (y - x - 1)
      BY <1>1
    <3> QED
      BY <3>1
  <2>2. y * B = x * B + B + z * B
    BY <2>1
  <2>3. z * B \in Nat /\ x * B \in Nat
    OBVIOUS
  <2> QED
    BY <2>2, <2>3
<1>2. s * B \in Nat /\ r * B \in Nat
  OBVIOUS
<1>3. ~(s < r)
  <2>1. SUFFICES ASSUME s < r PROVE FALSE
    OBVIOUS
  <2>2. r * B >= s * B + B
    BY <1>1, <2>1
  <2> QED
    BY <1>2, <2>2
<1>4. ~(r < s)
  <2>1. SUFFICES ASSUME r < s PROVE FALSE
    OBVIOUS
  <2>2. s * B >= r * B + B
    BY <1>1, <2>1
  <2> QED
    BY <1>2, <2>2
<1>5. s = r
  BY <1>3, <1>4
<1> QED
  BY <1>2, <1>5

\* The initial state has no ids.
LEMMA InitIInv == Init => IInv
<1> SUFFICES ASSUME Init PROVE IInv
  OBVIOUS
<1> USE IdAssumption
<1>1. 0 \in Seconds
  BY DEF Seconds
<1>2. TypeOK
  BY <1>1 DEF Init, TypeOK
<1>3. Len(given) = 0
  BY DEF Init
<1>4. Counted /\ IdsDistinct
  BY <1>3 DEF Counted, IdsDistinct
<1> QED
  BY <1>2, <1>4 DEF IInv

\* An id of a second and a count is a number, and its day has a counter.
LEMMA IdType ==
    ASSUME NEW s \in Seconds, NEW c \in 0..MaxCount
    PROVE  s \in Nat /\ c \in 0..(Base - 1) /\ Id(s, c) \in Nat /\ DayOf(s) \in Days
<1>1. s \in Nat /\ c \in 0..(Base - 1)
  BY IdAssumption DEF Seconds
<1>2. s * Base \in Nat
  BY <1>1, IdAssumption
<1> QED
  BY <1>1, <1>2 DEF Id, Days

\* A new id: its second and count are those of no id before, because the counter of its
\* day had not reached that count.
LEMMA IncrementIInv ==
    ASSUME IInv, NEW t \in Threads, Increment(t)
    PROVE  IInv'
<1> DEFINE s == second[t]
           n == counter[Key(t)] + 1
<1>1. s \in Seconds /\ Key(t) = DayOf(s) /\ DayOf(s) \in Days
  BY IdType, IdAssumption DEF IInv, TypeOK, Key, Days
<1>2. n \in 1..MaxCount
  BY <1>1, IdAssumption DEF Increment, IInv, TypeOK
<1>3. Id(s, n) \in Nat /\ s \in Nat /\ n \in 0..(Base - 1)
  BY <1>1, <1>2, IdType
<1>4. /\ counter' = [counter EXCEPT ![DayOf(s)] = n]
      /\ given' = Append(given, Id(s, n))
  BY <1>1 DEF Increment
<1>5. TypeOK'
  <2>1. counter' \in [Days -> 0..MaxCount]
    BY <1>1, <1>2, <1>4 DEF IInv, TypeOK
  <2>2. given' \in Seq(Nat)
    BY <1>3, <1>4 DEF IInv, TypeOK
  <2>3. /\ clock' \in Seconds /\ second' \in [Threads -> Seconds]
        /\ pc' \in [Threads -> {"idle", "count"}]
    BY DEF IInv, TypeOK, Increment
  <2> QED
    BY <2>1, <2>2, <2>3 DEF TypeOK
<1>6. /\ Len(given') = Len(given) + 1 /\ given'[Len(given) + 1] = Id(s, n)
      /\ \A i \in 1..Len(given) : given'[i] = given[i]
      /\ Len(given) \in Nat
  BY <1>3, <1>4 DEF IInv, TypeOK
<1>7. Counted'
  <2>1. SUFFICES ASSUME NEW i \in 1..Len(given')
                 PROVE  \E r \in Seconds, c \in 1..MaxCount :
                            given'[i] = Id(r, c) /\ c <= counter'[DayOf(r)]
    BY DEF Counted, Id
  <2>2. CASE i = Len(given) + 1
    BY <1>1, <1>2, <1>4, <1>6, <2>2 DEF IInv, TypeOK
  <2>3. CASE i # Len(given) + 1
    <3>1. i \in 1..Len(given) /\ given'[i] = given[i]
      BY <1>6, <2>3
    <3>2. PICK r \in Seconds, c \in 1..MaxCount :
              given[i] = Id(r, c) /\ c <= counter[DayOf(r)]
      BY <3>1 DEF IInv, Counted
    <3>3. DayOf(r) \in Days
      BY DEF Days
    <3>4. counter'[DayOf(r)] = (IF DayOf(r) = DayOf(s) THEN counter[DayOf(s)] + 1 ELSE counter[DayOf(r)])
      BY <1>1, <1>4, <3>3 DEF IInv, TypeOK
    <3>5. c <= counter'[DayOf(r)]
      BY <3>2, <3>3, <3>4, IdAssumption DEF IInv, TypeOK
    <3> QED
      BY <3>1, <3>2, <3>5
  <2> QED
    BY <2>2, <2>3
<1>8. \A i \in 1..Len(given) : given[i] # Id(s, n)
  <2>1. SUFFICES ASSUME NEW i \in 1..Len(given), given[i] = Id(s, n) PROVE FALSE
    OBVIOUS
  <2>2. PICK r \in Seconds, c \in 1..MaxCount :
            given[i] = Id(r, c) /\ c <= counter[DayOf(r)]
    BY DEF IInv, Counted
  <2>3. r \in Nat /\ c \in 0..(Base - 1)
    <3>1. c \in 0..MaxCount
      BY IdAssumption
    <3> QED
      BY <3>1, IdType
  <2>4. r * Base + c = s * Base + n
    BY <2>1, <2>2 DEF Id
  <2>5. r = s /\ c = n
    <3>1. Base \in Nat
      BY IdAssumption
    <3> HIDE DEF s, n
    <3> QED
      BY <1>3, <2>3, <2>4, <3>1, Packing
  <2> QED
    BY <1>1, <2>2, <2>5, IdAssumption DEF IInv, TypeOK
<1>9. IdsDistinct'
  <2>1. SUFFICES ASSUME NEW i \in 1..Len(given'), NEW j \in 1..Len(given'), given'[i] = given'[j]
                 PROVE  i = j
    BY DEF IdsDistinct
  <2> QED
    BY <1>6, <1>8, <2>1 DEF IInv, IdsDistinct
<1> QED
  BY <1>5, <1>7, <1>9 DEF IInv

\* Every step preserves the invariant.
LEMMA NextIInv == IInv /\ [Next]_vars => IInv'
<1> SUFFICES ASSUME IInv, [Next]_vars PROVE IInv'
  OBVIOUS
<1>1. ASSUME NEW s \in Seconds, SetClock(s) PROVE IInv'
  BY <1>1 DEF SetClock, IInv, TypeOK, Counted, IdsDistinct
<1>2. ASSUME NEW t \in Threads, ReadClock(t) PROVE IInv'
  BY <1>2 DEF ReadClock, IInv, TypeOK, Counted, IdsDistinct
<1>3. ASSUME NEW t \in Threads, Increment(t) PROVE IInv'
  BY <1>3, IncrementIInv
<1>4. ASSUME NEW t \in Threads, IncrementFails(t) PROVE IInv'
  <2>1. Key(t) \in Days
    BY DEF IInv, TypeOK, Key, Days
  <2>2. /\ counter' \in [Days -> 0..MaxCount]
        /\ \A d \in Days : counter'[d] >= counter[d]
    <3>1. CASE UNCHANGED counter
      BY <3>1, IdAssumption DEF IInv, TypeOK
    <3>2. CASE counter[Key(t)] < MaxCount /\ counter' = [counter EXCEPT ![Key(t)] = @ + 1]
      <4>1. \A d \in Days : counter'[d] = IF d = Key(t) THEN counter[d] + 1 ELSE counter[d]
        BY <3>2 DEF IInv, TypeOK
      <4>2. \A d \in Days : counter[d] \in 0..MaxCount /\ counter[d] \in Nat
        BY DEF IInv, TypeOK
      <4>3. \A d \in Days : counter'[d] \in 0..MaxCount /\ counter'[d] >= counter[d]
        BY <3>2, <4>1, <4>2, IdAssumption
      <4>4. counter' = [d \in Days |-> counter'[d]]
        BY <3>2 DEF IInv, TypeOK
      <4> QED
        BY <4>3, <4>4
    <3> QED
      BY <1>4, <3>1, <3>2 DEF IncrementFails
  <2>3. TypeOK' /\ given' = given
    BY <1>4, <2>2 DEF IncrementFails, IInv, TypeOK
  <2>4. Counted'
    <3>1. SUFFICES ASSUME NEW i \in 1..Len(given)
                   PROVE  \E r \in Seconds, c \in 1..MaxCount :
                              given[i] = Id(r, c) /\ c <= counter'[DayOf(r)]
      BY <2>3 DEF Counted, Id
    <3>2. PICK r \in Seconds, c \in 1..MaxCount :
              given[i] = Id(r, c) /\ c <= counter[DayOf(r)]
      BY DEF IInv, Counted
    <3>3. DayOf(r) \in Days
      BY DEF Days
    <3>4. c <= counter'[DayOf(r)]
      BY <2>2, <3>2, <3>3, IdAssumption DEF IInv, TypeOK
    <3> QED
      BY <3>2, <3>4
  <2>5. IdsDistinct'
    BY <2>3 DEF IInv, IdsDistinct
  <2> QED
    BY <2>3, <2>4, <2>5 DEF IInv
<1>5. CASE UNCHANGED vars
  BY <1>5 DEF vars, IInv, TypeOK, Counted, IdsDistinct
<1> QED
  BY <1>1, <1>2, <1>3, <1>4, <1>5 DEF Next

\* Every reachable state satisfies the invariant.
THEOREM Invariance == Spec => []IInv
BY InitIInv, NextIInv, PTL DEF Spec

\* RedisIdWorker never gives an id twice.
THEOREM DistinctIds == Spec => []IdsDistinct
<1>1. IInv => IdsDistinct
  BY DEF IInv
<1> QED
  BY <1>1, Invariance, PTL

--------------------------------------------------------------------------------
(* RedisLock.                                                              *)

\* A thread of a process is known by its identity while the process runs.
LEMMA IdentityInjective ==
    ASSUME NEW t \in Lock!Callers, NEW u \in Lock!Callers, Lock!Identity(t) = Lock!Identity(u)
    PROVE  t = u
BY DEF Lock!Callers, Lock!Identity

LEMMA IdentityType ==
    ASSUME NEW t \in Lock!Callers, Lock!TypeOK
    PROVE  /\ Lock!Identity(t) # Lock!Free
           /\ Lock!Identity(t) \in
                {<<p, n, k>> : p \in Processes, n \in 1..MaxStarts, k \in Numbers}
<1>1. t = <<t[1], t[2]>> /\ t[1] \in Processes /\ t[2] \in Numbers /\ starts[t[1]] \in 1..MaxStarts
  BY DEF Lock!Callers, Lock!TypeOK
<1>2. Lock!Identity(t) \in {<<p, n, k>> : p \in Processes, n \in 1..MaxStarts, k \in Numbers}
  BY <1>1 DEF Lock!Identity
<1>3. Lock!Identity(t) # Lock!Free
  BY DEF Lock!Identity, Lock!Free
<1> QED BY <1>2, <1>3

LEMMA LockInit == Lock!Init => LockInv
BY LockAssumption DEF Lock!Init, LockInv, Lock!TypeOK, Lock!LeaseOwns, Lock!Free

\* While somebody is within his lease the key is there; so who is let in is alone, and a
\* key that is deleted or expires is that of the only one.
LEMMA LockNext ==
    ASSUME LockInv, [Lock!Next]_lockVars
    PROVE  LockInv'
<1> USE DEF LockInv
<1>1. ASSUME NEW t \in Lock!Callers, Lock!TryLock(t) PROVE LockInv'
  <2>1. lease = {}
    BY <1>1, IdentityType DEF Lock!TryLock, Lock!LeaseOwns, Lock!OwnedBy, Lock!TypeOK
  <2>2. lease' = {t} /\ lock' = Lock!Identity(t) /\ starts' = starts
    BY <1>1, <2>1 DEF Lock!TryLock
  <2>3. Lock!TypeOK'
    BY <1>1, <2>2, IdentityType DEF Lock!TryLock, Lock!TypeOK, Lock!Callers
  <2>4. Lock!LeaseOwns'
    BY <2>2 DEF Lock!LeaseOwns, Lock!OwnedBy, Lock!Identity
  <2> QED BY <2>3, <2>4
<1>2. ASSUME NEW t \in Lock!Callers, Lock!TryLockLost(t) PROVE LockInv'
  <2>1. lease = {}
    BY <1>2, IdentityType DEF Lock!TryLockLost, Lock!LeaseOwns, Lock!OwnedBy, Lock!TypeOK
  <2>2. Lock!TypeOK'
    BY <1>2, IdentityType DEF Lock!TryLockLost, Lock!TypeOK, Lock!Callers
  <2>3. Lock!LeaseOwns'
    BY <1>2, <2>1 DEF Lock!TryLockLost, Lock!LeaseOwns
  <2> QED BY <2>2, <2>3
<1>3. ASSUME NEW t \in Lock!Callers, Lock!UnLock(t) PROVE LockInv'
  <2>1. Lock!TypeOK'
    BY <1>3 DEF Lock!UnLock, Lock!TypeOK, Lock!Callers, Lock!Free
  <2>2. ASSUME NEW u \in lease' PROVE lock' = lock /\ u \in lease
    BY <1>3, <2>2, IdentityInjective DEF Lock!UnLock, Lock!LeaseOwns, Lock!OwnedBy, Lock!TypeOK
  <2>3. Lock!LeaseOwns'
    BY <1>3, <2>2 DEF Lock!UnLock, Lock!LeaseOwns, Lock!OwnedBy, Lock!Identity
  <2> QED BY <2>1, <2>3
<1>4. ASSUME NEW t \in Lock!Callers, Lock!UnLockFails(t) PROVE LockInv'
  BY <1>4 DEF Lock!UnLockFails, Lock!TypeOK, Lock!LeaseOwns, Lock!OwnedBy, Lock!Identity, Lock!Callers
<1>5. ASSUME Lock!Expire PROVE LockInv'
  <2>1. lease' = {} /\ lease' \subseteq lease
    BY <1>5 DEF Lock!Expire, Lock!LeaseOwns
  <2> QED BY <1>5, <2>1 DEF Lock!Expire, Lock!TypeOK, Lock!LeaseOwns, Lock!Free, Lock!Callers
<1>6. ASSUME NEW p \in Processes, Lock!Restart(p) PROVE LockInv'
  <2>1. starts' \in [Processes -> 1..MaxStarts] /\ \A q \in Processes : q # p => starts'[q] = starts[q]
    BY <1>6, LockAssumption DEF Lock!Restart, Lock!TypeOK
  <2>2. Lock!TypeOK'
    BY <1>6, <2>1 DEF Lock!Restart, Lock!TypeOK, Lock!Callers
  <2>3. ASSUME NEW t \in lease' PROVE t \in lease /\ Lock!Identity(t)' = Lock!Identity(t)
    BY <1>6, <2>1 DEF Lock!Restart, Lock!TypeOK, Lock!Callers, Lock!Identity
  <2>4. Lock!LeaseOwns'
    BY <1>6, <2>3 DEF Lock!Restart, Lock!LeaseOwns, Lock!OwnedBy
  <2> QED BY <2>2, <2>4
<1>7. CASE UNCHANGED lockVars
  BY <1>7 DEF lockVars, Lock!TypeOK, Lock!LeaseOwns, Lock!OwnedBy, Lock!Identity, Lock!Callers
<1> QED BY <1>1, <1>2, <1>3, <1>4, <1>5, <1>6, <1>7 DEF Lock!Next

\* SimpleRedisLock with unlock.lua: whoever is within his lease owns the key and is alone,
\* although keys expire under their owners, replies are lost and processes restart.
THEOREM LeaseHoldersOwn == Lock!Spec => []LockInv
<1>1. Lock!Spec => Lock!Init /\ [][Lock!Next]_lockVars
  BY DEF Lock!Spec, Lock!vars, lockVars
<1> QED BY <1>1, LockInit, LockNext, PTL

--------------------------------------------------------------------------------
(* Session.                                                                *)

\* What a thread may rely on: an idle one keeps no user, unless a failed renewal has left
\* one, a request carries a token that a login has returned, and the token that a login has
\* made is somebody's.
SessionInv ==
    /\ Sessions!TypeOK /\ Sessions!ActsAsItself /\ Sessions!LastingIsUnknown
    /\ \A t \in Threads :
         /\ place[t] = "idle" => holder[t] = None \/ t \in left
         /\ place[t] = "renew" => request[t].token # None
         /\ request[t].token # None => user[request[t].token] # None
         /\ made[t] # None => user[made[t]] # None

LEMMA SessionInit == Sessions!Init => SessionInv
BY NoneAssumption, FaultsAssumption
DEF Sessions!Init, SessionInv, Sessions!TypeOK, Sessions!ActsAsItself, Sessions!Itself,
    Sessions!LastingIsUnknown, Sessions!At, Sessions!Kinds, Sessions!Guarded

LEMMA SessionNext ==
    ASSUME SessionInv, [Sessions!Next]_sessionVars
    PROVE  SessionInv'
<1> USE NoneAssumption, FaultsAssumption
    DEF SessionInv, Sessions!TypeOK, Sessions!ActsAsItself, Sessions!Itself,
        Sessions!LastingIsUnknown, Sessions!At, Sessions!Kinds, Sessions!Guarded, Sessions!Goto,
        Sessions!redisVars
<1>1. ASSUME NEW t \in Threads, NEW k \in told \cup {None}, NEW kind \in Sessions!Kinds,
             Sessions!Arrive(t, k, kind)
      PROVE  SessionInv'
  <2>1. CASE k # None /\ session[k] # "none"
    BY <1>1, <2>1 DEF Sessions!Arrive
  <2>2. CASE ~(k # None /\ session[k] # "none")
    <3>1. /\ place' = [place EXCEPT ![t] = "check"]
          /\ request' = [request EXCEPT ![t] = [token |-> k, kind |-> kind]]
          /\ UNCHANGED <<session, user, told, made, holder, left, faults>>
      BY <1>1, <2>2 DEF Sessions!Arrive
    <3>2. place[t] = "idle" /\ k \in Tokens \cup {None} /\ (k # None => user[k] # None)
      BY <1>1 DEF Sessions!Arrive
    <3>3. request' \in [Threads -> [token : Tokens \cup {None}, kind : Sessions!Kinds]]
      BY <3>1, <3>2
    <3>4. Sessions!TypeOK'
      BY <3>1, <3>2, <3>3
    <3> QED
      BY <3>1, <3>2, <3>4
  <2> QED BY <2>1, <2>2
<1>2. ASSUME NEW t \in Threads, Sessions!Renew(t) PROVE SessionInv'
  BY <1>2 DEF Sessions!Renew, Sessions!Renewed
<1>3. ASSUME NEW t \in Threads, Sessions!Check(t) PROVE SessionInv'
  BY <1>3 DEF Sessions!Check, Sessions!Passes
<1>4. ASSUME NEW t \in Threads, Sessions!After(t) PROVE SessionInv'
  BY <1>4 DEF Sessions!After, Sessions!Removed
<1>5. ASSUME NEW t \in Threads, Sessions!Handle(t) PROVE SessionInv'
  BY <1>5 DEF Sessions!Handle
<1>6. ASSUME NEW t \in Threads, Sessions!Logout(t) PROVE SessionInv'
  BY <1>6 DEF Sessions!Logout
<1>7. ASSUME NEW t \in Threads, Sessions!SetExpiry(t) PROVE SessionInv'
  BY <1>7 DEF Sessions!SetExpiry, Sessions!Expiring
<1>8. ASSUME NEW t \in Threads, Sessions!HandlerFails(t) PROVE SessionInv'
  BY <1>8 DEF Sessions!HandlerFails, Sessions!Fault
<1>9. ASSUME NEW t \in Threads, NEW u \in Users, NEW k \in Tokens, Sessions!Put(t, u, k)
      PROVE  SessionInv'
  BY <1>9 DEF Sessions!Put
<1>10. ASSUME NEW k \in Tokens, Sessions!Expire(k) PROVE SessionInv'
  BY <1>10 DEF Sessions!Expire, Sessions!threadVars
<1>11. ASSUME Sessions!Restart PROVE SessionInv'
  BY <1>11 DEF Sessions!Restart, Sessions!Fault
<1>12. CASE UNCHANGED sessionVars
  BY <1>12 DEF sessionVars
<1>13. ASSUME NEW t \in Threads, Sessions!RenewFails(t) PROVE SessionInv'
  BY <1>13 DEF Sessions!RenewFails, Sessions!Fault
<1> HIDE DEF SessionInv, Sessions!Kinds
<1> QED
  BY <1>1, <1>2, <1>3, <1>4, <1>5, <1>6, <1>7, <1>8, <1>9, <1>10, <1>11, <1>12, <1>13
  DEF Sessions!Next

\* A request acts as the user of its token or as nobody, on pooled threads whose
\* ThreadLocal outlives the request, unless it is the first on its thread after a request
\* whose renewal failed; and a session that a failed login has left without an expiry is
\* one that nobody can name.
THEOREM RequestsActAsThemselves ==
    Sessions!Spec => [](Sessions!TypeOK /\ Sessions!ActsAsItself /\ Sessions!LastingIsUnknown)
<1>1. Sessions!Spec => Sessions!Init /\ [][Sessions!Next]_sessionVars
  BY DEF Sessions!Spec, Sessions!vars, Sessions!redisVars, Sessions!threadVars, sessionVars
<1>2. SessionInv => Sessions!TypeOK /\ Sessions!ActsAsItself /\ Sessions!LastingIsUnknown
  BY DEF SessionInv
<1> QED BY <1>1, <1>2, SessionInit, SessionNext, PTL

\* No step brings back a session that has ended.
LEMMA EndedStays ==
    ASSUME SessionInv, [Sessions!Next]_sessionVars, NEW k \in Tokens,
           user[k] # None, session[k] = "none"
    PROVE  session'[k] = "none"
<1> USE DEF SessionInv, Sessions!TypeOK, Sessions!At
<1>1. ASSUME NEW t \in Threads, Sessions!Renew(t) PROVE session'[k] = "none"
  BY <1>1 DEF Sessions!Renew, Sessions!Renewed
<1>2. ASSUME NEW t \in Threads, Sessions!Logout(t) PROVE session'[k] = "none"
  BY <1>2 DEF Sessions!Logout
<1>3. ASSUME NEW t \in Threads, Sessions!SetExpiry(t) PROVE session'[k] = "none"
  BY <1>3 DEF Sessions!SetExpiry, Sessions!Expiring
<1>4. ASSUME NEW t \in Threads, NEW u \in Users, NEW i \in Tokens, Sessions!Put(t, u, i)
      PROVE  session'[k] = "none"
  BY <1>4 DEF Sessions!Put
<1>5. ASSUME NEW i \in Tokens, Sessions!Expire(i) PROVE session'[k] = "none"
  BY <1>5 DEF Sessions!Expire
<1>6. ASSUME NEW t \in Threads,
             \/ \E i \in told \cup {None}, kind \in Sessions!Kinds : Sessions!Arrive(t, i, kind)
             \/ Sessions!RenewFails(t) \/ Sessions!Check(t) \/ Sessions!After(t)
             \/ Sessions!Handle(t) \/ Sessions!HandlerFails(t)
      PROVE  session' = session
  BY <1>6 DEF Sessions!Arrive, Sessions!RenewFails, Sessions!Check, Sessions!After, Sessions!Handle,
              Sessions!HandlerFails, Sessions!redisVars
<1>7. ASSUME Sessions!Restart PROVE session' = session
  BY <1>7 DEF Sessions!Restart, Sessions!redisVars
<1>8. CASE UNCHANGED sessionVars
  BY <1>8 DEF sessionVars
<1> QED BY <1>1, <1>2, <1>3, <1>4, <1>5, <1>6, <1>7, <1>8 DEF Sessions!Next

\* A session that has ended, by logout or by expiry, stays ended, although requests that
\* have found it before are still renewing it and a login sets the expiry of its own late.
THEOREM EndedForGood == Sessions!Spec => EndedStaysEnded
<1>1. Sessions!Spec => Sessions!Init /\ [][Sessions!Next]_sessionVars
  BY DEF Sessions!Spec, Sessions!vars, Sessions!redisVars, Sessions!threadVars, sessionVars
<1>2. SessionInv /\ [Sessions!Next]_sessionVars =>
        [\A k \in Tokens : user[k] # None /\ session[k] = "none" => session'[k] = "none"]_session
  BY EndedStays
<1> QED BY <1>1, <1>2, SessionInit, SessionNext, PTL DEF EndedStaysEnded, Sessions!EndedStaysEnded

--------------------------------------------------------------------------------
(* SignIn: what signCount computes.                                        *)

\* f gives the number that the first i bits of S make, for every i up to w.
Doubling(S, w, f) ==
    f = [i \in 0..w |-> IF i = 0 THEN 0 ELSE 2 * f[i - 1] + (IF i - 1 \in S THEN 1 ELSE 0)]

\* h gives the number of ones at the end of k, for every k up to n.
Halving(n, h) == h = [k \in 0..n |-> IF k % 2 = 0 THEN 0 ELSE 1 + h[k \div 2]]

\* The recursive definitions of SignIn define something: a function for a smaller bound
\* can always be extended.
LEMMA DoublingExists ==
    ASSUME NEW S, NEW w \in Nat
    PROVE  \E f : Doubling(S, w, f)
<1> DEFINE Bad == {n \in Nat : ~ \E f : Doubling(S, n, f)}
<1>1. SUFFICES ASSUME Bad # {} PROVE FALSE
  OBVIOUS
<1>2. PICK m \in Bad : \A n \in Bad : m <= n
  <2>1. Bad \subseteq Nat
    OBVIOUS
  <2> HIDE DEF Bad
  <2> QED BY <1>1, <2>1, SmallestMember
<1>3. CASE m = 0
  <2>1. Doubling(S, 0, [i \in 0..0 |-> 0])
    BY DEF Doubling
  <2> QED BY <1>3, <2>1
<1>4. CASE m # 0
  <2>1. m - 1 \in Nat /\ m - 1 \notin Bad /\ m \in Nat
    BY <1>2, <1>4
  <2>2. PICK f : Doubling(S, m - 1, f)
    BY <2>1
  <2> DEFINE g == [i \in 0..m |-> IF i < m THEN f[i]
                                  ELSE 2 * f[m - 1] + (IF m - 1 \in S THEN 1 ELSE 0)]
  <2>3. ASSUME NEW i \in 0..m
        PROVE  g[i] = IF i = 0 THEN 0 ELSE 2 * g[i - 1] + (IF i - 1 \in S THEN 1 ELSE 0)
    <3>1. CASE i = m
      BY <1>4, <2>1, <3>1
    <3>2. CASE i < m
      <4>1. i \in 0..(m - 1) /\ (i # 0 => i - 1 \in 0..(m - 1))
        BY <2>1, <3>2
      <4>2. f[i] = IF i = 0 THEN 0 ELSE 2 * f[i - 1] + (IF i - 1 \in S THEN 1 ELSE 0)
        BY <2>2, <4>1 DEF Doubling
      <4> QED BY <2>1, <3>2, <4>1, <4>2
    <3> QED BY <2>1, <3>1, <3>2
  <2>4. g = [i \in 0..m |-> IF i = 0 THEN 0 ELSE 2 * g[i - 1] + (IF i - 1 \in S THEN 1 ELSE 0)]
    BY <2>3
  <2>5. Doubling(S, m, g)
    BY <2>4 DEF Doubling
  <2> QED BY <2>5
<1> QED BY <1>3, <1>4

LEMMA HalvingExists ==
    ASSUME NEW n \in Nat
    PROVE  \E h : Halving(n, h)
<1> DEFINE Bad == {m \in Nat : ~ \E h : Halving(m, h)}
<1>1. SUFFICES ASSUME Bad # {} PROVE FALSE
  OBVIOUS
<1>2. PICK m \in Bad : \A i \in Bad : m <= i
  <2>1. Bad \subseteq Nat
    OBVIOUS
  <2> HIDE DEF Bad
  <2> QED BY <1>1, <2>1, SmallestMember
<1>3. CASE m = 0
  <2>1. Halving(0, [k \in 0..0 |-> 0])
    BY DEF Halving
  <2> QED BY <1>3, <2>1
<1>4. CASE m # 0
  <2>1. m - 1 \in Nat /\ m - 1 \notin Bad /\ m \in Nat
    BY <1>2, <1>4
  <2>2. PICK f : Halving(m - 1, f)
    BY <2>1
  <2> DEFINE g == [k \in 0..m |-> IF k < m THEN f[k]
                                  ELSE IF m % 2 = 0 THEN 0 ELSE 1 + f[m \div 2]]
  <2>3. ASSUME NEW k \in 0..m
        PROVE  g[k] = IF k % 2 = 0 THEN 0 ELSE 1 + g[k \div 2]
    <3>1. CASE k = m
      <4>1. m \div 2 \in 0..m /\ m \div 2 < m
        BY <1>4, <2>1
      <4> QED BY <2>1, <3>1, <4>1
    <3>2. CASE k < m
      <4>1. k \in 0..(m - 1) /\ k \div 2 \in 0..(m - 1)
        BY <2>1, <3>2
      <4>2. f[k] = IF k % 2 = 0 THEN 0 ELSE 1 + f[k \div 2]
        BY <2>2, <4>1 DEF Halving
      <4> QED BY <2>1, <3>2, <4>1, <4>2
    <3> QED BY <2>1, <3>1, <3>2
  <2>4. g = [k \in 0..m |-> IF k % 2 = 0 THEN 0 ELSE 1 + g[k \div 2]]
    BY <2>3
  <2>5. Halving(m, g)
    BY <2>4 DEF Halving
  <2> QED BY <2>5
<1> QED BY <1>3, <1>4

\* The bits of S that are set without a gap up to the i-th.
Run(S, i) == {j \in 1..i : \A k \in j..i : k - 1 \in S}

LEMMA RunStep ==
    ASSUME NEW S, NEW i \in Nat
    PROVE  /\ Run(S, 0) = {} /\ IsFiniteSet(Run(S, i)) /\ Cardinality(Run(S, i)) \in Nat
           /\ i \notin S => Run(S, i + 1) = {}
           /\ i \in S => Cardinality(Run(S, i + 1)) = Cardinality(Run(S, i)) + 1
<1>1. Run(S, 0) = {}
  BY DEF Run
<1>2. IsFiniteSet(Run(S, i)) /\ Cardinality(Run(S, i)) \in Nat
  <2>1. IsFiniteSet(1..i) /\ Run(S, i) \subseteq 1..i
    BY FS_Interval DEF Run
  <2> QED BY <2>1, FS_Subset, FS_CardinalityType
<1>3. ASSUME i \notin S PROVE Run(S, i + 1) = {}
  <2>1. SUFFICES ASSUME NEW j \in Run(S, i + 1) PROVE FALSE
    OBVIOUS
  <2>2. i + 1 \in j..(i + 1)
    BY DEF Run
  <2> QED BY <1>3, <2>2 DEF Run
<1>4. ASSUME i \in S PROVE Cardinality(Run(S, i + 1)) = Cardinality(Run(S, i)) + 1
  <2>1. Run(S, i + 1) = Run(S, i) \cup {i + 1}
    BY <1>4 DEF Run
  <2>2. i + 1 \notin Run(S, i)
    BY DEF Run
  <2> QED BY <1>2, <2>1, <2>2, FS_AddElement
<1> QED BY <1>1, <1>2, <1>3, <1>4

\* The ones at the end of the number are the bits set without a gap up to the last.
LEMMA OnesOfPrefix ==
    ASSUME NEW S, NEW w \in Nat, NEW f, Doubling(S, w, f),
           NEW m, m \in Nat, NEW h, Halving(m, h)
    PROVE  \A i \in 0..w : f[i] \in Nat /\ (f[i] <= m => h[f[i]] = Cardinality(Run(S, i)))
<1> DEFINE Good(i) == f[i] \in Nat /\ (f[i] <= m => h[f[i]] = Cardinality(Run(S, i)))
           Bad == {i \in 0..w : ~Good(i)}
<1>1. SUFFICES ASSUME Bad # {} PROVE FALSE
  OBVIOUS
<1>2. PICK n \in Bad : \A i \in Bad : n <= i
  <2>1. Bad \subseteq Nat
    OBVIOUS
  <2> HIDE DEF Bad
  <2> QED BY <1>1, <2>1, SmallestMember
<1>3. \A i \in 0..w : f[i] = IF i = 0 THEN 0 ELSE 2 * f[i - 1] + (IF i - 1 \in S THEN 1 ELSE 0)
  BY DEF Doubling
<1>4. \A k \in 0..m : h[k] = IF k % 2 = 0 THEN 0 ELSE 1 + h[k \div 2]
  BY DEF Halving
<1>5. Cardinality({}) = 0
  BY FS_EmptySet
<1>6. n \in 0..w
  OBVIOUS
<1>7. CASE n = 0
  <2>1. f[0] = 0 /\ h[0] = 0
    BY <1>3, <1>4
  <2>2. Run(S, 0) = {}
    BY RunStep
  <2>3. Good(0)
    BY <1>5, <2>1, <2>2
  <2> QED BY <1>2, <1>7, <2>3
<1>8. CASE n # 0
  <2> DEFINE p == n - 1
  <2>1. p \in Nat /\ p \in 0..w /\ n = p + 1 /\ Good(p)
    BY <1>2, <1>6, <1>8
  <2>2. f[n] = 2 * f[p] + (IF p \in S THEN 1 ELSE 0)
    BY <1>3, <1>6, <1>8
  <2> HIDE DEF p
  <2>3. CASE p \in S
    <3>1. f[n] = 2 * f[p] + 1 /\ f[n] \in Nat /\ f[p] <= f[n]
      BY <2>1, <2>2, <2>3
    <3>2. f[n] % 2 = 1 /\ f[n] \div 2 = f[p]
      BY <2>1, <3>1
    <3>3. ASSUME f[n] <= m PROVE h[f[n]] = Cardinality(Run(S, n))
      <4>1. h[f[n]] = 1 + h[f[p]]
        BY <1>4, <3>1, <3>2, <3>3
      <4>2. h[f[p]] = Cardinality(Run(S, p))
        BY <2>1, <3>1, <3>3
      <4>3. Cardinality(Run(S, n)) = Cardinality(Run(S, p)) + 1 /\ Cardinality(Run(S, p)) \in Nat
        BY <2>1, <2>3, RunStep
      <4> QED BY <4>1, <4>2, <4>3
    <3> QED BY <1>2, <3>1, <3>3
  <2>4. CASE p \notin S
    <3>1. f[n] = 2 * f[p] /\ f[n] \in Nat
      BY <2>1, <2>2, <2>4
    <3>2. f[n] % 2 = 0
      BY <2>1, <3>1
    <3>3. Run(S, n) = {}
      BY <2>1, <2>4, RunStep
    <3>4. f[n] <= m => h[f[n]] = Cardinality(Run(S, n))
      BY <1>4, <1>5, <3>1, <3>2, <3>3
    <3> QED BY <1>2, <3>1, <3>4
  <2> QED BY <2>3, <2>4
<1> QED BY <1>7, <1>8

\* What signCount makes of the bits it reads (UserServiceImpl.signCount, BITFIELD and the
\* loop over its number), for every set of bits and every width.
THEOREM TrailingOnesCount ==
    ASSUME NEW S, NEW w \in Nat
    PROVE  Signing!TrailingOnes(Signing!Number(S, w)) = Cardinality(Run(S, w))
<1> DEFINE f == CHOOSE g : Doubling(S, w, g)
<1>1. Doubling(S, w, f)
  BY DoublingExists
<1>2. Signing!Number(S, w) = f[w]
  BY DEF Signing!Number, Doubling
<1> HIDE DEF f
<1>3. f[w] \in Nat
  <2>1. PICK h : Halving(0, h)
    BY HalvingExists
  <2>2. \A i \in 0..w : f[i] \in Nat
    BY <1>1, <2>1, OnesOfPrefix
  <2> QED BY <2>2
<1> DEFINE n == f[w]
           h == CHOOSE g : Halving(n, g)
<1>4. Halving(n, h)
  BY <1>3, HalvingExists
<1>5. Signing!TrailingOnes(n) = h[n]
  BY DEF Signing!TrailingOnes, Halving
<1>6. h[n] = Cardinality(Run(S, w))
  <2>1. n \in Nat /\ n <= n /\ w \in 0..w
    BY <1>3
  <2> HIDE DEF h
  <2> QED BY <1>1, <1>4, <2>1, OnesOfPrefix
<1> QED BY <1>2, <1>5, <1>6

--------------------------------------------------------------------------------
(* SignIn: the bits are the days that are signed.                          *)

SignInv ==
    /\ Signing!TypeOK
    /\ bits = [m \in Signing!Months |-> bits[m]]
    /\ \A m \in Signing!Months : \A i \in 1..Length[m] :
         i - 1 \in bits[m] <=> [month |-> m, day |-> i] \in signed

LEMMA SameCount == \A S : Signing!Cardinality(S) = Cardinality(S)
BY DEF Signing!Cardinality, Cardinality

LEMMA DayType ==
    ASSUME NEW d \in Signing!Days
    PROVE  /\ d.month \in Signing!Months /\ d.day \in 1..Length[d.month] /\ d.day \in Nat \ {0}
           /\ d = [month |-> d.month, day |-> d.day]
           /\ Length[d.month] \in Nat \ {0}
BY CalendarAssumption DEF Signing!Days, Signing!Months

\* What a count answers is the streak of the day it was asked for.
LEMMA CountAnswers ==
    ASSUME SignInv, NEW t \in Threads, Signing!Count(t)
    PROVE  answer' = [answer EXCEPT ![t] = Signing!Streak(read[t])] /\ Signing!Streak(read[t]) \in Nat
<1> DEFINE d == read[t]
<1>1. d \in Signing!Days
  BY DEF SignInv, Signing!TypeOK
<1>2. answer' = [answer EXCEPT ![t] = Cardinality(Run(bits[d.month], d.day))]
  <2>1. d.day \in Nat
    BY <1>1, DayType
  <2> QED BY <2>1, TrailingOnesCount DEF Signing!Count, Signing!Width
<1>3. Run(bits[d.month], d.day)
        = {f \in 1..d.day : \A i \in f..d.day : [month |-> d.month, day |-> i] \in signed}
  <2>1. \A f \in 1..d.day : \A i \in f..d.day : i \in 1..Length[d.month]
    BY <1>1, DayType
  <2>2. \A f \in 1..d.day : \A i \in f..d.day :
          i - 1 \in bits[d.month] <=> [month |-> d.month, day |-> i] \in signed
    BY <1>1, <2>1, DayType DEF SignInv
  <2> QED BY <2>2 DEF Run
<1>4. Signing!Streak(d) = Cardinality(Run(bits[d.month], d.day))
  BY <1>3, SameCount DEF Signing!Streak
<1>5. Cardinality(Run(bits[d.month], d.day)) \in Nat
  BY <1>1, DayType, RunStep
<1> QED BY <1>2, <1>4, <1>5

LEMMA SignInit == Signing!Init => SignInv
<1> SUFFICES ASSUME Signing!Init PROVE SignInv
  OBVIOUS
<1>1. today \in Signing!Days
  BY CalendarAssumption DEF Signing!Init, Signing!Days, Signing!Months
<1> QED BY <1>1 DEF Signing!Init, SignInv, Signing!TypeOK

LEMMA SignNext ==
    ASSUME SignInv, [Signing!Next]_signVars
    PROVE  SignInv'
<1>1. CASE Signing!Tick
  <2>1. today' \in Signing!Days
    <3>1. /\ today.month \in 1..Len(Length) /\ today.day \in Nat \ {0}
          /\ today = [month |-> today.month, day |-> today.day]
      BY DayType DEF SignInv, Signing!TypeOK, Signing!Months
    <3>2. CASE today.day < Length[today.month] /\ today' = [today EXCEPT !.day = @ + 1]
      <4>1. today' = [month |-> today.month, day |-> today.day + 1]
        BY <3>1, <3>2
      <4>2. today.day + 1 \in Nat \ {0} /\ today.day + 1 <= Length[today.month]
        BY <3>1, <3>2, CalendarAssumption
      <4> QED BY <3>1, <4>1, <4>2 DEF Signing!Days, Signing!Months
    <3>3. CASE today.month < Len(Length) /\ today' = [month |-> today.month + 1, day |-> 1]
      BY <3>1, <3>3, CalendarAssumption DEF Signing!Days, Signing!Months
    <3> QED BY <1>1, <3>2, <3>3 DEF Signing!Tick
  <2> QED BY <1>1, <2>1 DEF Signing!Tick, SignInv, Signing!TypeOK
<1>2. ASSUME NEW t \in Threads, NEW what \in {"sign", "count"}, Signing!Begin(t, what)
      PROVE  SignInv'
  BY <1>2 DEF Signing!Begin, SignInv, Signing!TypeOK
<1>3. ASSUME NEW t \in Threads, Signing!Sign(t) PROVE SignInv'
  <2> DEFINE d == read[t]
  <2>1. /\ d \in Signing!Days /\ bits' = [bits EXCEPT ![d.month] = @ \cup {d.day - 1}]
        /\ signed' = signed \cup {d} /\ call' = [call EXCEPT ![t] = "idle"]
        /\ UNCHANGED <<today, read, answer>>
    BY <1>3 DEF Signing!Sign, Signing!Offset, SignInv, Signing!TypeOK
  <2>2. /\ d.month \in Signing!Months /\ d.day \in 1..Length[d.month] /\ d.day \in Nat \ {0}
        /\ d = [month |-> d.month, day |-> d.day] /\ Length[d.month] \in Nat \ {0}
    BY <2>1, DayType
  <2> HIDE DEF d
  <2>3. \A m \in Signing!Months :
          bits'[m] = IF m = d.month THEN bits[m] \cup {d.day - 1} ELSE bits[m]
    BY <2>1 DEF SignInv
  <2>4. bits' = [m \in Signing!Months |-> bits'[m]]
    BY <2>1 DEF SignInv
  <2>5. \A m \in Signing!Months : bits'[m] \subseteq 0..(Length[m] - 1)
    <3>1. d.day - 1 \in 0..(Length[d.month] - 1)
      BY <2>2
    <3>2. \A m \in Signing!Months : bits[m] \subseteq 0..(Length[m] - 1)
      BY DEF SignInv, Signing!TypeOK
    <3> QED BY <2>3, <3>1, <3>2
  <2>6. Signing!TypeOK'
    BY <2>1, <2>4, <2>5 DEF SignInv, Signing!TypeOK
  <2>7. ASSUME NEW m \in Signing!Months, NEW i \in 1..Length[m]
        PROVE  i - 1 \in bits'[m] <=> [month |-> m, day |-> i] \in signed'
    <3>1. i - 1 \in bits[m] <=> [month |-> m, day |-> i] \in signed
      BY DEF SignInv
    <3>2. [month |-> m, day |-> i] = d <=> m = d.month /\ i - 1 = d.day - 1
      BY <2>2
    <3> QED BY <2>1, <2>3, <3>1, <3>2
  <2> QED BY <2>4, <2>6, <2>7 DEF SignInv
<1>4. ASSUME NEW t \in Threads, Signing!Count(t) PROVE SignInv'
  <2>1. answer' \in [Threads -> Nat]
    BY <1>4, CountAnswers DEF SignInv, Signing!TypeOK
  <2> QED BY <1>4, <2>1 DEF Signing!Count, SignInv, Signing!TypeOK
<1>5. CASE UNCHANGED signVars
  BY <1>5 DEF signVars, SignInv, Signing!TypeOK
<1> QED BY <1>1, <1>2, <1>3, <1>4, <1>5 DEF Signing!Next

\* signCount answers the run of signed days that ends on the day it was asked, however
\* late it reads the bitmap and whatever has been signed since, for every calendar.
THEOREM SignCountIsStreak == Signing!Spec => CountIsStreak
<1>1. Signing!Spec => Signing!Init /\ [][Signing!Next]_signVars
  BY DEF Signing!Spec, Signing!vars, signVars
<1>2. SignInv /\ [Signing!Next]_signVars =>
        [\A t \in Threads :
            call[t] = "count" /\ call'[t] = "idle" => answer'[t] = Signing!Streak(read[t])]_signVars
  <2> SUFFICES ASSUME SignInv, Signing!Next, NEW t \in Threads, call[t] = "count", call'[t] = "idle"
               PROVE  answer'[t] = Signing!Streak(read[t])
    OBVIOUS
  <2>1. Signing!Count(t)
    BY DEF SignInv, Signing!TypeOK, Signing!Next, Signing!Tick, Signing!Begin, Signing!Sign, Signing!Count
  <2> QED BY <2>1, CountAnswers DEF SignInv, Signing!TypeOK
<1>3. CountIsStreak <=>
        [][\A t \in Threads :
            call[t] = "count" /\ call'[t] = "idle" => answer'[t] = Signing!Streak(read[t])]_signVars
  BY DEF CountIsStreak, Signing!CountIsStreak, Signing!vars, signVars
<1> QED BY <1>1, <1>2, <1>3, SignInit, SignNext, PTL

--------------------------------------------------------------------------------
(* RateLimit.                                                              *)

USE RateAssumption, NoneAssumption

\* The instance counts as its module does.
LEMMA SameCardinality == \A S : Rate!Cardinality(S) = Cardinality(S)
BY DEF Rate!Cardinality, Cardinality

\* The entries of a set that are less than a window old at t.
Recent(set, t) == {e \in set : e.time > t - Window}

\* What the bucket knows: it has every request that passed and is still in the window, it is
\* not over the limit, and when its key expires nothing in it is that recent.
LogOK ==
    /\ now \in Nat /\ asked \in Nat
    /\ log \subseteq Rate!Entry /\ IsFiniteSet(log)
    /\ \A e \in log : e.time <= now
    /\ Cardinality(Recent(log, now)) <= Limit
    /\ expiry \in Nat \cup {None}
    /\ expiry # None => \A e \in log : e.time + Window <= expiry
    /\ expiry = None => log = {}

PassedOK ==
    /\ passed \subseteq Rate!Entry
    /\ \A e \in passed : e.time <= now
    /\ Recent(passed, now) \subseteq log

\* Every window that has ended, and the one that is ending.
WindowsOK == \A t \in Int : t <= now => Cardinality(Rate!Passed(t)) <= Limit /\ IsFiniteSet(Rate!Passed(t))

LimitInv == LogOK /\ PassedOK /\ WindowsOK

--------------------------------------------------------------------------------
\* The key does not expire before its entries are too old.
LEMMA LiveIsRecent ==
    ASSUME LogOK
    PROVE  Rate!Live = Recent(log, now) /\ IsFiniteSet(Rate!Live) /\ Cardinality(Rate!Live) <= Limit
<1>1. Rate!Live = Recent(log, now)
  <2>1. CASE expiry # None /\ now > expiry
    <3>1. \A e \in log : ~(e.time > now - Window)
      BY <2>1 DEF LogOK, Rate!Entry
    <3> QED BY <2>1, <3>1 DEF Rate!Live, Rate!Present, Recent
  <2>2. CASE ~(expiry # None /\ now > expiry)
    BY <2>2 DEF Rate!Live, Rate!Present, Recent
  <2> QED BY <2>1, <2>2
<1>2. IsFiniteSet(Recent(log, now))
  BY FS_Subset DEF LogOK, Recent
<1> QED BY <1>1, <1>2 DEF LogOK

LEMMA LiveIsRecentNext ==
    ASSUME LogOK'
    PROVE  Rate!Live' = Recent(log', now')
<1>1. CASE expiry' # None /\ now' > expiry'
  <2>1. \A e \in log' : ~(e.time > now' - Window)
    BY <1>1 DEF LogOK, Rate!Entry
  <2> QED BY <1>1, <2>1 DEF Rate!Live, Rate!Present, Recent
<1>2. CASE ~(expiry' # None /\ now' > expiry')
  BY <1>2 DEF Rate!Live, Rate!Present, Recent
<1> QED BY <1>1, <1>2

LEMMA InitLimit ==
    ASSUME Rate!Init
    PROVE  LimitInv
<1>1. Recent(log, now) = {} /\ Recent(passed, now) = {} /\ \A t \in Int : Rate!Passed(t) = {}
  BY DEF Rate!Init, Recent, Rate!Passed
<1>2. Cardinality({}) = 0 /\ IsFiniteSet({})
  BY FS_EmptySet
<1>3. LogOK
  BY <1>1, <1>2 DEF Rate!Init, LogOK
<1>4. PassedOK
  BY <1>1 DEF Rate!Init, PassedOK
<1>5. 0 <= Limit
  OBVIOUS
<1>6. WindowsOK
  <2>1. ASSUME NEW t \in Int
        PROVE  Cardinality(Rate!Passed(t)) <= Limit /\ IsFiniteSet(Rate!Passed(t))
    <3>1. Rate!Passed(t) = {}
      BY <1>1
    <3> QED BY <1>2, <1>5, <3>1
  <2> QED BY <2>1 DEF WindowsOK
<1> QED BY <1>3, <1>4, <1>6 DEF LimitInv

--------------------------------------------------------------------------------
(* The script leaves a bucket that is in order.                            *)

LEMMA AcceptLog ==
    ASSUME LogOK, Rate!Accept, now' = now, asked' \in Nat
    PROVE  /\ LogOK' /\ Rate!NewEntry \in Rate!Entry /\ Rate!NewEntry \in log' /\ Rate!Live \subseteq log'
           /\ Recent(log', now) = log' /\ Cardinality(log') <= Limit /\ IsFiniteSet(log')
<1>1. /\ Rate!Live = Recent(log, now) /\ IsFiniteSet(Rate!Live) /\ Cardinality(Rate!Live) < Limit
      /\ log' = Rate!Live \cup {Rate!NewEntry} /\ expiry' = now + Window
  <2>1. Rate!Live = Recent(log, now) /\ IsFiniteSet(Rate!Live) /\ Cardinality(Rate!Live) \in Nat
    BY LiveIsRecent, FS_CardinalityType
  <2>2. ~(Cardinality(Rate!Live) >= Limit)
    BY SameCardinality DEF Rate!Accept, Rate!Full
  <2>3. Cardinality(Rate!Live) < Limit
    BY <2>1, <2>2
  <2> QED BY <2>1, <2>3 DEF Rate!Accept, Rate!NewExpiry
<1>2. Rate!NewEntry \in Rate!Entry /\ Rate!NewEntry.time = now
  BY DEF LogOK, Rate!NewEntry, Rate!Entry
<1>3. IsFiniteSet(log') /\ Cardinality(log') <= Limit
  <2>1. Cardinality(Rate!Live) \in Nat /\ IsFiniteSet(Rate!Live)
    BY <1>1, FS_CardinalityType
  <2>2. IsFiniteSet(log') /\ Cardinality(log') \in {Cardinality(Rate!Live), Cardinality(Rate!Live) + 1}
    BY <1>1, <2>1, FS_AddElement
  <2> QED BY <1>1, <2>1, <2>2 
<1>4. /\ log' \subseteq Rate!Entry /\ \A e \in log' : e.time <= now
      /\ \A e \in log' : e.time + Window <= now + Window
  BY <1>1, <1>2 DEF LogOK, Recent, Rate!Entry
<1>5. Recent(log', now) = log'
  BY <1>1, <1>2 DEF Recent, LogOK
<1>6. now \in Nat /\ expiry' \in Nat /\ expiry' # None
  BY <1>1 DEF LogOK
<1>7. LogOK'
  BY <1>1, <1>3, <1>4, <1>5, <1>6 DEF LogOK
<1> QED BY <1>1, <1>2, <1>3, <1>5, <1>7
LEMMA RefuseLog ==
    ASSUME LogOK, Rate!Refuse, now' = now, asked' \in Nat
    PROVE  LogOK' /\ Rate!Live \subseteq log'
<1>1. log' = Recent(log, now) /\ log' = Rate!Live /\ expiry' = expiry
      /\ IsFiniteSet(log') /\ Cardinality(log') <= Limit
  BY LiveIsRecent DEF Rate!Refuse
<1>2. Recent(log', now) = log' /\ log' \subseteq log
  BY <1>1 DEF Recent
<1> QED BY <1>1, <1>2 DEF LogOK

LEMMA UsedLog ==
    ASSUME LogOK, Rate!Accept \/ Rate!Refuse, now' = now, asked' \in Nat
    PROVE  LogOK' /\ Rate!Live \subseteq log'
BY AcceptLog, RefuseLog

\* Whatever the script does to the bucket, no request that passed is forgotten too early.
LEMMA PassedStays ==
    ASSUME LogOK, PassedOK, Rate!Live \subseteq log', UNCHANGED <<now, passed>>
    PROVE  PassedOK'
<1>1. Recent(passed, now) \subseteq Rate!Live
  BY LiveIsRecent DEF PassedOK, Recent
<1> QED BY <1>1 DEF PassedOK, Recent

--------------------------------------------------------------------------------
\* The window that is ending is the fullest of those that have not ended.
LEMMA WindowsAll ==
    ASSUME LimitInv, NEW t \in Int
    PROVE  Cardinality(Rate!Passed(t)) <= Limit /\ IsFiniteSet(Rate!Passed(t))
<1>1. CASE t <= now
  BY <1>1 DEF LimitInv, WindowsOK
<1>2. CASE t > now
  <2>1. Rate!Passed(t) \subseteq Rate!Passed(now)
    BY <1>2 DEF Rate!Passed, LimitInv, LogOK, PassedOK, Rate!Entry
  <2>2. Cardinality(Rate!Passed(now)) <= Limit /\ IsFiniteSet(Rate!Passed(now))
    BY DEF LimitInv, WindowsOK, LogOK
  <2>3. IsFiniteSet(Rate!Passed(t)) /\ Cardinality(Rate!Passed(t)) <= Cardinality(Rate!Passed(now))
    BY <2>1, <2>2, FS_Subset
  <2>4. Cardinality(Rate!Passed(t)) \in Nat /\ Cardinality(Rate!Passed(now)) \in Nat
    BY <2>2, <2>3, FS_CardinalityType
  <2> QED BY <2>2, <2>3, <2>4 
<1> QED BY <1>1, <1>2 DEF LimitInv, LogOK

LEMMA PassLimit ==
    ASSUME LimitInv, Rate!Pass
    PROVE  LimitInv'
<1>1. /\ Rate!Accept /\ now' = now /\ asked' = asked + 1 /\ asked' \in Nat
      /\ passed' = passed \cup {Rate!NewEntry}
  BY DEF Rate!Pass, Rate!Ask, Rate!NewEntry, LimitInv, LogOK
<1>2. /\ LogOK' /\ Rate!NewEntry \in Rate!Entry /\ Rate!NewEntry \in log' /\ Rate!Live \subseteq log'
      /\ Cardinality(log') <= Limit /\ IsFiniteSet(log')
  BY <1>1, AcceptLog DEF LimitInv
<1>3. Rate!NewEntry.time = now
  BY DEF Rate!NewEntry
<1>4. Recent(passed', now) \subseteq log'
  BY <1>1, <1>2, LiveIsRecent DEF LimitInv, PassedOK, Recent
<1>5. PassedOK'
  BY <1>1, <1>2, <1>3, <1>4 DEF LimitInv, LogOK, PassedOK
<1>6. ASSUME NEW t \in Int, t <= now'
      PROVE  Cardinality(Rate!Passed(t)') <= Limit /\ IsFiniteSet(Rate!Passed(t)')
  <2>1. CASE t < now
    <3>1. Rate!Passed(t)' = Rate!Passed(t)
      BY <1>1, <1>3, <2>1 DEF Rate!Passed, LimitInv, LogOK
    <3> QED BY <1>1, <1>6, <3>1 DEF LimitInv, WindowsOK
  <2>2. CASE t = now
    <3>1. Rate!Passed(t)' \subseteq log'
      BY <1>4, <2>2 DEF Rate!Passed, Recent
    <3>2. IsFiniteSet(Rate!Passed(t)') /\ Cardinality(Rate!Passed(t)') <= Cardinality(log')
      BY <1>2, <3>1, FS_Subset
    <3>3. Cardinality(Rate!Passed(t)') \in Nat /\ Cardinality(log') \in Nat
      BY <1>2, <3>2, FS_CardinalityType
    <3> QED BY <1>2, <3>2, <3>3 
  <2> QED BY <1>1, <1>6, <2>1, <2>2 DEF LimitInv, LogOK
<1>7. WindowsOK'
  BY <1>6 DEF WindowsOK
<1> QED BY <1>2, <1>5, <1>7 DEF LimitInv

\* A step in which no request passes and no time either.
LEMMA OtherLimit ==
    ASSUME LimitInv, Rate!TooMany \/ Rate!Unavailable \/ Rate!ReplyLost
    PROVE  LimitInv'
<1>1. UNCHANGED <<now, passed>> /\ asked' \in Nat
  BY DEF Rate!TooMany, Rate!Unavailable, Rate!ReplyLost, Rate!Ask, LimitInv, LogOK
<1>2. LogOK' /\ Rate!Live \subseteq log'
  <2>1. CASE Rate!TooMany \/ Rate!ReplyLost
    BY <1>1, <2>1, UsedLog DEF Rate!TooMany, Rate!ReplyLost, LimitInv
  <2>2. CASE Rate!Unavailable
    <3>1. log' = log /\ expiry' = expiry
      BY <2>2 DEF Rate!Unavailable
    <3> QED BY <1>1, <3>1, LiveIsRecent DEF LimitInv, LogOK, Recent
  <2> QED BY <2>1, <2>2
<1>3. PassedOK'
  BY <1>1, <1>2, PassedStays DEF LimitInv
<1>4. WindowsOK'
  BY <1>1 DEF LimitInv, WindowsOK, Rate!Passed
<1> QED BY <1>2, <1>3, <1>4 DEF LimitInv

LEMMA TickLimit ==
    ASSUME LimitInv, Rate!Tick
    PROVE  LimitInv'
<1>1. now \in Nat /\ now' = now + 1 /\ UNCHANGED <<log, expiry, asked, passed>>
  BY DEF Rate!Tick, LimitInv, LogOK
<1>2. Recent(log, now + 1) \subseteq Recent(log, now) /\ Recent(passed, now + 1) \subseteq Recent(passed, now)
  BY <1>1 DEF Recent, LimitInv, LogOK, PassedOK, Rate!Entry
<1>3. Cardinality(Recent(log, now + 1)) <= Limit
  <2>1. IsFiniteSet(Recent(log, now)) /\ Cardinality(Recent(log, now)) <= Limit
    BY LiveIsRecent DEF LimitInv
  <2>2. /\ IsFiniteSet(Recent(log, now + 1))
        /\ Cardinality(Recent(log, now + 1)) <= Cardinality(Recent(log, now))
    BY <1>2, <2>1, FS_Subset
  <2>3. Cardinality(Recent(log, now + 1)) \in Nat /\ Cardinality(Recent(log, now)) \in Nat
    BY <2>1, <2>2, FS_CardinalityType
  <2> QED BY <2>1, <2>2, <2>3 
<1>4. \A e \in log \cup passed : e.time \in Nat /\ e.time <= now + 1
  BY <1>1 DEF LimitInv, LogOK, PassedOK, Rate!Entry
<1>5. LogOK'
  BY <1>1, <1>3, <1>4 DEF LimitInv, LogOK
<1>6. PassedOK'
  BY <1>1, <1>2, <1>4 DEF LimitInv, PassedOK
<1>7. ASSUME NEW t \in Int, t <= now + 1
      PROVE  Cardinality(Rate!Passed(t)) <= Limit /\ IsFiniteSet(Rate!Passed(t))
  BY <1>1, <1>7, WindowsAll
<1>8. WindowsOK'
  BY <1>1, <1>7 DEF WindowsOK, Rate!Passed
<1> QED BY <1>5, <1>6, <1>8 DEF LimitInv

--------------------------------------------------------------------------------
(* What a refusal says about the wait.                                     *)

\* What the script leaves is what it sees next.
LEMMA LiveAfter ==
    ASSUME LogOK, now' = now, asked' \in Nat
    PROVE  /\ Rate!Accept => Rate!Live' = Rate!Live \cup {Rate!NewEntry}
           /\ Rate!Refuse => Rate!Live' = Rate!Live
           /\ UNCHANGED <<log, expiry>> => Rate!Live' = Rate!Live
<1>1. ASSUME Rate!Accept PROVE Rate!Live' = Rate!Live \cup {Rate!NewEntry}
  <2>1. LogOK' /\ Recent(log', now) = log'
    BY <1>1, AcceptLog
  <2>2. Rate!Live' = Recent(log', now')
    BY <2>1, LiveIsRecentNext
  <2> QED BY <1>1, <2>1, <2>2 DEF Rate!Accept
<1>2. ASSUME Rate!Refuse PROVE Rate!Live' = Rate!Live
  <2>1. LogOK'
    BY <1>2, RefuseLog
  <2>2. Rate!Live' = Recent(log', now')
    BY <2>1, LiveIsRecentNext
  <2>3. log' = Recent(log, now)
    BY <1>2, LiveIsRecent DEF Rate!Refuse
  <2> QED BY <2>2, <2>3, LiveIsRecent DEF Recent
<1>3. ASSUME UNCHANGED <<log, expiry>> PROVE Rate!Live' = Rate!Live
  BY <1>3 DEF Rate!Live, Rate!Present
<1> QED BY <1>1, <1>2, <1>3

LEMMA LiveFacts ==
    ASSUME LogOK
    PROVE  /\ IsFiniteSet(Rate!Live) /\ Cardinality(Rate!Live) \in 0..Limit
           /\ Rate!Full <=> Cardinality(Rate!Live) = Limit
           /\ \A e \in Rate!Live : /\ e.time \in Nat /\ e.token \in Nat
                                   /\ e.time <= now /\ e.time > now - Window
<1>1. IsFiniteSet(Rate!Live) /\ Cardinality(Rate!Live) \in Nat /\ Cardinality(Rate!Live) <= Limit
  BY LiveIsRecent, FS_CardinalityType
<1>2. Rate!Full <=> Cardinality(Rate!Live) = Limit
  BY <1>1, SameCardinality DEF Rate!Full
<1>3. \A e \in Recent(log, now) : /\ e.time \in Nat /\ e.token \in Nat
                                  /\ e.time <= now /\ e.time > now - Window
  BY DEF LogOK, Recent, Rate!Entry
<1> QED BY <1>1, <1>2, <1>3, LiveIsRecent

LEMMA OldestIsFirst ==
    ASSUME LogOK, Rate!Full
    PROVE  Rate!Oldest \in Rate!Live /\ \A e \in Rate!Live : Rate!Oldest.time <= e.time
<1> DEFINE Times == {e.time : e \in Rate!Live}
<1>1. Rate!Live # {}
  <2>1. SUFFICES ASSUME Rate!Live = {} PROVE FALSE
    OBVIOUS
  <2>2. Cardinality(Rate!Live) = 0
    BY <2>1, FS_EmptySet
  <2> QED BY <2>2, LiveFacts
<1>2. Times \subseteq Nat /\ Times # {}
  BY <1>1, LiveFacts
<1>3. PICK m \in Times : \A n \in Times : m <= n
  <2> HIDE DEF Times
  <2> QED BY <1>2, SmallestMember
<1>4. \E e \in Rate!Live : \A f \in Rate!Live : e.time <= f.time
  BY <1>3
<1> QED BY <1>4 DEF Rate!Oldest

LEMMA RetryIsLeft ==
    ASSUME LogOK, Rate!Full
    PROVE  Rate!Retry = Rate!Oldest.time + Window - now /\ Rate!Retry \in 1..Window
BY OldestIsFirst, LiveFacts DEF Rate!Retry, LogOK

\* Whole seconds, rounded up.
LEMMA SecondsRoundUp ==
    ASSUME NEW m \in Nat \ {0}
    PROVE  /\ Rate!Seconds(m) \in Nat \ {0}
           /\ Rate!Seconds(m) * Second >= m /\ (Rate!Seconds(m) - 1) * Second < m
<1> DEFINE a == m + Second - 1
           q == a \div Second
<1>1. a \in Nat /\ a >= Second
  OBVIOUS
<1>2. q \in Nat /\ q * Second <= a /\ a < (q + 1) * Second
  OBVIOUS
<1>3. (q + 1) * Second = q * Second + Second /\ (q - 1) * Second = q * Second - Second
  BY <1>2
<1>4. q >= 1
  <2>1. SUFFICES ASSUME q = 0 PROVE FALSE
    BY <1>2
  <2>2. (q + 1) * Second = Second
    BY <2>1
  <2> QED BY <1>1, <1>2, <2>2
<1>5. Rate!Seconds(m) = q
  BY <1>2, <1>4 DEF Rate!Seconds
<1> QED BY <1>2, <1>3, <1>4, <1>5

\* What is known of a refusal: while its time runs the bucket is full, nothing leaves it
\* before the end and an entry leaves it then; afterwards the entries of then do not fill it.
RefusalOK(r) ==
    /\ r.at \in Nat /\ r.token \in Nat /\ r.retry \in 1..Window /\ r.seconds \in Nat \ {0}
    /\ r.seconds * Second >= r.retry /\ (r.seconds - 1) * Second < r.retry
    /\ r.token < asked
    /\ now < r.at + r.retry =>
         /\ Cardinality(Rate!Live) = Limit
         /\ \A e \in Rate!Live : e.time + Window >= r.at + r.retry
         /\ \E o \in Rate!Live : o.time + Window = r.at + r.retry
    /\ now >= r.at + r.retry => Cardinality(Rate!Live \ Rate!Since(r)) < Limit

LEMMA RefusalAccept ==
    ASSUME LogOK, NEW r, RefusalOK(r), Rate!Accept, now' = now, asked' = asked + 1
    PROVE  RefusalOK(r)'
<1>1. Rate!Live' = Rate!Live \cup {Rate!NewEntry} /\ now \in Nat /\ asked \in Nat
  BY LiveAfter DEF LogOK
<1>2. now >= r.at + r.retry
  BY LiveFacts, <1>1 DEF RefusalOK, Rate!Accept
<1>3. Rate!NewEntry.token > r.token
  BY <1>1 DEF RefusalOK, Rate!NewEntry
<1>4. (Rate!Live \ Rate!Since(r))' \subseteq Rate!Live \ Rate!Since(r)
  BY <1>1, <1>3 DEF Rate!Since
<1>5. IsFiniteSet(Rate!Live \ Rate!Since(r))
  BY LiveFacts, FS_Subset
<1>6. /\ Cardinality((Rate!Live \ Rate!Since(r))') <= Cardinality(Rate!Live \ Rate!Since(r))
      /\ Cardinality((Rate!Live \ Rate!Since(r))') \in Nat
      /\ Cardinality(Rate!Live \ Rate!Since(r)) \in Nat
  BY <1>4, <1>5, FS_Subset, FS_CardinalityType
<1>7. Cardinality((Rate!Live \ Rate!Since(r))') < Limit
  BY <1>2, <1>6 DEF RefusalOK
<1> QED BY <1>1, <1>2, <1>7 DEF RefusalOK

LEMMA RefusalKept ==
    ASSUME LogOK, NEW r, RefusalOK(r), Rate!Live' = Rate!Live, now' = now, asked' \in {asked, asked + 1}
    PROVE  RefusalOK(r)'
<1>1. Cardinality(Rate!Live)' = Cardinality(Rate!Live)
  OBVIOUS
<1>2. Cardinality(Rate!Live \ Rate!Since(r))' = Cardinality(Rate!Live \ Rate!Since(r))
  BY DEF Rate!Since
<1>3. r.token \in Nat /\ asked \in Nat /\ r.token < asked'
  BY DEF RefusalOK, LogOK
<1> QED BY <1>1, <1>2, <1>3 DEF RefusalOK

LEMMA RefusalTick ==
    ASSUME LogOK, NEW r, RefusalOK(r), Rate!Tick
    PROVE  RefusalOK(r)'
<1>1. /\ now \in Nat /\ now' = now + 1 /\ asked' = asked
      /\ Rate!Live' = {e \in Rate!Live : e.time > now + 1 - Window}
  <2>1. now \in Nat /\ UNCHANGED <<log, expiry, asked>> /\ now' = now + 1
    BY DEF LogOK, Rate!Tick
  <2>2. Rate!Live = Recent(log, now)
    BY LiveIsRecent
  <2>3. Rate!Live' = {e \in log : e.time > now + 1 - Window}
    <3>1. CASE expiry # None /\ now + 1 > expiry
      <4>1. \A e \in log : ~(e.time > now + 1 - Window)
        BY <2>1, <3>1 DEF LogOK, Rate!Entry
      <4> QED BY <2>1, <3>1, <4>1 DEF Rate!Live, Rate!Present
    <3>2. CASE ~(expiry # None /\ now + 1 > expiry)
      BY <2>1, <3>2 DEF Rate!Live, Rate!Present
    <3> QED BY <3>1, <3>2
  <2> QED BY <2>1, <2>2, <2>3 DEF Recent, LogOK, Rate!Entry
<1>2. CASE now + 1 < r.at + r.retry
  <2>1. \A e \in Rate!Live : e.time > now + 1 - Window
    BY <1>1, <1>2, LiveFacts DEF RefusalOK
  <2>2. Rate!Live' = Rate!Live
    BY <1>1, <2>1
  <2>3. Cardinality(Rate!Live)' = Cardinality(Rate!Live)
    BY <2>2
  <2>4. now < r.at + r.retry /\ now' < r.at + r.retry /\ ~(now' >= r.at + r.retry)
    BY <1>1, <1>2 DEF RefusalOK
  <2> QED BY <1>1, <2>2, <2>3, <2>4 DEF RefusalOK
<1>3. CASE now + 1 = r.at + r.retry
  <2>1. PICK o \in Rate!Live : o.time + Window = r.at + r.retry
    BY <1>1, <1>3 DEF RefusalOK
  <2>2. (Rate!Live \ Rate!Since(r))' \subseteq Rate!Live \ {o}
    BY <1>1, <1>3, <2>1, LiveFacts
  <2>3. /\ IsFiniteSet(Rate!Live \ {o}) /\ Cardinality(Rate!Live \ {o}) = Cardinality(Rate!Live) - 1
    BY <2>1, LiveFacts, FS_RemoveElement
  <2>4. /\ Cardinality((Rate!Live \ Rate!Since(r))') <= Cardinality(Rate!Live \ {o})
        /\ Cardinality((Rate!Live \ Rate!Since(r))') \in Nat
    BY <2>2, <2>3, FS_Subset, FS_CardinalityType
  <2>5. Cardinality((Rate!Live \ Rate!Since(r))') < Limit
    BY <2>3, <2>4, LiveFacts
  <2> QED BY <1>1, <1>3, <2>5 DEF RefusalOK
<1>4. CASE now + 1 > r.at + r.retry
  <2>1. (Rate!Live \ Rate!Since(r))' \subseteq Rate!Live \ Rate!Since(r)
    BY <1>1 DEF Rate!Since
  <2>2. IsFiniteSet(Rate!Live \ Rate!Since(r))
    BY LiveFacts, FS_Subset
  <2>3. /\ Cardinality((Rate!Live \ Rate!Since(r))') <= Cardinality(Rate!Live \ Rate!Since(r))
        /\ Cardinality((Rate!Live \ Rate!Since(r))') \in Nat
        /\ Cardinality(Rate!Live \ Rate!Since(r)) \in Nat
    BY <2>1, <2>2, FS_Subset, FS_CardinalityType
  <2>4. Cardinality((Rate!Live \ Rate!Since(r))') < Limit
    BY <1>1, <1>4, <2>3 DEF RefusalOK
  <2> QED BY <1>1, <1>4, <2>4 DEF RefusalOK
<1> QED BY <1>1, <1>2, <1>3, <1>4 DEF RefusalOK

\* The refusal that is just being answered.
LEMMA RefusalNew ==
    ASSUME LogOK, Rate!TooMany,
           NEW r, r = [at |-> now, token |-> asked, retry |-> Rate!Retry,
                       seconds |-> Rate!Seconds(Rate!Retry)]
    PROVE  RefusalOK(r)'
<1>1. /\ Rate!Full /\ Rate!Live' = Rate!Live /\ now' = now /\ asked' = asked + 1
      /\ now \in Nat /\ asked \in Nat
  BY LiveAfter DEF Rate!TooMany, Rate!Refuse, Rate!Ask, LogOK
<1>2. /\ r.at = now /\ r.token = asked /\ r.retry = Rate!Retry
      /\ r.seconds = Rate!Seconds(Rate!Retry)
  OBVIOUS
<1>3. /\ r.seconds \in Nat \ {0}
      /\ r.seconds * Second >= r.retry /\ (r.seconds - 1) * Second < r.retry
  <2>1. Rate!Retry \in Nat \ {0}
    BY <1>1, RetryIsLeft
  <2> QED BY <1>2, <2>1, SecondsRoundUp
<1>4. /\ r.retry \in 1..Window /\ r.at + r.retry = Rate!Oldest.time + Window
  BY <1>1, <1>2, RetryIsLeft, OldestIsFirst, LiveFacts
<1>5. /\ Cardinality(Rate!Live) = Limit /\ now < r.at + r.retry
      /\ \A e \in Rate!Live : e.time + Window >= r.at + r.retry
      /\ \E o \in Rate!Live : o.time + Window = r.at + r.retry
  BY <1>1, <1>2, <1>4, OldestIsFirst, LiveFacts
<1> QED BY <1>1, <1>2, <1>3, <1>4, <1>5 DEF RefusalOK

--------------------------------------------------------------------------------
\* The inductive invariant of the rate limit.
RateIInv ==
    /\ LimitInv
    /\ \A r \in refused : RefusalOK(r)
    /\ now <= MaxTime /\ asked <= MaxRequests /\ rateFaults \in 0..MaxFaults

LEMMA RateInit == Rate!Init => RateIInv
BY InitLimit, FaultsAssumption DEF Rate!Init, RateIInv

LEMMA RateNext ==
    ASSUME RateIInv, [Rate!Next]_rateVars
    PROVE  RateIInv'
<1> USE FaultsAssumption
<1>1. LimitInv'
  <2>1. CASE UNCHANGED rateVars
    BY <2>1 DEF RateIInv, rateVars, LimitInv, LogOK, PassedOK, WindowsOK, Rate!Passed
  <2> QED BY <2>1, PassLimit, OtherLimit, TickLimit DEF Rate!Next, RateIInv
<1>2. LogOK /\ now \in Nat /\ asked \in Nat /\ now <= MaxTime /\ asked <= MaxRequests
      /\ rateFaults \in 0..MaxFaults /\ \A r \in refused : RefusalOK(r)
  BY DEF RateIInv, LimitInv, LogOK
<1>3. now' <= MaxTime /\ asked' <= MaxRequests /\ rateFaults' \in 0..MaxFaults
  <2>1. CASE Rate!Pass \/ Rate!TooMany \/ Rate!Tick \/ UNCHANGED rateVars
    BY <1>2, <2>1 DEF Rate!Pass, Rate!TooMany, Rate!Tick, Rate!Ask, rateVars
  <2>2. CASE Rate!Unavailable \/ Rate!ReplyLost
    BY <1>2, <2>2 DEF Rate!Unavailable, Rate!ReplyLost, Rate!Ask, Rate!Fault
  <2> QED BY <2>1, <2>2 DEF Rate!Next
<1>4. ASSUME NEW r \in refused PROVE RefusalOK(r)'
  <2> RefusalOK(r)
    BY <1>2
  <2>1. CASE Rate!Pass
    BY <1>2, <2>1, RefusalAccept DEF Rate!Pass, Rate!Ask
  <2>2. CASE Rate!TooMany
    <3>1. Rate!Live' = Rate!Live /\ now' = now /\ asked' = asked + 1
      BY <1>2, <2>2, LiveAfter DEF Rate!TooMany, Rate!Ask
    <3> QED BY <1>2, <3>1, RefusalKept
  <2>3. CASE Rate!Unavailable
    <3>1. Rate!Live' = Rate!Live /\ now' = now /\ asked' = asked + 1
      BY <1>2, <2>3, LiveAfter DEF Rate!Unavailable, Rate!Ask
    <3> QED BY <1>2, <3>1, RefusalKept
  <2>4. CASE Rate!ReplyLost
    <3>1. now' = now /\ asked' = asked + 1
      BY <2>4 DEF Rate!ReplyLost, Rate!Ask
    <3>2. CASE Rate!Accept
      BY <1>2, <3>1, <3>2, RefusalAccept
    <3>3. CASE Rate!Refuse
      <4>1. Rate!Live' = Rate!Live
        BY <1>2, <3>1, <3>3, LiveAfter
      <4> QED BY <1>2, <3>1, <4>1, RefusalKept
    <3> QED BY <2>4, <3>2, <3>3 DEF Rate!ReplyLost
  <2>5. CASE Rate!Tick
    BY <1>2, <2>5, RefusalTick
  <2>6. CASE UNCHANGED rateVars
    <3>1. Rate!Live' = Rate!Live /\ now' = now /\ asked' = asked
      BY <1>2, <2>6, LiveAfter DEF rateVars
    <3> QED BY <1>2, <3>1, RefusalKept
  <2> QED BY <2>1, <2>2, <2>3, <2>4, <2>5, <2>6 DEF Rate!Next
<1>5. ASSUME NEW r \in refused', r \notin refused PROVE RefusalOK(r)'
  <2>1. /\ Rate!TooMany
        /\ r = [at |-> now, token |-> asked, retry |-> Rate!Retry, seconds |-> Rate!Seconds(Rate!Retry)]
    BY <1>5 DEF Rate!Next, Rate!Pass, Rate!TooMany, Rate!Unavailable, Rate!ReplyLost, Rate!Tick, rateVars
  <2> QED BY <1>2, <2>1, RefusalNew
<1>6. \A r \in refused' : RefusalOK(r)'
  BY <1>4, <1>5
<1> QED BY <1>1, <1>3, <1>6 DEF RateIInv

LEMMA RateImplied == RateIInv => RateInv
<1> SUFFICES ASSUME RateIInv PROVE RateInv
  OBVIOUS
<1>1. Rate!TypeOK
  <2>1. now \in 0..MaxTime /\ asked \in 0..MaxRequests /\ rateFaults \in 0..MaxFaults
    BY DEF RateIInv, LimitInv, LogOK
  <2>2. log \subseteq Rate!Entry /\ passed \subseteq Rate!Entry /\ expiry \in Nat \cup {None}
    BY DEF RateIInv, LimitInv, LogOK, PassedOK
  <2>3. ASSUME NEW r \in refused
        PROVE  /\ r.at \in Nat /\ r.token \in Nat /\ r.retry \in 1..Window
               /\ r.seconds \in Nat \ {0}
    BY DEF RateIInv, RefusalOK
  <2> QED BY <2>1, <2>2, <2>3 DEF Rate!TypeOK
<1>2. Rate!AtMostLimit
  BY WindowsAll, SameCardinality DEF RateIInv, Rate!AtMostLimit
<1>3. Rate!RetryIsExact
  BY LiveFacts, SameCardinality DEF RateIInv, LimitInv, RefusalOK, Rate!RetryIsExact
<1>4. Rate!SecondsSuffice
  BY DEF RateIInv, RefusalOK, Rate!SecondsSuffice
<1> QED BY <1>1, <1>2, <1>3, <1>4 DEF RateInv

\* The rate limit (rate_limit.lua and its callers), for any limit, window and clock: no
\* window lets more requests pass than the limit, a refused client that waits as long as it
\* is told is not kept out by the entries of before, one that comes earlier would be, and
\* the seconds of Retry-After are those milliseconds rounded up.
THEOREM RateLimitHolds == Rate!Spec => []RateInv
<1>1. Rate!Spec => Rate!Init /\ [][Rate!Next]_rateVars
  BY DEF Rate!Spec, Rate!vars, rateVars
<1> QED BY <1>1, RateInit, RateNext, RateImplied, PTL

--------------------------------------------------------------------------------
(* The components together.                                                *)

\* Every component keeps to its own specification.
LEMMA EachComponent ==
    RequestSpec => Spec /\ Sessions!Spec /\ Signing!Spec /\ Rate!Spec /\ Lock!Spec
<1>1. RequestInit => Init /\ Sessions!Init /\ Signing!Init /\ Rate!Init /\ Lock!Init
  BY DEF RequestInit
<1>2. [RequestNext]_<<part, vars, sessionVars, signVars, rateVars, lockVars>> =>
        /\ [Next]_vars /\ [Sessions!Next]_sessionVars /\ [Signing!Next]_signVars
        /\ [Rate!Next]_rateVars /\ [Lock!Next]_lockVars
  BY DEF RequestNext
<1>3. /\ Sessions!Spec <=> Sessions!Init /\ [][Sessions!Next]_sessionVars
      /\ Signing!Spec <=> Signing!Init /\ [][Signing!Next]_signVars
      /\ Rate!Spec <=> Rate!Init /\ [][Rate!Next]_rateVars
      /\ Lock!Spec <=> Lock!Init /\ [][Lock!Next]_lockVars
  BY DEF Sessions!Spec, Sessions!vars, Sessions!redisVars, Sessions!threadVars, sessionVars,
         Signing!Spec, Signing!vars, signVars, Rate!Spec, Rate!vars, rateVars,
         Lock!Spec, Lock!vars, lockVars
<1> QED BY <1>1, <1>2, <1>3, PTL DEF RequestSpec, Spec

\* Sessions and signing in: requests act as the users of their tokens or as nobody, but for
\* the first on a thread after a failed renewal, a session without an expiry is one that
\* nobody can name, and days are signed in their own month.
THEOREM LoginHolds == RequestSpec => []LoginInv
<1>1. Signing!Spec => Signing!Init /\ [][Signing!Next]_signVars
  BY DEF Signing!Spec, Signing!vars, signVars
<1>2. SignInv => Signing!TypeOK
  BY DEF SignInv
<1>3. Signing!Spec => []Signing!TypeOK
  BY <1>1, <1>2, SignInit, SignNext, PTL
<1>4. LoginInv <=> /\ Sessions!TypeOK /\ Sessions!ActsAsItself /\ Sessions!LastingIsUnknown
                   /\ Signing!TypeOK
  BY DEF LoginInv
<1> QED BY <1>3, <1>4, RequestsActAsThemselves, EachComponent, PTL

\* All that the run of the requests checks holds of their specification, for any constants.
THEOREM RequestsHold ==
    RequestSpec => [](IInv /\ RateInv /\ LockInv) /\ EndedStaysEnded /\ CountIsStreak
BY Invariance, RateLimitHolds, LeaseHoldersOwn, EndedForGood, SignCountIsStreak, EachComponent, PTL
================================================================================
