------------------------------- MODULE MCRequests --------------------------------
(***************************************************************************)
(* What requests pass on their way and the small services they call, for   *)
(* TLC: sessions, signing in, the rate limit, the Redis lock and the ids.  *)
(* The components share no state, so it is enough for a behaviour to       *)
(* exercise one of them.                                                   *)
(***************************************************************************)
EXTENDS IdWorker

CONSTANTS
    Users, Tokens, None,
    Length,                                     \* SignIn
    Limit, Window, Second, MaxTime, MaxRequests,    \* RateLimit
    Processes, Numbers, MaxStarts,              \* RedisLock
    MaxFaults                                   \* bound on the faults of each component

\* None is no user and no token; a clock in milliseconds never shows it.
ASSUME NoneAssumption == None \notin Users /\ None \notin Tokens /\ None \notin Nat

ASSUME FaultsAssumption == MaxFaults \in Nat

\* Every month has a day.
ASSUME CalendarAssumption == Length \in Seq(Nat \ {0}) /\ Length # << >>

\* RateLimitAspect and SlidingWindowRateLimiter reject a limit or a window that is not
\* positive.
ASSUME RateAssumption ==
    /\ Limit \in Nat \ {0} /\ Window \in Nat \ {0} /\ Second \in Nat \ {0}
    /\ MaxTime \in Nat /\ MaxRequests \in Nat

ASSUME LockAssumption == MaxStarts \in Nat \ {0}

VARIABLES
    part,                                                               \* the component at work
    session, user, told, place, request, made, holder, left, faults,    \* Session
    today, bits, call, read, answer, signed,                            \* SignIn
    now, log, expiry, asked, passed, refused, rateFaults,               \* RateLimit
    lock, starts, working, lease                                        \* RedisLock

Sessions == INSTANCE Session WITH given <- told, pc <- place

Signing == INSTANCE SignIn WITH now <- today

Rate == INSTANCE RateLimit WITH faults <- rateFaults

Lock == INSTANCE RedisLock

\* A month of the least length between longer ones.
ShortMonths == <<3, 1, 3>>

sessionVars == <<session, user, told, place, request, made, holder, left, faults>>
signVars    == <<today, bits, call, read, answer, signed>>
rateVars    == <<now, log, expiry, asked, passed, refused, rateFaults>>
lockVars    == <<lock, starts, working, lease>>

RequestInit ==
    /\ part \in {"id", "session", "sign", "rate", "lock"}
    /\ Init /\ Sessions!Init /\ Signing!Init /\ Rate!Init /\ Lock!Init

RequestNext ==
    /\ UNCHANGED part
    /\ \/ part = "id" /\ Next /\ UNCHANGED <<sessionVars, signVars, rateVars, lockVars>>
       \/ part = "session" /\ Sessions!Next /\ UNCHANGED <<vars, signVars, rateVars, lockVars>>
       \/ part = "sign" /\ Signing!Next /\ UNCHANGED <<vars, sessionVars, rateVars, lockVars>>
       \/ part = "rate" /\ Rate!Next /\ UNCHANGED <<vars, sessionVars, signVars, lockVars>>
       \/ part = "lock" /\ Lock!Next /\ UNCHANGED <<vars, sessionVars, signVars, rateVars>>

RequestSpec == RequestInit /\ [][RequestNext]_<<part, vars, sessionVars, signVars, rateVars, lockVars>>

\* Session: a request acts as the user of its token, or as nobody, unless it is the first
\* on its thread after a request whose renewal failed, and a session without an expiry is
\* one whose token nobody has.  SignIn: days are signed in their own month.
LoginInv ==
    /\ Sessions!TypeOK /\ Sessions!ActsAsItself /\ Sessions!LastingIsUnknown
    /\ Signing!TypeOK

\* Session: a session that has ended stays ended.
EndedStaysEnded == Sessions!EndedStaysEnded

\* SignIn: signCount is the streak of the day it was asked.
CountIsStreak == Signing!CountIsStreak

\* RateLimit: no window lets more requests pass than the limit; what a refusal says about
\* the wait is exact, and the seconds of Retry-After are enough and not for nothing.
RateInv == Rate!TypeOK /\ Rate!AtMostLimit /\ Rate!RetryIsExact /\ Rate!SecondsSuffice

\* RedisLock: who is within his lease owns the lock.
LockInv == Lock!TypeOK /\ Lock!LeaseOwns
================================================================================
