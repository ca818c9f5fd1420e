--------------------------------- MODULE Session ---------------------------------
(***************************************************************************)
(* Login sessions: the hash login:token:{token} with its expiry, written   *)
(* by UserServiceImpl.login in two calls, and the threads of the web       *)
(* server, each with the ThreadLocal of UserHolder, that serve requests    *)
(* through RefreshTokenInterceptor and LoginInterceptor.                   *)
(*                                                                         *)
(* Spring calls afterCompletion only for an interceptor whose preHandle    *)
(* has returned.  The check of the code that was sent is left out.         *)
(***************************************************************************)
EXTENDS Naturals, FiniteSets

CONSTANTS
    Users, Tokens, Threads,
    MaxFaults,      \* bound on failing calls and restarts
    None

VARIABLES
    session,        \* login:token:{token}: none, without an expiry, or expiring
    user,           \* whose token it is, None before it is made
    given,          \* tokens a login has returned
    pc,             \* where each thread is; idle in the pool between requests
    request,        \* its request: token in the header (or None) and kind
    made,           \* the token made by its login, None otherwise
    holder,         \* its ThreadLocal
    left,           \* history: threads whose ThreadLocal is left from a request whose
                    \* renewal failed
    faults

redisVars  == <<session, user, given>>
threadVars == <<pc, request, made, holder, left>>
vars == <<redisVars, threadVars, faults>>

\* Paths that LoginInterceptor excludes, the login among them, and paths it guards.
Kinds == {"open", "login", "guarded", "logout"}

Guarded == {"guarded", "logout"}

Init ==
    /\ session = [k \in Tokens |-> "none"] /\ user = [k \in Tokens |-> None]
    /\ given = {}
    /\ pc = [t \in Threads |-> "idle"] /\ holder = [t \in Threads |-> None]
    /\ request = [t \in Threads |-> [token |-> None, kind |-> "open"]]
    /\ made = [t \in Threads |-> None] /\ left = {}
    /\ faults = 0

Fault == faults < MaxFaults /\ faults' = faults + 1

At(t, where) == pc[t] = where

Goto(t, where) == pc' = [pc EXCEPT ![t] = where]

--------------------------------------------------------------------------------
(* RefreshTokenInterceptor and LoginInterceptor.                           *)

\* Bound: a login arrives only while a token is left for it.
TokensLeft ==
    Cardinality({t \in Threads : pc[t] \in {"renew", "check", "put"} /\ request[t].kind = "login"})
        < Cardinality({k \in Tokens : user[k] = None})

\* A session that is found is put into the ThreadLocal, which is otherwise left as it is.
Arrive(t, k, kind) ==
    /\ At(t, "idle") /\ (kind = "login" => TokensLeft)
    /\ request' = [request EXCEPT ![t] = [token |-> k, kind |-> kind]]
    /\ IF k # None /\ session[k] # "none"
       THEN Goto(t, "renew") /\ holder' = [holder EXCEPT ![t] = user[k]] /\ left' = left \ {t}
       ELSE Goto(t, "check") /\ UNCHANGED <<holder, left>>
    /\ UNCHANGED <<redisVars, made, faults>>

\* Slip: the session is written again, with its expiry.
Rewritten(k) == "expiring"

\* EXPIRE does nothing without the key.
Renewed(k) == IF session[k] = "none" THEN "none" ELSE "expiring"

Renew(t) ==
    /\ At(t, "renew")
    /\ session' = [session EXCEPT ![request[t].token] = Renewed(request[t].token)]
    /\ Goto(t, "check")
    /\ UNCHANGED <<user, given, request, made, holder, left, faults>>

\* The exception leaves preHandle, and afterCompletion is not called: the user stays in
\* the ThreadLocal of a thread that goes back to the pool.
RenewFails(t) ==
    /\ At(t, "renew") /\ Fault
    /\ Goto(t, "idle") /\ left' = left \cup {t}
    /\ UNCHANGED <<redisVars, request, made, holder>>

\* Slip: a token in the header is enough.
HasToken(t) == request[t].kind \notin Guarded \/ request[t].token # None

Passes(t) == request[t].kind \notin Guarded \/ holder[t] # None

Check(t) ==
    /\ At(t, "check")
    /\ Goto(t, IF ~Passes(t) THEN "after"
               ELSE IF request[t].kind = "login" THEN "put" ELSE "handle")
    /\ UNCHANGED <<redisVars, request, made, holder, left, faults>>

\* Slip: the user stays in the ThreadLocal.
Kept(t) == holder[t]

Removed(t) == None

After(t) ==
    /\ At(t, "after")
    /\ holder' = [holder EXCEPT ![t] = Removed(t)] /\ left' = left \ {t}
    /\ Goto(t, "idle")
    /\ UNCHANGED <<redisVars, request, made, faults>>

--------------------------------------------------------------------------------
(* The handlers.                                                           *)

Handle(t) ==
    /\ At(t, "handle") /\ request[t].kind # "logout"
    /\ Goto(t, "after")
    /\ UNCHANGED <<redisVars, request, made, holder, left, faults>>

Logout(t) ==
    /\ At(t, "handle") /\ request[t].kind = "logout"
    /\ session' = [k \in Tokens |-> IF k = request[t].token THEN "none" ELSE session[k]]
    /\ holder' = [holder EXCEPT ![t] = None] /\ left' = left \ {t}
    /\ Goto(t, "after")
    /\ UNCHANGED <<user, given, request, made, faults>>

\* login: a new token, and its hash.
Put(t, u, k) ==
    /\ At(t, "put")
    /\ user[k] = None
    /\ user' = [user EXCEPT ![k] = u]
    /\ session' = [session EXCEPT ![k] = "lasting"]
    /\ made' = [made EXCEPT ![t] = k]
    /\ Goto(t, "expire")
    /\ UNCHANGED <<given, request, holder, left, faults>>

\* Slip: the expiry is set by a call that comes before the hash is written.
TooEarly(k) == session[k]

Expiring(k) == IF session[k] = "none" THEN "none" ELSE "expiring"

SetExpiry(t) ==
    /\ At(t, "expire")
    /\ session' = [session EXCEPT ![made[t]] = Expiring(made[t])]
    /\ given' = given \cup {made[t]}
    /\ made' = [made EXCEPT ![t] = None]
    /\ Goto(t, "after")
    /\ UNCHANGED <<user, request, holder, left, faults>>

\* A call of a handler fails: afterCompletion is called all the same.
HandlerFails(t) ==
    /\ pc[t] \in {"handle", "put", "expire"} /\ Fault
    /\ made' = [made EXCEPT ![t] = None]
    /\ Goto(t, "after")
    /\ UNCHANGED <<redisVars, request, holder, left>>

--------------------------------------------------------------------------------
\* The session expires in Redis.
Expire(k) ==
    /\ session[k] = "expiring"
    /\ session' = [session EXCEPT ![k] = "none"]
    /\ UNCHANGED <<user, given, threadVars, faults>>

\* The process is restarted.
Restart ==
    /\ Fault
    /\ pc' = [t \in Threads |-> "idle"] /\ holder' = [t \in Threads |-> None]
    /\ made' = [t \in Threads |-> None] /\ left' = {}
    /\ UNCHANGED <<redisVars, request>>

Next ==
    \/ \E t \in Threads :
         \/ \E k \in given \cup {None}, kind \in Kinds : Arrive(t, k, kind)
         \/ Renew(t) \/ RenewFails(t) \/ Check(t) \/ After(t)
         \/ Handle(t) \/ Logout(t) \/ SetExpiry(t) \/ HandlerFails(t)
         \/ \E u \in Users, k \in Tokens : Put(t, u, k)
    \/ \E k \in Tokens : Expire(k)
    \/ Restart

Spec == Init /\ [][Next]_vars

--------------------------------------------------------------------------------
\* Ranges; and a handler that asks for the user finds one (UserHolder.getUser().getId()).
TypeOK ==
    /\ session \in [Tokens -> {"none", "lasting", "expiring"}]
    /\ user \in [Tokens -> Users \cup {None}] /\ given \subseteq Tokens
    /\ pc \in [Threads -> {"idle", "renew", "check", "handle", "put", "expire", "after"}]
    /\ request \in [Threads -> [token : Tokens \cup {None}, kind : Kinds]]
    /\ made \in [Threads -> Tokens \cup {None}]
    /\ holder \in [Threads -> Users \cup {None}] /\ left \subseteq Threads
    /\ \A k \in Tokens : user[k] = None => session[k] = "none" /\ k \notin given
    /\ \A t \in Threads : At(t, "expire") <=> made[t] # None
    /\ \A t \in Threads : At(t, "handle") /\ request[t].kind \in Guarded => holder[t] # None
    /\ faults \in 0..MaxFaults

\* t acts as the user of the token its request carries, or as nobody.
Itself(t) ==
    pc[t] # "idle" /\ holder[t] # None =>
        request[t].token # None /\ user[request[t].token] = holder[t]

\* A request acts as the user of the token it carries, or as nobody, unless the renewal of
\* the request before it on the same thread has failed: then it finds that request's user
\* in the ThreadLocal, and does not lose him if its own token finds no session.  The user
\* left behind is gone when that one request ends: no request but the next one of the same
\* thread ever acts as him by mistake.
ActsAsItself == \A t \in Threads \ left : Itself(t)

\* The same of every thread, which a failed renewal refutes (Session_leak.cfg).
AlwaysItself == \A t \in Threads : Itself(t)

\* A session that has ended, by logout or expiry, does not come back, although requests
\* that read it before are still renewing it.
EndedStaysEnded ==
    [][\A k \in Tokens : user[k] # None /\ session[k] = "none" => session'[k] = "none"]_session

\* A session without an expiry, left by a login that died between its two calls, is one
\* whose token nobody has.
LastingIsUnknown == \A k \in Tokens : session[k] = "lasting" => k \notin given
================================================================================
