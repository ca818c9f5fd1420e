-------------------------------- MODULE RateLimit --------------------------------
(***************************************************************************)
(* One bucket of the sliding-window rate limit: the script rate_limit.lua, *)
(* its caller SlidingWindowRateLimiter, the aspect that lets a request     *)
(* pass to the business method or answers 429 or 503, and the seconds of   *)
(* Retry-After.  The script runs in one step; its reply may be lost.       *)
(*                                                                         *)
(* Time is that of Redis, in its milliseconds, and does not run backwards. *)
(***************************************************************************)
EXTENDS Integers, FiniteSets

CONSTANTS
    Limit,          \* requests per window
    Window,         \* length of the window
    Second,         \* milliseconds in a second
    MaxTime,        \* bound on the clock
    MaxRequests,    \* bound on the requests
    MaxFaults,      \* bound on failed calls of Redis
    None

VARIABLES
    now,            \* the clock of Redis
    log,            \* the sorted set: entries with their time and their member
    expiry,         \* when the key expires, None without a key
    asked,          \* number of requests so far; it stands for the token of each
    passed,         \* entries of the requests that reached the business method
    refused,        \* the 429 answers: when, after which request, and for how long
    faults

vars == <<now, log, expiry, asked, passed, refused, faults>>

Entry == [time : Nat, token : Nat]

Init ==
    /\ now = 0
    /\ log = {} /\ expiry = None
    /\ asked = 0
    /\ passed = {} /\ refused = {}
    /\ faults = 0

--------------------------------------------------------------------------------
(* The script.                                                             *)

\* The key is gone once its time is over.
Present == IF expiry # None /\ now > expiry THEN {} ELSE log

\* Slip: the entry that is exactly one window old still counts.
LiveInclusive == {e \in Present : e.time >= now - Window}

\* The window (now - Window, now]; older entries are removed first.
Live == {e \in Present : e.time > now - Window}

\* Slip: the member is the time alone, so that a second request overwrites the first.
NewEntryByTime == [time |-> now, token |-> 0]

\* The member carries a token: requests of one millisecond are entries of their own.
NewEntry == [time |-> now, token |-> asked]

Full == Cardinality(Live) >= Limit

Oldest == CHOOSE e \in Live : \A f \in Live : e.time <= f.time

\* Slip: the time at which the oldest entry leaves the window, not how long that takes.
RetryTime == Oldest.time + Window

\* Milliseconds until the oldest entry leaves the window.
Retry ==
    LET left == Oldest.time + Window - now
    IN  IF left > 1 THEN left ELSE 1

\* Slip: the expiry is set with the first entry only.
FirstExpiry == IF Live = {} THEN now + Window ELSE expiry

\* PEXPIRE with every accepted request; a refused one changes neither set nor expiry.
NewExpiry == now + Window

Accept ==
    /\ ~Full
    /\ log' = Live \cup {NewEntry}
    /\ expiry' = NewExpiry

Refuse ==
    /\ Full
    /\ log' = Live
    /\ expiry' = expiry

--------------------------------------------------------------------------------
(* The aspect and the exception.                                           *)

Ask == asked < MaxRequests /\ asked' = asked + 1

Fault == faults < MaxFaults /\ faults' = faults + 1

\* Slip: the milliseconds are rounded down.
SecondsDown(millis) ==
    LET s == millis \div Second IN IF s > 1 THEN s ELSE 1

\* RateLimitException: whole seconds, rounded up, at least one.
Seconds(millis) ==
    LET s == (millis + Second - 1) \div Second IN IF s > 1 THEN s ELSE 1

Pass ==
    /\ Ask /\ Accept
    /\ passed' = passed \cup {[time |-> now, token |-> asked]}
    /\ UNCHANGED <<now, refused, faults>>

TooMany ==
    /\ Ask /\ Refuse
    /\ refused' = refused \cup {[at |-> now, token |-> asked, retry |-> Retry,
                                 seconds |-> Seconds(Retry)]}
    /\ UNCHANGED <<now, passed, faults>>

\* Redis cannot be reached: 503.
Unavailable ==
    /\ Ask /\ Fault
    /\ UNCHANGED <<now, log, expiry, passed, refused>>

\* The script has run but its reply is lost: 503, and the place stays taken.
ReplyLost ==
    /\ Ask /\ Fault
    /\ Accept \/ Refuse
    /\ UNCHANGED <<now, passed, refused>>

Tick ==
    /\ now < MaxTime
    /\ now' = now + 1
    /\ UNCHANGED <<log, expiry, asked, passed, refused, faults>>

Next == Pass \/ TooMany \/ Unavailable \/ ReplyLost \/ Tick

Spec == Init /\ [][Next]_vars

--------------------------------------------------------------------------------
\* Every variable has its type, and a client is never sent away for longer than a window.
TypeOK ==
    /\ now \in 0..MaxTime
    /\ log \subseteq Entry /\ passed \subseteq Entry
    /\ expiry \in Nat \cup {None}
    /\ asked \in 0..MaxRequests /\ faults \in 0..MaxFaults
    /\ \A r \in refused : r.at \in Nat /\ r.token \in Nat /\ r.retry \in 1..Window
                          /\ r.seconds \in Nat \ {0}

\* The passed requests of the window that ends at t.
Passed(t) == {e \in passed : e.time > t - Window /\ e.time <= t}

\* In no window, wherever it ends, do more requests pass than the limit allows.
AtMostLimit == \A t \in 0..MaxTime : Cardinality(Passed(t)) <= Limit

\* The entries made after the refusal r.
Since(r) == {e \in Live : e.token > r.token}

\* What a refusal tells the client is exact: until its milliseconds have passed the bucket
\* stays full, and from then on only requests that came later can keep it full.
RetryIsExact ==
    \A r \in refused :
        /\ now < r.at + r.retry => Full
        /\ now >= r.at + r.retry => Cardinality(Live \ Since(r)) < Limit

\* Retry-After is given in seconds: a client that waits them never comes too early, and
\* never waits a second for nothing.
SecondsSuffice ==
    \A r \in refused : /\ r.seconds * Second >= r.retry
                       /\ (r.seconds - 1) * Second < r.retry
================================================================================
