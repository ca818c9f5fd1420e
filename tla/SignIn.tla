---------------------------------- MODULE SignIn ----------------------------------
(***************************************************************************)
(* Signing in every day: UserServiceImpl.sign and signCount over one       *)
(* bitmap in Redis per month of one user.  Each request reads the clock    *)
(* once and goes to Redis later, perhaps on another day.                   *)
(***************************************************************************)
EXTENDS Naturals, Sequences, FiniteSets

CONSTANTS
    Length,         \* the lengths of the months, as a sequence; bounds the calendar
    Threads

VARIABLES
    now,            \* the clock: month and day
    bits,           \* per month, the offsets of the bits that are set
    call,           \* what each thread is about to do, "idle" between requests
    read,           \* the clock as each thread has read it
    answer,         \* the count each thread has answered last
    signed          \* history: the days for which sign has answered ok

vars == <<now, bits, call, read, answer, signed>>

Months == 1..Len(Length)

Days == {d \in [month : Months, day : Nat \ {0}] : d.day <= Length[d.month]}

Init ==
    /\ now = [month |-> 1, day |-> 1]
    /\ bits = [m \in Months |-> {}]
    /\ call = [t \in Threads |-> "idle"]
    /\ read = [t \in Threads |-> now] /\ answer = [t \in Threads |-> 0]
    /\ signed = {}

\* Midnight.
Tick ==
    /\ \/ /\ now.day < Length[now.month]
          /\ now' = [now EXCEPT !.day = @ + 1]
       \/ /\ now.day = Length[now.month] /\ now.month < Len(Length)
          /\ now' = [month |-> now.month + 1, day |-> 1]
    /\ UNCHANGED <<bits, call, read, answer, signed>>

\* A request has read the clock.
Begin(t, what) ==
    /\ call[t] = "idle"
    /\ call' = [call EXCEPT ![t] = what] /\ read' = [read EXCEPT ![t] = now]
    /\ UNCHANGED <<now, bits, answer, signed>>

--------------------------------------------------------------------------------
(* The bitmap.                                                             *)

\* Slip: the days of the month are taken for offsets.
DayItself(day) == day

Offset(day) == day - 1

Sign(t) ==
    /\ call[t] = "sign"
    /\ LET d == read[t]
       IN  /\ bits' = [bits EXCEPT ![d.month] = @ \cup {Offset(d.day)}]
           /\ signed' = signed \cup {d}
    /\ call' = [call EXCEPT ![t] = "idle"]
    /\ UNCHANGED <<now, read, answer>>

\* Slip: the whole bitmap is read, up to the last day of the month.
WholeMonth(d) == Length[d.month]

Width(d) == d.day

\* BITFIELD ... GET u{width} 0: the first bit is the highest of the number.
Number(set, width) ==
    LET sum[i \in 0..width] ==
          IF i = 0 THEN 0 ELSE 2 * sum[i - 1] + (IF i - 1 \in set THEN 1 ELSE 0)
    IN  sum[width]

\* Slip: every one counts, not only those at the end.
AllOnes(n) ==
    LET ones[k \in 0..n] == IF k = 0 THEN 0 ELSE (k % 2) + ones[k \div 2]
    IN  ones[n]

\* The ones at the end of the number's binary form; none if it is zero.
TrailingOnes(n) ==
    LET ones[k \in 0..n] == IF k % 2 = 0 THEN 0 ELSE 1 + ones[k \div 2]
    IN  ones[n]

Count(t) ==
    /\ call[t] = "count"
    /\ LET d == read[t]
       IN  answer' = [answer EXCEPT ![t] = TrailingOnes(Number(bits[d.month], Width(d)))]
    /\ call' = [call EXCEPT ![t] = "idle"]
    /\ UNCHANGED <<now, bits, read, signed>>

Next ==
    \/ Tick
    \/ \E t \in Threads :
         \/ \E what \in {"sign", "count"} : Begin(t, what)
         \/ Sign(t) \/ Count(t)

Spec == Init /\ [][Next]_vars

--------------------------------------------------------------------------------
\* Ranges; a bit stands for a day of its month, so no month runs into another key.
TypeOK ==
    /\ now \in Days /\ read \in [Threads -> Days] /\ signed \subseteq Days
    /\ DOMAIN bits = Months /\ \A m \in Months : bits[m] \subseteq 0..(Length[m] - 1)
    /\ call \in [Threads -> {"idle", "sign", "count"}]
    /\ answer \in [Threads -> Nat]

\* The longest run of signed days of the month that ends on the day d.
Streak(d) ==
    Cardinality({f \in 1..d.day : \A i \in f..d.day : [month |-> d.month, day |-> i] \in signed})

\* signCount answers the run of signed days that ends on the day it was asked, however
\* late it reads the bitmap and whatever later days have been signed by then.
CountIsStreak ==
    [][\A t \in Threads : call[t] = "count" /\ call'[t] = "idle" => answer'[t] = Streak(read[t])]_vars
================================================================================
