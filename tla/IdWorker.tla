--------------------------------- MODULE IdWorker ---------------------------------
(***************************************************************************)
(* Order ids: RedisIdWorker.nextId packs the second that a thread has read *)
(* from the clock and a counter that Redis keeps per day into one number.  *)
(* The clock may jump, also back.  Redis does not forget a counter.        *)
(***************************************************************************)
EXTENDS Naturals, Sequences

CONSTANTS
    Threads,
    DayLength,      \* seconds of a day
    Base,           \* 2^COUNT_BITS
    MaxSecond,      \* bound on the clock
    MaxCount        \* bound on the ids of a day

\* Below Base, "or" adds the counter to the shifted second.
ASSUME IdAssumption ==
    /\ DayLength \in Nat \ {0} /\ Base \in Nat \ {0}
    /\ MaxSecond \in Nat /\ MaxCount \in Nat /\ MaxCount < Base

VARIABLES
    clock,          \* seconds since BEGIN_TIMESTAMP
    counter,        \* icr:{prefix}:{day}
    pc,             \* "idle", or "count" when the clock has been read
    second,         \* the second each thread has read
    given           \* the ids given so far, in order

vars == <<clock, counter, pc, second, given>>

Seconds == 0..MaxSecond

DayOf(s) == s \div DayLength

Days == {DayOf(s) : s \in Seconds}

Init ==
    /\ clock = 0
    /\ counter = [d \in Days |-> 0]
    /\ pc = [t \in Threads |-> "idle"] /\ second = [t \in Threads |-> 0]
    /\ given = << >>

\* Time passes, or the clock is set.
SetClock(s) ==
    /\ clock' = s
    /\ UNCHANGED <<counter, pc, second, given>>

ReadClock(t) ==
    /\ pc[t] = "idle"
    /\ second' = [second EXCEPT ![t] = clock]
    /\ pc' = [pc EXCEPT ![t] = "count"]
    /\ UNCHANGED <<clock, counter, given>>

\* Slip: the day is taken from the clock again.
DayNow(t) == DayOf(clock)

Key(t) == DayOf(second[t])

\* The second, shifted, and the count in the low bits.
Id(s, c) == s * Base + c

\* INCR, and the id is returned.
Increment(t) ==
    /\ pc[t] = "count" /\ counter[Key(t)] < MaxCount
    /\ counter' = [counter EXCEPT ![Key(t)] = @ + 1]
    /\ given' = Append(given, Id(second[t], counter[Key(t)] + 1))
    /\ pc' = [pc EXCEPT ![t] = "idle"]
    /\ UNCHANGED <<clock, second>>

\* INCR fails, or its reply is lost: nextId throws.
IncrementFails(t) ==
    /\ pc[t] = "count"
    /\ \/ UNCHANGED counter
       \/ /\ counter[Key(t)] < MaxCount
          /\ counter' = [counter EXCEPT ![Key(t)] = @ + 1]
    /\ pc' = [pc EXCEPT ![t] = "idle"]
    /\ UNCHANGED <<clock, second, given>>

Next ==
    \/ \E s \in Seconds : SetClock(s)
    \/ \E t \in Threads : ReadClock(t) \/ Increment(t) \/ IncrementFails(t)

Spec == Init /\ [][Next]_vars

--------------------------------------------------------------------------------
TypeOK ==
    /\ clock \in Seconds /\ counter \in [Days -> 0..MaxCount]
    /\ pc \in [Threads -> {"idle", "count"}] /\ second \in [Threads -> Seconds]
    /\ given \in Seq(Nat)

\* Every id comes from a second and a count that the counter of its day has passed.
Counted ==
    \A i \in 1..Len(given) :
        \E s \in Seconds, c \in 1..MaxCount :
            given[i] = Id(s, c) /\ c <= counter[DayOf(s)]

\* No order id is given twice, whatever the clock does and however many threads ask
\* at once (the ids are the keys of tb_voucher_order and tb_order_delivery).
IdsDistinct == \A i, j \in 1..Len(given) : given[i] = given[j] => i = j

\* The inductive invariant: ids are distinct because those of one second share a counter.
IInv == TypeOK /\ Counted /\ IdsDistinct
================================================================================
