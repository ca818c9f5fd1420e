----------------------------- MODULE OrderLifecycle -----------------------------
(***************************************************************************)
(* Payment and closing of one order (OrderLifecycleService): each of them  *)
(* reads the order and then updates it on the condition that status and    *)
(* version are still what it has read and that the deadline, by the        *)
(* database clock, has not, or has, passed.  Buyers may pay again; several *)
(* instances may close.  Two closings or payments of one order meet at the *)
(* update, which waits for the row.                                        *)
(***************************************************************************)
EXTENDS Integers

CONSTANTS
    Payers,         \* threads that serve POST /voucher-order/{id}/pay
    Closers,        \* close tasks, one per instance
    Stock0,         \* stock left in MySQL while the order is pending
    MaxFaults       \* bound on failed calls and lost replies

ASSUME LifecycleAssumption ==
    /\ Stock0 \in Nat /\ MaxFaults \in Nat
    /\ Payers \cap Closers = {}

Threads == Payers \cup Closers

VARIABLES
    status, version,    \* tb_voucher_order
    expired,            \* expire_time has passed
    stock,              \* tb_seckill_voucher.stock
    job,                \* a row of tb_order_stock_release exists
    pc, seen,           \* a thread's position and the version it has read
    faults

rowVars == <<status, version, stock, job>>
vars == <<rowVars, expired, pc, seen, faults>>

Init ==
    /\ status = "PENDING" /\ version = 0 /\ expired \in BOOLEAN
    /\ stock = Stock0 /\ job = FALSE
    /\ pc = [t \in Threads |-> "idle"]
    /\ seen = [t \in Threads |-> 0]
    /\ faults = 0

Goto(t, label) == pc' = [pc EXCEPT ![t] = label]

--------------------------------------------------------------------------------
\* Both begin with a read; a payment is answered if the order is not pending.
Read(t) ==
    /\ pc[t] = "idle"
    /\ IF status = "PENDING"
       THEN Goto(t, "update") /\ seen' = [seen EXCEPT ![t] = version]
       ELSE /\ Goto(t, IF t \in Closers THEN "done"
                       ELSE IF status = "PAID" THEN "ok" ELSE "refused")
            /\ UNCHANGED seen
    /\ UNCHANGED <<rowVars, expired, faults>>

\* Slip: the update trusts the status that was read.
AsRead(t) == TRUE

\* pendingVersion: the row is still the one that was read.
Unchanged(t) == status = "PENDING" /\ version = seen[t]

\* Slip: the task closes what has not expired.
NotYet(t) == ~expired

\* expire_time against CURRENT_TIMESTAMP, in the condition of the update itself.
InTime(t) == expired = (t \in Closers)

Pay(t) ==
    /\ t \in Payers /\ pc[t] = "update"
    /\ Unchanged(t) /\ InTime(t)
    /\ status' = "PAID" /\ version' = version + 1
    /\ Goto(t, "ok")
    /\ UNCHANGED <<expired, stock, job, seen, faults>>

\* Status, stock and release job in one transaction.
Close(t) ==
    /\ t \in Closers /\ pc[t] = "update"
    /\ Unchanged(t) /\ InTime(t)
    /\ status' = "CLOSED" /\ version' = version + 1
    /\ stock' = stock + 1
    /\ job' = TRUE
    /\ Goto(t, "done")
    /\ UNCHANGED <<expired, seen, faults>>

\* The update found no row: "changed or past its deadline, please refresh".
Missed(t) ==
    /\ pc[t] = "update"
    /\ ~(Unchanged(t) /\ InTime(t))
    /\ Goto(t, IF t \in Closers THEN "done" ELSE "refused")
    /\ UNCHANGED <<rowVars, expired, seen, faults>>

\* The next request of the buyer, the next round of the task.
Again(t) ==
    /\ pc[t] \in {"ok", "refused", "done", "error"}
    /\ Goto(t, "idle")
    /\ seen' = [seen EXCEPT ![t] = 0]
    /\ UNCHANGED <<rowVars, expired, faults>>

\* A call throws and the transaction rolls back.
CallFails(t) ==
    /\ faults < MaxFaults /\ faults' = faults + 1
    /\ pc[t] \in {"idle", "update"}
    /\ Goto(t, "error")
    /\ UNCHANGED <<rowVars, expired, seen>>

\* The transaction commits, the reply is lost.
ReplyLost(t) ==
    /\ faults < MaxFaults /\ faults' = faults + 1
    /\ pc[t] = "update" /\ Unchanged(t) /\ InTime(t)
    /\ status' = (IF t \in Closers THEN "CLOSED" ELSE "PAID") /\ version' = version + 1
    /\ IF t \in Closers THEN stock' = stock + 1 /\ job' = TRUE ELSE UNCHANGED <<stock, job>>
    /\ Goto(t, "error")
    /\ UNCHANGED <<expired, seen>>

Deadline ==
    /\ ~expired
    /\ expired' = TRUE
    /\ UNCHANGED <<rowVars, pc, seen, faults>>

Work(t) == Read(t) \/ Pay(t) \/ Close(t) \/ Missed(t)

Next ==
    \/ \E t \in Threads : Work(t) \/ Again(t) \/ CallFails(t) \/ ReplyLost(t)
    \/ Deadline

Spec == Init /\ [][Next]_vars

\* The task runs again and again; nobody has to pay again.
Fairness ==
    /\ WF_vars(Deadline)
    /\ \A t \in Threads : WF_vars(Work(t))
    /\ \A t \in Closers : WF_vars(Again(t))

FairSpec == Spec /\ Fairness

--------------------------------------------------------------------------------
TypeOK ==
    /\ status \in {"PENDING", "PAID", "CLOSED"}
    /\ version \in {0, 1} /\ stock \in Nat
    /\ expired \in BOOLEAN /\ job \in BOOLEAN
    /\ pc \in [Threads -> {"idle", "update", "ok", "refused", "done", "error"}]
    /\ seen \in [Threads -> {0, 1}]
    /\ faults \in 0..MaxFaults

\* Exactly one of payment in time and closing after the deadline wins, once, although both
\* have read PENDING; the stock returns with the closing and never twice.
Life == INSTANCE OrderLife WITH state <- status, late <- expired, returned <- job
ImplementsLife == Life!Spec

\* The unit is in the stock exactly when the order is closed and its release is queued.
StockWithJob == stock = Stock0 + (IF status = "CLOSED" THEN 1 ELSE 0) /\ job = (status = "CLOSED")

\* A buyer who was told "paid" has a paid order, whatever the close task has read before.
PaidAnswerStands == \A t \in Payers : pc[t] = "ok" => status = "PAID"

\* A paid order's version does not move again, nor a closed one's.
MovedOnce == version = IF status = "PENDING" THEN 0 ELSE 1

\* The order, its version, its unit of stock and its release job agree, and with what a buyer
\* was told; the invariant is inductive.
LifeInv == TypeOK /\ MovedOnce /\ StockWithJob /\ PaidAnswerStands

\* An order is decided in the end: paid in time, or closed by the task.
Decided == <>[](status \in {"PAID", "CLOSED"})
================================================================================
