------------------------------ MODULE MCOrderTasks -------------------------------
(***************************************************************************)
(* The scheduled tasks and the start-up runner around the pipeline, for    *)
(* TLC.  The four components share no state: whatever the steps of the     *)
(* others in between, a behaviour shows each of them one of its own, so    *)
(* that it is enough for a behaviour to exercise one of them.              *)
(***************************************************************************)
EXTENDS OrderLifecycle, FiniteSets

CONSTANTS
    Orders, BrokenOrders, MaxOrders,
    Records, BrokenRecords,
    Page,
    MaxScanFaults,      \* bound on the faults of each scan
    Users, VoucherStock, None

\* A page is not negative; None is no number and no set of users.
ASSUME TaskAssumption ==
    /\ Page \in Nat /\ MaxOrders \in Nat /\ MaxScanFaults \in Nat
    /\ IsFiniteSet(Users) /\ VoucherStock \in Nat
    /\ None \notin Nat /\ \A some \in SUBSET Users : None # some

VARIABLES
    part,                                               \* the component at work
    line, overdueOrders, after, batch, arrived, closeFaults,        \* CloseScan
    queue, overdue, page, retryFaults,                              \* RetryScan
    dbStock, order, release, redisStock, qualified, meta, owners,   \* VoucherPreheat
    reserved, hook, runner, buyers, amount, preheatFaults

Closing ==
    INSTANCE CloseScan WITH
        Broken <- BrokenOrders, Endless <- FALSE, MaxFaults <- MaxScanFaults,
        expired <- overdueOrders, faults <- closeFaults

Retry ==
    INSTANCE RetryScan WITH
        Broken <- BrokenRecords, MaxFaults <- MaxScanFaults, line <- queue, faults <- retryFaults

Preheat ==
    INSTANCE VoucherPreheat WITH
        Stock0 <- VoucherStock, job <- release, stock <- redisStock, faults <- preheatFaults

closingVars == <<line, overdueOrders, after, batch, arrived, closeFaults>>
retryVars   == <<queue, overdue, page, retryFaults>>
preheatVars == <<dbStock, order, release, redisStock, qualified, meta, owners, reserved,
                 hook, runner, buyers, amount, preheatFaults>>

TaskInit ==
    /\ part \in {"life", "close", "retry", "preheat"}
    /\ Init /\ (part # "life" => ~expired)
    /\ Closing!Init /\ Retry!Init
    /\ Preheat!Init /\ (part # "preheat" => hook = "before")

TaskNext ==
    /\ UNCHANGED part
    /\ \/ part = "life" /\ Next /\ UNCHANGED <<closingVars, retryVars, preheatVars>>
       \/ part = "close" /\ Closing!Next /\ UNCHANGED <<vars, retryVars, preheatVars>>
       \/ part = "retry" /\ Retry!Next /\ UNCHANGED <<vars, closingVars, preheatVars>>
       \/ part = "preheat" /\ Preheat!Next /\ UNCHANGED <<vars, closingVars, retryVars>>

TaskSpec ==
    /\ TaskInit /\ [][TaskNext]_<<part, vars, closingVars, retryVars, preheatVars>>
    /\ part = "life" => Fairness
    /\ part = "close" => Closing!Fairness
    /\ part = "retry" => Retry!Fairness

\* OrderLifecycle: an order is paid in time or closed by the task in the end.
OrderDecided == part = "life" => Decided

\* The scans: the cursor of the close scan never passes an order of the page that was not
\* tried, and no record is queued twice for a retry.
ScansInv == Closing!TypeOK /\ Closing!PageAhead /\ Retry!TypeOK

\* CloseScan: an order that expires and can be closed is closed, whatever fails around it.
ExpiredClosed == part = "close" => Closing!ExpiredClosed

\* RetryScan: no record that someone else has settled comes back.
NothingResurrected == Retry!NothingResurrected

\* RetryScan: records that keep failing do not starve the others.
HealthySettled == part = "retry" => Retry!HealthySettled

\* VoucherPreheat: the stock in Redis and in MySQL differ by what is under way, and a
\* preheat at start-up forgets no buyer.
PreheatInv == Preheat!TypeOK /\ Preheat!StockAgrees /\ Preheat!BuyersKept
================================================================================
