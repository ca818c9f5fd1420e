-------------------------------- MODULE RetryScan --------------------------------
(***************************************************************************)
(* The scan of the recovery task over seckill:pending (overdue, cancel,    *)
(* defer): records in the order of their score, a page of the oldest       *)
(* overdue ones at a time, a record that fails put behind the others.      *)
(* retryPending scans tb_order_stock_release in the same way, by           *)
(* retry_time.                                                             *)
(*                                                                         *)
(* What cancelling does to the stores is SeckillOrder's matter; here a     *)
(* record is settled or fails.  Other threads add records and settle them  *)
(* while a page is being worked on.  The name of a settled record may      *)
(* stand for a later one, so that records arrive without end.              *)
(***************************************************************************)
EXTENDS Integers, SequencesExt

CONSTANTS
    Records,
    Broken,         \* records that fail whenever they are tried
    Page,           \* records per scan (100 in the code)
    MaxFaults       \* bound on transient failures and crashes

VARIABLES
    line,           \* the pending records, oldest score first
    overdue,        \* how many of them are older than the limit: a prefix
    page,           \* what is left of the page the task works on
    faults

vars == <<line, overdue, page, faults>>

Pending == ToSet(line)

Init ==
    /\ line = <<>> /\ overdue = 0
    /\ page = <<>>
    /\ faults = 0

Place(record) == CHOOSE i \in DOMAIN line : line[i] = record

\* A record that is not there any more leaves its neighbours in their order.
Without(record) == RemoveAt(line, Place(record))

\* The overdue ones among the records that stay.
OverdueWithout(record) ==
    IF record \in Pending /\ Place(record) <= overdue THEN overdue - 1 ELSE overdue

--------------------------------------------------------------------------------
\* seckill.lua adds a record with the current time as its score.
Arrive(record) ==
    /\ record \notin Pending \cup ToSet(page)
    /\ line' = Append(line, record)
    /\ UNCHANGED <<overdue, page, faults>>

\* The listener, or another instance's task, settles a record.
SettledElsewhere(record) ==
    /\ record \in Pending \ Broken
    /\ line' = Without(record)
    /\ overdue' = OverdueWithout(record)
    /\ UNCHANGED <<page, faults>>

\* The next record passes the age limit.
Age ==
    /\ overdue < Len(line)
    /\ overdue' = overdue + 1
    /\ UNCHANGED <<line, page, faults>>

Scan ==
    /\ page = <<>> /\ overdue > 0
    /\ page' = SubSeq(line, 1, IF overdue < Page THEN overdue ELSE Page)
    /\ UNCHANGED <<line, overdue, faults>>

Settle ==
    /\ page # <<>> /\ Head(page) \in Pending \ Broken
    /\ line' = Without(Head(page))
    /\ overdue' = OverdueWithout(Head(page))
    /\ page' = Tail(page)
    /\ UNCHANGED faults

\* Slip: the record gets a new score whether it is still pending or not (no XX).
Resurrected(record) == Append(IF record \in Pending THEN Without(record) ELSE line, record)

\* Slip: a list instead of a sorted set.
Duplicated(record) == Append(line, record)

\* Slip: a record that failed keeps its place.
Unmoved(record) == line

\* A record still pending gets the current time as its score.
Deferred(record) ==
    IF record \in Pending THEN Append(Without(record), record) ELSE line

\* A record cannot be read any more, or its cancellation throws: it is deferred.
Fail ==
    /\ page # <<>>
    /\ \/ Head(page) \notin Pending \ Broken /\ UNCHANGED faults
       \/ Head(page) \in Pending /\ faults < MaxFaults /\ faults' = faults + 1
    /\ line' = Deferred(Head(page))
    /\ overdue' = IF line' = line THEN overdue ELSE OverdueWithout(Head(page))
    /\ page' = Tail(page)

\* defer fails as well, or the process dies: the rest of the page waits for the next scan.
Abandon ==
    /\ page # <<>>
    /\ faults < MaxFaults /\ faults' = faults + 1
    /\ page' = <<>>
    /\ UNCHANGED <<line, overdue>>

Next ==
    \/ \E record \in Records : Arrive(record) \/ SettledElsewhere(record)
    \/ Age \/ Scan \/ Settle \/ Fail \/ Abandon

Spec == Init /\ [][Next]_vars

Fairness == WF_vars(Age) /\ WF_vars(Scan) /\ WF_vars(Settle \/ Fail)

FairSpec == Spec /\ Fairness

--------------------------------------------------------------------------------
TypeOK ==
    /\ line \in Seq(Records) /\ IsInjective(line)
    /\ overdue \in 0..Len(line)
    /\ page \in Seq(Records) /\ Len(page) <= Page
    /\ faults \in 0..MaxFaults

\* Working on a page never brings back a record that someone else has settled since it
\* was read (reservation_defer.lua: "XX avoids resurrecting a record").
NothingResurrected == [][page' # page => ToSet(line') \subseteq ToSet(line)]_vars

\* Records that fail again and again do not starve the others, however many there are and
\* however many arrive ("failing items are moved behind", the recovery task).
HealthySettled ==
    \A record \in Records \ Broken : record \in Pending ~> record \notin Pending
================================================================================
