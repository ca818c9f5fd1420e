-------------------------------- MODULE CloseScan --------------------------------
(***************************************************************************)
(* The cursor of the close task (OrderCloseTask.scan, expiredAfter): pages *)
(* of expired orders by ascending id behind the last id that was tried,    *)
(* and a new start when a page is empty.  What closing does is             *)
(* OrderLifecycle's matter; here an order is closed or fails.              *)
(*                                                                         *)
(* The pending orders are a sequence by id.  An order usually gets a higher id *)
(* than all others, but one whose message was delayed is inserted among    *)
(* them.  The name of an order that is settled may stand for a later one.  *)
(***************************************************************************)
EXTENDS Integers, SequencesExt

CONSTANTS
    Orders,
    Broken,         \* orders that cannot be closed (their stock row is missing)
    Page,           \* orders per scan (100 in the code)
    MaxOrders,      \* bound on the orders, unless they are endless
    Endless,        \* orders keep coming
    MaxFaults       \* bound on transient failures and restarts

VARIABLES
    line,           \* the PENDING orders by id
    expired,        \* those past expire_time
    after,          \* the cursor: how many orders of line have an id up to it
    batch,          \* what is left of the page the task works on
    arrived,        \* orders so far
    faults

vars == <<line, expired, after, batch, arrived, faults>>

Pending == ToSet(line)

Place(order) == CHOOSE i \in DOMAIN line : line[i] = order

Init ==
    /\ line = <<>> /\ expired = {}
    /\ after = 0 /\ batch = <<>>
    /\ arrived = 0 /\ faults = 0

Fault == faults < MaxFaults /\ faults' = faults + 1

--------------------------------------------------------------------------------
Arrive(order, place) ==
    /\ order \notin Pending
    /\ (Endless \/ arrived < MaxOrders)
    /\ arrived' = IF Endless THEN arrived ELSE arrived + 1
    /\ line' = InsertAt(line, place, order)
    /\ after' = IF place <= after THEN after + 1 ELSE after
    /\ UNCHANGED <<expired, batch, faults>>

Expire(order) ==
    /\ order \in Pending \ expired
    /\ expired' = expired \cup {order}
    /\ UNCHANGED <<line, after, batch, arrived, faults>>

Pay(order) ==
    /\ order \in Pending \ expired
    /\ line' = RemoveAt(line, Place(order))
    /\ after' = IF Place(order) <= after THEN after - 1 ELSE after
    /\ UNCHANGED <<expired, batch, arrived, faults>>

\* The expired orders behind the cursor, by id, a page of them.
ExpiredAfter ==
    LET found[i \in after..Len(line)] ==
          IF i = after THEN <<>>
          ELSE IF line[i] \in expired /\ Len(found[i - 1]) < Page
               THEN Append(found[i - 1], line[i])
               ELSE found[i - 1]
    IN  found[Len(line)]

\* Slip: the cursor stays where it is at the end.
NoRestart == after

\* After an empty page the scan starts again.
Restart == 0

Scan ==
    /\ batch = <<>>
    /\ batch' = ExpiredAfter
    /\ after' = IF ExpiredAfter = <<>> THEN Restart ELSE after
    /\ UNCHANGED <<line, expired, arrived, faults>>

Close ==
    /\ batch # <<>> /\ Head(batch) \notin Broken
    /\ line' = RemoveAt(line, Place(Head(batch)))
    /\ expired' = expired \ {Head(batch)}
    /\ after' = Place(Head(batch)) - 1
    /\ batch' = Tail(batch)
    /\ UNCHANGED <<arrived, faults>>

\* Slip: the cursor moves one order too far.
MoveTwo(order) == Place(order) + 1

\* The cursor moves past an order that could not be closed.
MovePast(order) == Place(order)

CloseFails ==
    /\ batch # <<>>
    /\ \/ Head(batch) \in Broken /\ UNCHANGED faults
       \/ Fault
    /\ after' = MovePast(Head(batch))
    /\ batch' = Tail(batch)
    /\ UNCHANGED <<line, expired, arrived>>

\* The cursor is in memory.
RestartProcess ==
    /\ Fault
    /\ after' = 0 /\ batch' = <<>>
    /\ UNCHANGED <<line, expired, arrived>>

Next ==
    \/ \E order \in Orders :
           \/ \E place \in 1..(Len(line) + 1) : Arrive(order, place)
           \/ Expire(order) \/ Pay(order)
    \/ Scan \/ Close \/ CloseFails \/ RestartProcess

Spec == Init /\ [][Next]_vars

Fairness == WF_vars(Scan) /\ WF_vars(Close \/ CloseFails)

FairSpec == Spec /\ Fairness

--------------------------------------------------------------------------------
TypeOK ==
    /\ line \in Seq(Orders) /\ IsInjective(line)
    /\ expired \subseteq Pending
    /\ after \in 0..Len(line)
    /\ batch \in Seq(Orders) /\ Len(batch) <= Page
    /\ arrived \in 0..MaxOrders /\ faults \in 0..MaxFaults

\* The task works through a page in the order of ids: the cursor never passes an order of
\* the page that has not been tried, and those are still to be closed.
PageAhead ==
    \A i \in DOMAIN batch : batch[i] \in expired /\ Place(batch[i]) > after

\* Every expired order is closed in the end, whatever fails before it, inserted late or
\* skipped by the cursor: "failing orders do not block later pages; after the end
\* the scan starts again" (OrderCloseTask).
ExpiredClosed ==
    \A order \in Orders \ Broken : order \in expired ~> order \notin expired
================================================================================
