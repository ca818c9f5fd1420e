-------------------------- MODULE OrderLifecycle_proofs --------------------------
(***************************************************************************)
(* Payment and closing of an order, for any number of buyers' requests,    *)
(* close tasks and faults: the invariant, and that the reads and           *)
(* conditional updates implement the atomic life of an order.              *)
(***************************************************************************)
EXTENDS OrderLifecycle, TLAPS

LEMMA InitLife ==
    ASSUME Init
    PROVE  LifeInv
<1>1. job \in BOOLEAN /\ job = (status = "CLOSED")
  BY Zenon DEF Init
<1>2. TypeOK
  BY <1>1, LifecycleAssumption DEF Init, TypeOK
<1>3. stock = Stock0 + IF status = "CLOSED" THEN 1 ELSE 0
  BY LifecycleAssumption DEF Init
<1>4. StockWithJob
  BY <1>1, <1>3 DEF StockWithJob
<1>5. MovedOnce /\ PaidAnswerStands
  BY DEF Init, MovedOnce, PaidAnswerStands, Threads
<1> QED BY <1>2, <1>4, <1>5 DEF LifeInv

--------------------------------------------------------------------------------
(* A step moves the row once, or leaves it.                                *)

\* The row is left, and nobody is told "paid" unless it is.
RowKept ==
    /\ UNCHANGED rowVars
    /\ \A t \in Payers : pc'[t] = "ok" => pc[t] = "ok" \/ status = "PAID"

RowPaid == status = "PENDING" /\ status' = "PAID" /\ version' = version + 1 /\ UNCHANGED <<stock, job>>

RowClosed ==
    /\ status = "PENDING" /\ status' = "CLOSED" /\ version' = version + 1
    /\ stock' = stock + 1 /\ job' = TRUE
    /\ \A t \in Payers : pc'[t] = "ok" => pc[t] = "ok"

LEMMA MoveLife ==
    ASSUME LifeInv, TypeOK', RowKept \/ RowPaid \/ RowClosed
    PROVE  LifeInv'
<1>1. CASE RowKept
  BY <1>1 DEF RowKept, rowVars, LifeInv, MovedOnce, StockWithJob, PaidAnswerStands
<1>2. CASE RowPaid
  BY <1>2 DEF RowPaid, LifeInv, MovedOnce, StockWithJob, PaidAnswerStands
<1>3. CASE RowClosed
  <2>1. job' = (status' = "CLOSED")
    BY <1>3, Zenon DEF RowClosed
  <2>2. stock' = Stock0 + IF status' = "CLOSED" THEN 1 ELSE 0
    BY <1>3, LifecycleAssumption DEF RowClosed, LifeInv, StockWithJob
  <2>3. StockWithJob'
    BY <2>1, <2>2 DEF StockWithJob
  <2>4. MovedOnce' /\ PaidAnswerStands'
    BY <1>3 DEF RowClosed, LifeInv, MovedOnce, PaidAnswerStands
  <2> QED BY <2>3, <2>4 DEF LifeInv
<1> QED BY <1>1, <1>2, <1>3

LEMMA ReadLife ==
    ASSUME LifeInv, NEW t \in Threads, Read(t)
    PROVE  LifeInv'
<1>1. TypeOK'
  BY DEF LifeInv, TypeOK, Read, Goto, rowVars
<1>2. RowKept
  <2>1. UNCHANGED rowVars
    BY DEF Read
  <2>2. ASSUME NEW u \in Payers, pc'[u] = "ok" PROVE pc[u] = "ok" \/ status = "PAID"
    BY <2>2, LifecycleAssumption DEF LifeInv, TypeOK, Read, Goto, Threads
  <2> QED BY <2>1, <2>2 DEF RowKept
<1> QED BY <1>1, <1>2, MoveLife

LEMMA PayLife ==
    ASSUME LifeInv, NEW t \in Threads, Pay(t)
    PROVE  LifeInv'
<1>1. TypeOK'
  BY DEF LifeInv, TypeOK, MovedOnce, Pay, Unchanged, Goto
<1>2. RowPaid
  BY DEF Pay, Unchanged, RowPaid
<1> QED BY <1>1, <1>2, MoveLife

LEMMA CloseLife ==
    ASSUME LifeInv, NEW t \in Threads, Close(t)
    PROVE  LifeInv'
<1>1. TypeOK'
  BY DEF LifeInv, TypeOK, MovedOnce, Close, Unchanged, Goto
<1>2. RowClosed
  BY DEF LifeInv, TypeOK, Close, Unchanged, Goto, RowClosed
<1> QED BY <1>1, <1>2, MoveLife

\* Steps of a thread that leave the row alone and give no answer "paid".
LEMMA QuietLife ==
    ASSUME LifeInv, NEW t \in Threads, Missed(t) \/ Again(t) \/ CallFails(t)
    PROVE  LifeInv'
<1>1. TypeOK'
  <2>1. CASE Missed(t)
    BY <2>1 DEF LifeInv, TypeOK, Missed, Goto, rowVars
  <2>2. CASE Again(t)
    BY <2>2 DEF LifeInv, TypeOK, Again, Goto, rowVars
  <2>3. CASE CallFails(t)
    BY <2>3, LifecycleAssumption DEF LifeInv, TypeOK, CallFails, Goto, rowVars
  <2> QED BY <2>1, <2>2, <2>3
<1>2. RowKept
  <2>1. UNCHANGED rowVars
    BY DEF Missed, Again, CallFails
  <2>2. ASSUME NEW u \in Payers, pc'[u] = "ok" PROVE pc[u] = "ok"
    BY <2>2 DEF LifeInv, TypeOK, Missed, Again, CallFails, Goto, Threads
  <2> QED BY <2>1, <2>2 DEF RowKept
<1> QED BY <1>1, <1>2, MoveLife

LEMMA ReplyLostLife ==
    ASSUME LifeInv, NEW t \in Threads, ReplyLost(t)
    PROVE  LifeInv'
<1>1. job' \in BOOLEAN
  BY Zenon DEF LifeInv, TypeOK, ReplyLost
<1>2. /\ status' \in {"PENDING", "PAID", "CLOSED"} /\ version' \in {0, 1} /\ stock' \in Nat
  BY DEF LifeInv, TypeOK, MovedOnce, ReplyLost, Unchanged
<1>3. /\ expired' \in BOOLEAN /\ faults' \in 0..MaxFaults
      /\ pc' \in [Threads -> {"idle", "update", "ok", "refused", "done", "error"}]
      /\ seen' \in [Threads -> {0, 1}]
  BY LifecycleAssumption DEF LifeInv, TypeOK, ReplyLost, Goto
<1>4. TypeOK'
  BY <1>1, <1>2, <1>3 DEF TypeOK
<1>5. RowPaid \/ RowClosed
  BY DEF LifeInv, TypeOK, ReplyLost, Unchanged, Goto, RowPaid, RowClosed
<1> QED BY <1>4, <1>5, MoveLife

LEMMA NextLife ==
    ASSUME LifeInv, [Next]_vars
    PROVE  LifeInv'
<1>1. CASE Deadline \/ UNCHANGED vars
  <2>1. TypeOK' /\ RowKept
    BY <1>1 DEF Deadline, vars, LifeInv, TypeOK, RowKept, rowVars
  <2> QED BY <2>1, MoveLife
<1>2. ASSUME NEW t \in Threads, Work(t) \/ Again(t) \/ CallFails(t) \/ ReplyLost(t)
      PROVE  LifeInv'
  BY <1>2, ReadLife, PayLife, CloseLife, QuietLife, ReplyLostLife DEF Work
<1> QED BY <1>1, <1>2 DEF Next

\* The order, its stock and its release job agree in every reachable state, and a buyer who
\* was told "paid" has a paid order (simulatePay, close).
THEOREM LifeInvariance == Spec => []LifeInv
<1> QED BY InitLife, NextLife, PTL DEF Spec

--------------------------------------------------------------------------------
(* The refinement.                                                         *)

LEMMA InitImplements ==
    ASSUME Init
    PROVE  Life!Init
BY DEF Init, Life!Init

LEMMA WorkImplements ==
    ASSUME LifeInv, NEW t \in Threads, Pay(t) \/ Close(t) \/ ReplyLost(t)
    PROVE  Life!Pay \/ Life!Close
<1>1. job = FALSE /\ status = "PENDING" /\ expired \in BOOLEAN
  BY DEF LifeInv, TypeOK, StockWithJob, Pay, Close, ReplyLost, Unchanged
<1>2. CASE t \in Closers
  <2>1. expired
    BY <1>1, <1>2, LifecycleAssumption DEF Pay, Close, ReplyLost, InTime
  <2> QED BY <1>1, <1>2, <2>1, LifecycleAssumption DEF Pay, Close, ReplyLost, Life!Close
<1>3. CASE t \notin Closers
  <2>1. ~expired
    BY <1>1, <1>3 DEF Pay, Close, ReplyLost, InTime
  <2> QED BY <1>1, <1>3, <2>1 DEF Pay, Close, ReplyLost, Life!Pay
<1> QED BY <1>2, <1>3

LEMMA NextImplements ==
    ASSUME LifeInv, [Next]_vars
    PROVE  [Life!Deadline \/ Life!Pay \/ Life!Close]_(Life!lifeVars)
<1>1. CASE UNCHANGED vars
  BY <1>1 DEF vars, rowVars, Life!lifeVars
<1>2. CASE Deadline
  BY <1>2 DEF Deadline, rowVars, Life!Deadline
<1>3. ASSUME NEW t \in Threads, Read(t) \/ Missed(t) \/ Again(t) \/ CallFails(t)
      PROVE  UNCHANGED Life!lifeVars
  BY <1>3 DEF Read, Missed, Again, CallFails, rowVars, Life!lifeVars
<1> QED BY <1>1, <1>2, <1>3, WorkImplements DEF Next, Work

\* Payments and closings that read first and update on a condition implement those that
\* decide at once: of all that have read the order PENDING, one moves it.
THEOREM LifeRefinement == Spec => ImplementsLife
<1>1. Init => Life!Init
  BY InitImplements
<1>2. LifeInv /\ [Next]_vars => [Life!Deadline \/ Life!Pay \/ Life!Close]_(Life!lifeVars)
  BY NextImplements
<1> QED BY <1>1, <1>2, LifeInvariance, PTL DEF Spec, ImplementsLife, Life!Spec
================================================================================
