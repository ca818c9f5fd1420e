------------------------ MODULE SeckillRefinement_proofs ------------------------
(***************************************************************************)
(* The purchase pipeline implements the abstract sale: every step of it is *)
(* a step of SeckillSale for one purchase attempt, or none at all.         *)
(***************************************************************************)
EXTENDS SeckillOrder_proofs

\* No attempt begins or un-begins.
SameBegun == \A r \in Reservations : pc'[r] = "start" <=> pc[r] = "start"

\* A thread that has begun ends its step at a label other than "start".
LEMMA EndsBegun ==
    ASSUME TypeOK, NEW t \in Threads, NEW label, label # "start", pc[t] # "start",
           pc' = [pc EXCEPT ![t] = label]
    PROVE  SameBegun
BY DEF TypeOK, ThreadsTypeOK, SameBegun, Threads

LEMMA ThrowBegun ==
    ASSUME TypeOK, NEW t \in Threads, pc[t] # "start", Throw(t)
    PROVE  SameBegun
<1>1. \E label : label # "start" /\ pc' = [pc EXCEPT ![t] = label]
  <2>1. CASE RequestCatch(t)
    BY <2>1 DEF RequestCatch, Goto
  <2>2. CASE WorkerRetry(t)
    BY <2>2 DEF WorkerRetry, EntryPC
  <2>3. CASE WorkerReject(t) \/ SchedulerCatch(t)
    BY <2>3 DEF WorkerReject, SchedulerCatch, GoIdle
  <2> QED BY <2>1, <2>2, <2>3 DEF Throw
<1> QED BY <1>1, EndsBegun

LEMMA AnswerBegun ==
    ASSUME TypeOK, NEW t \in Threads, pc[t] # "start", NEW label, label # "start",
           Answer(t, label)
    PROVE  SameBegun
<1>1. CASE Goto(t, label)
  BY <1>1, EndsBegun DEF Goto
<1>2. CASE Throw(t)
  BY <1>2, ThrowBegun
<1> QED BY <1>1, <1>2 DEF Answer

LEMMA FinishBegun ==
    ASSUME TypeOK, NEW t \in Threads, pc[t] # "start", NEW reply \in {"ok", "fail"},
           Finish(t, reply)
    PROVE  SameBegun
<1>1. CASE Answer(t, reply)
  BY <1>1, AnswerBegun
<1>2. CASE Answer(t, "ack")
  BY <1>2, AnswerBegun
<1>3. CASE SchedulerCatch(t)
  BY <1>3, ThrowBegun DEF Throw
<1> QED BY <1>1, <1>2, <1>3 DEF Finish

--------------------------------------------------------------------------------
(* Phases.                                                                 *)

phaseOf == [r \in Reservations |-> Phase(r)]

\* The slots of the sale are the slots in Redis.
LEMMA LiveIsHeld ==
    ASSUME IInv
    PROVE  Sale!Live = Held
<1>1. ASSUME NEW r \in Reservations
      PROVE  Phase(r) \in {"held", "ordered", "paid", "closed"} <=> owner[UserOf[r]] = r
  <2>1. ReservationOK(r) /\ order[r] \in {"none", "PENDING", "EXPIRED", "PAID", "CLOSED"}
    BY DEF IInv, TypeOK, StoresTypeOK
  <2> QED BY <2>1 DEF ReservationOK, Phase, OwnsSlot, Active
<1> QED BY <1>1 DEF Sale!Live, Held

\* An attempt whose owner entry, order and beginning stay as they are.
LEMMA PhaseKept ==
    ASSUME NEW r \in Reservations,
           order'[r] = order[r],
           owner'[UserOf[r]] = r <=> owner[UserOf[r]] = r,
           pc'[r] = "start" <=> pc[r] = "start"
    PROVE  Phase(r)' = Phase(r)
BY DEF Phase

\* A step of one attempt.
LEMMA OnePhase ==
    ASSUME NEW j \in Reservations, \A r \in Reservations \ {j} : Phase(r)' = Phase(r)
    PROVE  phaseOf' = [phaseOf EXCEPT ![j] = Phase(j)']
BY DEF phaseOf

LEMMA SalePhase ==
    ASSUME NEW j \in Reservations, \A r \in Reservations \ {j} : Phase(r)' = Phase(r),
           \/ Phase(j) = "new" /\ Phase(j)' = "gone"
           \/ Phase(j) = "held" /\ Phase(j)' = "ordered"
           \/ Phase(j) = "ordered" /\ Phase(j)' \in {"paid", "closed"}
           \/ Phase(j) \in {"held", "closed"} /\ Phase(j)' = "gone"
    PROVE  Sale!Next
<1>1. phaseOf' = [phaseOf EXCEPT ![j] = Phase(j)'] /\ phaseOf[j] = Phase(j)
  BY OnePhase DEF phaseOf
<1> QED BY <1>1
        DEF phaseOf, Sale!Next, Sale!Refuse, Sale!Order, Sale!Pay, Sale!Close, Sale!GiveBack,
            Sale!Become

\* Neither slots nor orders nor beginnings change.
LEMMA SaleStutter ==
    ASSUME UNCHANGED <<owner, order>>, SameBegun
    PROVE  UNCHANGED phaseOf
BY PhaseKept DEF SameBegun, phaseOf

\* The sale's module has its own copy of the definition of FiniteSets.
LEMMA SameCardinality == \A S : Sale!Cardinality(S) = Cardinality(S)
BY DEF Sale!Cardinality, Cardinality

--------------------------------------------------------------------------------
(* The steps of the pipeline that are steps of the sale.                   *)

LEMMA ReserveSale ==
    ASSUME IInv, NEW j \in Reservations, Reserve(j)
    PROVE  Sale!Next
<1>0. /\ j \in Threads /\ pc[j] = "start" /\ UserOf[j] \in Users /\ j # None
      /\ stock > 0 /\ owner[UserOf[j]] = None
      /\ owner' = [owner EXCEPT ![UserOf[j]] = j] /\ owner'[UserOf[j]] = j
      /\ order' = order /\ order[j] = "none"
  BY BuyersAssumption
     DEF Reserve, Reservable, At, Threads, IInv, TypeOK, StoresTypeOK, OwnersOK, ReservationOK, dbVars
<1>1. PICK label : label # "start" /\ pc' = [pc EXCEPT ![j] = label]
  <2>1. CASE Goto(j, "number")
    BY <2>1 DEF Goto
  <2>2. CASE Throw(j)
    <3>1. RequestCatch(j)
      BY <1>0, <2>2, Kinds DEF Throw, WorkerRetry, WorkerReject, SchedulerCatch
    <3> QED BY <3>1 DEF RequestCatch, Goto
  <2> QED BY <2>1, <2>2 DEF Reserve, Answer
<1>2. ASSUME NEW r \in Reservations \ {j} PROVE Phase(r)' = Phase(r)
  <2>1. pc'[r] = pc[r]
    BY <1>1 DEF IInv, TypeOK, ThreadsTypeOK, Threads
  <2>2. owner'[UserOf[r]] = r <=> owner[UserOf[r]] = r
    BY <1>0, BuyersAssumption DEF IInv, TypeOK, StoresTypeOK
  <2> QED BY <1>0, <2>1, <2>2, PhaseKept
<1>3. Phase(j) = "new" /\ Phase(j)' = "held"
  BY <1>0, BuyersAssumption DEF Phase
<1>4. phaseOf' = [phaseOf EXCEPT ![j] = "held"] /\ phaseOf[j] = "new"
  BY <1>2, <1>3, OnePhase DEF phaseOf
<1>5. Cardinality(Sale!Live) < Stock0
  BY <1>0, LiveIsHeld, FiniteSets, StockAssumption
     DEF IInv, RedisConservation, TypeOK, StoresTypeOK
<1>6. \A r \in Sale!Live : UserOf[r] # UserOf[j]
  BY <1>0, LiveIsHeld, BuyersAssumption DEF Held
<1>7. Sale!Hold(j)
  <2>1. Sale!Become(j, {"new"}, "held")
    BY <1>4 DEF Sale!Become, phaseOf
  <2> QED BY <1>5, <1>6, <2>1, SameCardinality DEF Sale!Hold
<1> QED BY <1>7 DEF Sale!Next

\* A request that ends before it holds anything.
LEMMA RefuseSale ==
    ASSUME IInv, NEW j \in Reservations, pc[j] = "start", NEW label, label # "start",
           pc' = [pc EXCEPT ![j] = label], UNCHANGED <<owner, order>>
    PROVE  Sale!Next
<1>1. order[j] = "none" /\ owner[UserOf[j]] # j
  BY DEF IInv, ReservationOK
<1>2. pc'[j] # "start" /\ \A r \in Reservations \ {j} : pc'[r] = pc[r]
  BY DEF IInv, TypeOK, ThreadsTypeOK, Threads
<1>3. Phase(j) = "new" /\ Phase(j)' = "gone"
  BY <1>1, <1>2 DEF Phase
<1>4. \A r \in Reservations \ {j} : Phase(r)' = Phase(r)
  BY <1>2, PhaseKept
<1> QED BY <1>3, <1>4, SalePhase

LEMMA ThrowSale ==
    ASSUME IInv, NEW t \in Threads, Throw(t), UNCHANGED <<owner, order>>
    PROVE  [Sale!Next]_phaseOf
<1>1. CASE pc[t] # "start"
  BY <1>1, ThrowBegun, SaleStutter DEF IInv
<1>2. CASE pc[t] = "start"
  <2>1. t \in Reservations /\ pc[t] \in PCOf(t)
    BY <1>2, Kinds DEF IInv, TypeOK, ThreadsTypeOK, Threads, Workers, ConsumerPC, DeadLetterPC,
                       SchedulerPC, CreateTx, CancelSteps
  <2>2. RequestCatch(t)
    BY <2>1, Kinds DEF Throw, WorkerRetry, WorkerReject, SchedulerCatch
  <2>3. \E label : label # "start" /\ pc' = [pc EXCEPT ![t] = label]
    BY <2>2 DEF RequestCatch, Goto
  <2> QED BY <1>2, <2>1, <2>3, RefuseSale
<1> QED BY <1>1, <1>2

LEMMA ReleaseSale ==
    ASSUME IInv, NEW t \in Threads, Release(t)
    PROVE  [Sale!Next]_phaseOf
<1>0. PICK j \in Reservations : job[t] = j
  BY DEF Release, At, IInv, TypeOK, ThreadsTypeOK
<1> DEFINE u == UserOf[j]
           match == record[j] = Expected(t)
           owns == match /\ owner[u] = j
<1>1. /\ pc[t] \in {"release", "releaseKeep", "releaseUnbound"} /\ u \in Users
      /\ owner' = [owner EXCEPT ![u] = IF owns THEN None ELSE @]
      /\ order' = order /\ Finish(t, "fail")
  BY <1>0, BuyersAssumption DEF Release, At, dbVars
<1>2. SameBegun
  BY <1>1, FinishBegun DEF IInv
<1>3. CASE ~ owns
  <2>1. owner' = owner
    BY <1>1, <1>3 DEF IInv, TypeOK, StoresTypeOK
  <2> QED BY <1>1, <1>2, <2>1, SaleStutter
<1>4. CASE owns
  <2>1. owner[u] = j /\ record[j] \in {"unbound", "bound"}
    BY <1>4 DEF Expected
  <2>2. owner' = [owner EXCEPT ![u] = None] /\ owner'[u] = None
    BY <1>1, <1>4 DEF IInv, TypeOK, StoresTypeOK
  <2>3. order[j] = "none" /\ pc[j] # "start"
    <3>1. ThreadOK(t) /\ ReservationOK(j)
      BY DEF IInv
    <3>2. record[j] = "unbound" <=> pc[t] = "releaseUnbound"
      BY <1>4 DEF Expected, At
    <3>3. record[j] = "unbound" \/ delivery[j] = "CANCELLED"
      BY <1>0, <1>1, <3>1, <3>2 DEF ThreadOK, At
    <3> QED BY <2>1, <3>1, <3>3 DEF ReservationOK
  <2>4. Phase(j) = "held" /\ Phase(j)' = "gone"
    BY <1>1, <1>2, <2>1, <2>2, <2>3, BuyersAssumption DEF Phase, SameBegun
  <2>5. ASSUME NEW r \in Reservations \ {j} PROVE Phase(r)' = Phase(r)
    <3>1. owner'[UserOf[r]] = r <=> owner[UserOf[r]] = r
      BY <2>1, <2>2, BuyersAssumption DEF IInv, TypeOK, StoresTypeOK
    <3> QED BY <1>1, <1>2, <3>1, PhaseKept DEF SameBegun
  <2> QED BY <2>4, <2>5, SalePhase
<1> QED BY <1>3, <1>4

LEMMA InsertSale ==
    ASSUME IInv, NEW t \in Workers, Insert(t)
    PROVE  Sale!Next
<1>0. PICK j \in Reservations : job[t] = j
  BY DEF Insert, At, IInv, TypeOK, ThreadsTypeOK, Threads
<1>1. /\ t \in Threads /\ pc[t] = "insert" /\ order[j] = "none"
      /\ order' = [order EXCEPT ![j] = "PENDING"] /\ order'[j] = "PENDING"
      /\ owner' = owner /\ Answer(t, "complete")
  BY <1>0 DEF Insert, Insertable, At, Threads, IInv, TypeOK, StoresTypeOK, redisVars
<1>2. SameBegun
  BY <1>1, AnswerBegun DEF IInv
<1>3. owner[UserOf[j]] = j
  BY <1>0, <1>1 DEF IInv, ThreadOK, At
<1>4. Phase(j) = "held" /\ Phase(j)' = "ordered"
  BY <1>1, <1>3 DEF Phase
<1>5. ASSUME NEW r \in Reservations \ {j} PROVE Phase(r)' = Phase(r)
  BY <1>1, <1>2, PhaseKept DEF SameBegun, IInv, TypeOK, StoresTypeOK
<1> QED BY <1>4, <1>5, SalePhase

LEMMA CloseOrderSale ==
    ASSUME IInv, NEW s \in Schedulers, NEW j \in Reservations, CloseOrder(s, j)
    PROVE  Sale!Next
<1>1. /\ order[j] = "EXPIRED"
      /\ order' = [order EXCEPT ![j] = "CLOSED"] /\ order'[j] = "CLOSED"
      /\ owner' = owner /\ pc' = pc
  BY DEF CloseOrder, Closable, IInv, TypeOK, StoresTypeOK, redisVars, threadVars
<1>2. owner[UserOf[j]] = j
  BY <1>1 DEF IInv, ReservationOK, Active, OwnsSlot
<1>3. Phase(j) = "ordered" /\ Phase(j)' = "closed"
  BY <1>1, <1>2 DEF Phase
<1>4. \A r \in Reservations \ {j} : Phase(r)' = Phase(r)
  BY <1>1, PhaseKept DEF IInv, TypeOK, StoresTypeOK
<1> QED BY <1>3, <1>4, SalePhase

LEMMA StatusSale ==
    ASSUME IInv, NEW j \in Reservations, Expire(j) \/ Pay(j)
    PROVE  [Sale!Next]_phaseOf
<1>1. PICK status \in {"EXPIRED", "PAID"} :
        /\ order[j] = "PENDING"
        /\ order' = [order EXCEPT ![j] = status] /\ order'[j] = status
        /\ owner' = owner /\ pc' = pc
  BY DEF Expire, Pay, IInv, TypeOK, StoresTypeOK, redisVars, threadVars
<1>2. \A r \in Reservations \ {j} : Phase(r)' = Phase(r)
  BY <1>1, PhaseKept DEF IInv, TypeOK, StoresTypeOK
<1>3. CASE status = "EXPIRED"
  <2>1. Phase(j)' = Phase(j)
    BY <1>1, <1>3 DEF Phase
  <2> QED BY <1>2, <2>1 DEF phaseOf
<1>4. CASE status = "PAID"
  <2>1. Phase(j) = "ordered" /\ Phase(j)' = "paid"
    BY <1>1, <1>4 DEF Phase
  <2> QED BY <1>2, <2>1, SalePhase
<1> QED BY <1>3, <1>4

LEMMA CloseReleaseSale ==
    ASSUME IInv, NEW t \in Schedulers, CloseRelease(t)
    PROVE  Sale!Next
<1>0. PICK j \in Reservations : job[t] = j
  BY DEF CloseRelease, At, IInv, TypeOK, ThreadsTypeOK, Threads
<1> DEFINE u == UserOf[j]
<1>1. /\ t \in Threads /\ pc[t] = "closeRelease" /\ u \in Users
      /\ owner[u] = j /\ owner' = [owner EXCEPT ![u] = None] /\ owner'[u] = None
      /\ order' = order /\ Answer(t, "closeDone")
  BY <1>0, BuyersAssumption
     DEF CloseRelease, OwnsSlot, At, Threads, IInv, TypeOK, StoresTypeOK, dbVars
<1>2. SameBegun
  BY <1>1, AnswerBegun DEF IInv
<1>3. order[j] = "CLOSED" /\ pc[j] # "start"
  BY <1>0, <1>1 DEF IInv, ThreadOK, ReservationOK, At
<1>4. Phase(j) = "closed" /\ Phase(j)' = "gone"
  BY <1>1, <1>2, <1>3, BuyersAssumption DEF Phase, SameBegun
<1>5. ASSUME NEW r \in Reservations \ {j} PROVE Phase(r)' = Phase(r)
  <2>1. owner'[UserOf[r]] = r <=> owner[UserOf[r]] = r
    BY <1>1, BuyersAssumption DEF IInv, TypeOK, StoresTypeOK
  <2> QED BY <1>1, <1>2, <2>1, PhaseKept DEF SameBegun
<1> QED BY <1>4, <1>5, SalePhase

--------------------------------------------------------------------------------
(* The other steps, and the theorem.                                       *)

\* A busy thread's step that ends with an answer or an exception and touches
\* neither owners nor orders.
LEMMA RequestSale ==
    ASSUME IInv, NEW r \in Reservations, Request(r)
    PROVE  [Sale!Next]_phaseOf
<1>1. r \in Threads /\ UNCHANGED <<owner, order>>
  BY DEF Request, Number, Bind, BindStale, Publish, Confirmed, ConfirmTimeout,
         redisVars, dbVars, Threads
<1>2. pc[r] # "start"
  BY DEF Request, Number, Bind, BindStale, Publish, Confirmed, ConfirmTimeout, At
<1>3. CASE Bind(r)
  BY <1>1, <1>2, <1>3, AnswerBegun, SaleStutter DEF Bind, IInv
<1>4. CASE ConfirmTimeout(r)
  BY <1>1, <1>4, ThrowSale DEF ConfirmTimeout
<1>5. CASE ~ Bind(r) /\ ~ ConfirmTimeout(r)
  <2>1. \E label : label # "start" /\ pc' = [pc EXCEPT ![r] = label]
    BY <1>5 DEF Request, Number, BindStale, Publish, Confirmed, Goto
  <2> QED BY <1>1, <1>2, <2>1, EndsBegun, SaleStutter DEF IInv
<1> QED BY <1>3, <1>4, <1>5

LEMMA ListenerSale ==
    ASSUME IInv, NEW w \in Workers, Listener(w)
    PROVE  [Sale!Next]_phaseOf
<1>1. w \in Threads
  BY DEF Threads
<1>2. CASE Insert(w)
  BY <1>2, InsertSale
<1>3. CASE CheckOwnerRefused(w) \/ InsertRefused(w) \/ (CheckBinding(w) /\ Throw(w))
  BY <1>1, <1>3, ThrowSale DEF CheckOwnerRefused, InsertRefused, CheckBinding, redisVars, dbVars
<1>4. CASE \/ CreateLock(w) \/ CheckOwner(w) \/ Ack(w) \/ (CheckBinding(w) /\ ~ Throw(w))
           \/ \E r \in Reservations : Deliver(w, r)
  <2>1. UNCHANGED <<owner, order>> /\ pc[w] # "start"
    BY <1>4 DEF Deliver, CreateLock, CheckOwner, CheckBinding, Ack, At, redisVars, dbVars
  <2>2. \E label : label # "start" /\ pc' = [pc EXCEPT ![w] = label]
    BY <1>4 DEF Deliver, EntryPC, CreateLock, AfterLock, CheckOwner, CheckBinding, Ack,
                Goto, GoIdle
  <2> QED BY <1>1, <2>1, <2>2, EndsBegun, SaleStutter DEF IInv
<1> QED BY <1>2, <1>3, <1>4 DEF Listener

LEMMA TaskSale ==
    ASSUME IInv, NEW s \in Schedulers, Task(s)
    PROVE  [Sale!Next]_phaseOf
<1>1. s \in Threads
  BY DEF Threads
<1>2. CASE CloseRelease(s) \/ \E r \in Reservations : CloseOrder(s, r)
  BY <1>2, CloseReleaseSale, CloseOrderSale
<1>3. CASE CloseRefused(s) \/ CloseDone(s)
  BY <1>1, <1>3, ThrowSale DEF CloseRefused, CloseDone, redisVars, dbVars
<1>4. CASE CloseReleased(s) \/ \E r \in Reservations : RecoverRead(s, r) \/ PickRelease(s, r)
  <2>1. UNCHANGED <<owner, order>> /\ pc[s] # "start"
    BY <1>4 DEF CloseReleased, RecoverRead, PickRelease, Take, At, redisVars, dbVars
  <2>2. \E label : label # "start" /\ pc' = [pc EXCEPT ![s] = label]
    BY <1>4 DEF CloseReleased, RecoverRead, PickRelease, Take, Goto
  <2> QED BY <1>1, <2>1, <2>2, EndsBegun, SaleStutter DEF IInv
<1> QED BY <1>2, <1>3, <1>4 DEF Task

LEMMA CompensationSale ==
    ASSUME IInv, NEW t \in Threads, Compensation(t)
    PROVE  [Sale!Next]_phaseOf
<1>1. CASE CancelTx(t)
  <2>1. PICK label : label # "start" /\ Answer(t, label)
    BY <1>1 DEF CancelTx
  <2>2. UNCHANGED <<owner, order>> /\ pc[t] # "start"
    BY <1>1 DEF CancelTx, At, redisVars
  <2> QED BY <2>1, <2>2, AnswerBegun, SaleStutter DEF IInv
<1>2. CASE Release(t)
  BY <1>2, ReleaseSale
<1>3. CASE ReleaseRefused(t)
  BY <1>3, ThrowSale DEF ReleaseRefused, redisVars, dbVars
<1>4. CASE Complete(t)
  <2>1. UNCHANGED <<owner, order>> /\ pc[t] # "start" /\ Finish(t, "ok")
    BY <1>4 DEF Complete, At, dbVars
  <2> QED BY <2>1, FinishBegun, SaleStutter DEF IInv
<1> QED BY <1>1, <1>2, <1>3, <1>4 DEF Compensation

\* Every step of the pipeline is a step of the sale, or none.
LEMMA StepSale ==
    ASSUME IInv, [Next]_vars
    PROVE  [Sale!Next]_phaseOf
<1>1. ASSUME NEW r \in Reservations, ReserveRefused(r) PROVE Sale!Next
  BY <1>1, RefuseSale DEF ReserveRefused, At, Goto, redisVars, dbVars
<1>2. ASSUME NEW t \in Threads, Work(t) PROVE [Sale!Next]_phaseOf
  BY <1>2, RequestSale, ListenerSale, TaskSale, CompensationSale DEF Work
<1>3. ASSUME NEW t \in Threads, Fails(t) PROVE [Sale!Next]_phaseOf
  BY <1>3, ThrowSale DEF Fails, redisVars, dbVars
<1>4. CASE UNCHANGED vars
  BY <1>4, SaleStutter DEF vars, redisVars, dbVars, threadVars, SameBegun
<1>5. ASSUME NEW w \in Workers, ConnectionLost(w) PROVE UNCHANGED phaseOf
  BY <1>5, SaleStutter DEF ConnectionLost, redisVars, dbVars, SameBegun
<1>6. ASSUME NEW r \in Reservations, DeadLetterLost(r) PROVE UNCHANGED phaseOf
  BY <1>6, SaleStutter DEF DeadLetterLost, redisVars, dbVars, threadVars, SameBegun
<1>7. ASSUME Crash PROVE UNCHANGED phaseOf
  <2>1. SameBegun
    BY <1>7 DEF Crash, SameBegun, At, Answered, Threads
  <2> QED BY <1>7, <2>1, SaleStutter DEF Crash, redisVars, dbVars
<1> QED BY <1>1, <1>2, <1>3, <1>4, <1>5, <1>6, <1>7, ReserveSale, StatusSale DEF Next

\* The pipeline of Redis scripts, messages and transactions implements the abstract
\* sale: slots are given while stock is left and one per user, and only a slot that
\* was given becomes an order.
THEOREM Refinement == Spec => ImplementsSale
<1>1. Init => Sale!Init
  <2>1. SUFFICES ASSUME Init PROVE Sale!Init
    OBVIOUS
  <2>2. \A r \in Reservations : Phase(r) = "new"
    BY <2>1, BuyersAssumption DEF Init, Phase, Threads
  <2> QED BY <2>2 DEF Sale!Init
<1>2. IInv /\ [Next]_vars => [Sale!Next]_phaseOf
  BY StepSale
<1> QED BY <1>1, <1>2, Invariance, PTL DEF Spec, ImplementsSale, Sale!Spec, phaseOf

--------------------------------------------------------------------------------
(* The life of each order, whether or not Redis forgets buyers.            *)

\* A release job is never taken back, and who works on one has found it.
ReleasesTyped == releaseJob \in [Reservations -> {"none", "todo", "done"}]
ReleaseFound  == \A t \in Threads : pc[t] \in Closing => releaseJob[job[t]] # "none"
ReturnsKept   == \A r \in Reservations : releaseJob[r] # "none" => releaseJob'[r] # "none"

\* The inductive invariant.
LivesInv == StaleInv /\ ReleasesTyped /\ ReleaseFound

LivesKept == UNCHANGED <<order, releaseJob>>

\* The status of an order in the eyes of its life.
LivingState(r) == IF order[r] \in {"PAID", "CLOSED"} THEN order[r] ELSE "PENDING"
Overdone(r)    == order[r] \in {"EXPIRED", "CLOSED"}
Returned(r)    == releaseJob[r] # "none"

\* A step in the life of an order, or none.
Lives(r) ==
    \/ Life(r)!Deadline \/ Life(r)!Pay \/ Life(r)!Close
    \/ UNCHANGED <<LivingState(r), Overdone(r), Returned(r)>>

\* What a step does to the orders and their release jobs.
LEMMA StepKinds ==
    ASSUME StaleCacheNext
    PROVE  \/ LivesKept
           \/ \E w \in Workers : Insert(w)
           \/ \E s \in Schedulers, r \in Reservations : CloseOrder(s, r)
           \/ \E s \in Schedulers : CloseDone(s)
           \/ \E r \in Reservations : Expire(r) \/ Pay(r)
<1>1. ASSUME NEW w \in Workers, Listener(w) PROVE Insert(w) \/ LivesKept
  BY <1>1 DEF Listener, Deliver, CreateLock, CheckOwner, CheckOwnerRefused, CheckBinding,
              InsertRefused, Ack, dbVars, LivesKept
<1>2. ASSUME NEW s \in Schedulers, Task(s)
      PROVE  (\E r \in Reservations : CloseOrder(s, r)) \/ CloseDone(s) \/ LivesKept
  BY <1>2 DEF Task, RecoverRead, PickRelease, CloseRelease, CloseReleased, CloseRefused,
              dbVars, LivesKept
<1>3. ASSUME NEW r \in Reservations, Request(r) PROVE LivesKept
  BY <1>3 DEF Request, Number, Bind, BindStale, Publish, Confirmed, ConfirmTimeout, dbVars, LivesKept
<1>4. ASSUME NEW t \in Threads, Compensation(t) PROVE LivesKept
  BY <1>4 DEF Compensation, CancelTx, Release, ReleaseRefused, Complete, dbVars, LivesKept
<1>5. CASE \E t \in Threads : Work(t)
  BY <1>1, <1>2, <1>3, <1>4, <1>5 DEF Work
<1>6. CASE ~ \E t \in Threads : Work(t)
  BY <1>6 DEF StaleCacheNext, Next, Reserve, ReserveRefused, DeadLetterLost, Fails,
              ConnectionLost, Crash, LoseQualification, dbVars, LivesKept
<1> QED BY <1>5, <1>6

LEMMA InsertLives ==
    ASSUME LivesInv, NEW w \in Workers, Insert(w), NEW r \in Reservations
    PROVE  Lives(r) /\ ReleasesTyped' /\ ReturnsKept
<1>1. job[w] \in Reservations /\ order[job[w]] = "none"
  BY DEF Insert, Insertable, At, Threads, LivesInv, StaleInv, Busy
<1>2. order' = [order EXCEPT ![job[w]] = "PENDING"] /\ releaseJob' = releaseJob
  BY DEF Insert
<1> QED BY <1>1, <1>2
        DEF Lives, LivingState, Overdone, Returned, LivesInv, StaleInv, OrdersTyped,
            ReleasesTyped, ReturnsKept

LEMMA CloseOrderLives ==
    ASSUME LivesInv, NEW s \in Schedulers, NEW r \in Reservations, CloseOrder(s, r),
           NEW q \in Reservations
    PROVE  Lives(q) /\ ReleasesTyped' /\ ReturnsKept
<1>1. /\ order[r] = "EXPIRED" /\ order' = [order EXCEPT ![r] = "CLOSED"]
      /\ releaseJob' = [releaseJob EXCEPT ![r] = "todo"]
      /\ DOMAIN order = Reservations /\ ReleasesTyped
  BY DEF CloseOrder, Closable, LivesInv, StaleInv, OrdersTyped
<1>2. ReleasesTyped' /\ ReturnsKept
  BY <1>1 DEF ReleasesTyped, ReturnsKept
<1>3. CASE q = r
  <2>1. Life(q)!Close
    BY <1>1, <1>3 DEF Life!Close, ReleasesTyped
  <2> QED BY <1>2, <2>1 DEF Lives
<1>4. CASE q # r
  BY <1>1, <1>2, <1>4 DEF Lives, LivingState, Overdone, Returned, ReleasesTyped
<1> QED BY <1>3, <1>4

\* The clock and the payment.
LEMMA StatusLives ==
    ASSUME LivesInv, NEW r \in Reservations, Expire(r) \/ Pay(r), NEW q \in Reservations
    PROVE  Lives(q) /\ ReleasesTyped' /\ ReturnsKept
<1>1. /\ releaseJob' = releaseJob /\ ReleasesTyped
      /\ order[r] = "PENDING" /\ DOMAIN order = Reservations
  BY DEF Expire, Pay, LivesInv, StaleInv, OrdersTyped
<1>2. ReleasesTyped' /\ ReturnsKept
  BY <1>1 DEF ReleasesTyped, ReturnsKept
<1>3. CASE q # r
  BY <1>1, <1>2, <1>3 DEF Expire, Pay, Lives, LivingState, Overdone, Returned
<1>4. CASE q = r /\ Expire(r)
  <2>1. Life(q)!Deadline
    BY <1>1, <1>4 DEF Expire, Life!Deadline
  <2> QED BY <1>2, <2>1 DEF Lives
<1>5. CASE q = r /\ Pay(r)
  <2>1. Life(q)!Pay
    BY <1>1, <1>5 DEF Pay, Life!Pay
  <2> QED BY <1>2, <2>1 DEF Lives
<1> QED BY <1>3, <1>4, <1>5

\* The unit of stock had returned when its release job is ticked off.
LEMMA CloseDoneLives ==
    ASSUME LivesInv, NEW s \in Schedulers, CloseDone(s), NEW q \in Reservations
    PROVE  Lives(q) /\ ReleasesTyped' /\ ReturnsKept
<1>1. s \in Threads /\ pc[s] = "closeDone" /\ job[s] \in Reservations
  BY DEF CloseDone, At, Threads, LivesInv, StaleInv, Busy
<1>2. releaseJob[job[s]] # "none"
  BY <1>1 DEF LivesInv, ReleaseFound, Closing
<1>3. order' = order /\ releaseJob' = [releaseJob EXCEPT ![job[s]] = "done"]
  BY DEF CloseDone
<1> QED BY <1>1, <1>2, <1>3
        DEF Lives, LivingState, Overdone, Returned, LivesInv, ReleasesTyped, ReturnsKept

LEMMA StepLives ==
    ASSUME LivesInv, [StaleCacheNext]_vars, NEW q \in Reservations
    PROVE  Lives(q) /\ ReleasesTyped' /\ ReturnsKept
<1>1. CASE LivesKept
  BY <1>1 DEF LivesKept, Lives, LivingState, Overdone, Returned, LivesInv, ReleasesTyped, ReturnsKept
<1>2. CASE UNCHANGED vars
  BY <1>1, <1>2 DEF vars, dbVars, LivesKept
<1>3. CASE StaleCacheNext
  BY <1>1, <1>3, StepKinds, InsertLives, CloseOrderLives, CloseDoneLives, StatusLives
<1> QED BY <1>2, <1>3

LEMMA ContinuesFound ==
    ASSUME LivesInv, ReturnsKept, NEW t \in Threads, pc[t] # "idle", Continues(t)
    PROVE  ReleaseFound'
<1>1. /\ DOMAIN pc = Threads /\ DOMAIN job = Threads
      /\ \A u \in Threads : pc[u] \in Closing => job[u] \in Reservations /\ releaseJob[job[u]] # "none"
  BY DEF LivesInv, StaleInv, Busy, ReleaseFound, Closing
<1>2. ASSUME NEW label, pc' = [pc EXCEPT ![t] = label], job' = job, label \in Closing => pc[t] = "closeRelease"
      PROVE  ReleaseFound'
  <2>1. \A u \in Threads : pc'[u] \in Closing => pc[u] \in Closing
    BY <1>1, <1>2 DEF Closing
  <2> QED BY <1>1, <1>2, <2>1 DEF ReleaseFound, ReturnsKept
<1>3. CASE GoIdle(t)
  <2>1. \A u \in Threads : pc'[u] \in Closing => pc[u] \in Closing /\ job'[u] = job[u]
    BY <1>1, <1>3 DEF GoIdle, Closing
  <2> QED BY <1>1, <2>1 DEF ReleaseFound, ReturnsKept
<1> QED BY <1>2, <1>3 DEF Continues

\* An idle thread takes up a release job only where there is one.
LEMMA TakenUpFound ==
    ASSUME LivesInv, ReturnsKept, NEW t \in Threads, NEW r \in Reservations, NEW label,
           label \in Closing => releaseJob[r] # "none",
           pc' = [pc EXCEPT ![t] = label], job' = [job EXCEPT ![t] = r]
    PROVE  ReleaseFound'
<1>1. /\ DOMAIN pc = Threads /\ DOMAIN job = Threads
      /\ \A u \in Threads : pc[u] \in Closing => job[u] \in Reservations /\ releaseJob[job[u]] # "none"
  BY DEF LivesInv, StaleInv, Busy, ReleaseFound, Closing
<1> QED BY <1>1 DEF ReleaseFound, ReturnsKept

\* The threads stay where they are.
LEMMA StayFound ==
    ASSUME LivesInv, ReturnsKept, pc' = pc, job' = job
    PROVE  ReleaseFound'
BY DEF LivesInv, StaleInv, Busy, ReleaseFound, ReturnsKept, Closing

LEMMA WorkFound ==
    ASSUME LivesInv, ReturnsKept, NEW t \in Threads, Work(t)
    PROVE  ReleaseFound'
<1>1. CASE t \in Reservations /\ Request(t)
  BY <1>1, RequestContinues, ContinuesFound
<1>2. CASE t \in Workers /\ Listener(t)
  <2>1. ASSUME NEW r \in Reservations, Deliver(t, r) PROVE ReleaseFound'
    <3>1. EntryPC(t) \notin Closing
      BY DEF EntryPC, Closing
    <3> QED BY <2>1, <3>1, TakenUpFound DEF Deliver
  <2> QED BY <1>2, <2>1, ListenerContinues, ContinuesFound
<1>3. CASE t \in Schedulers /\ Task(t)
  <2>1. ASSUME NEW r \in Reservations, RecoverRead(t, r) PROVE ReleaseFound'
    <3>1. PICK label : label \notin Closing /\ Take(t, r, label)
      BY <2>1 DEF RecoverRead, Closing
    <3> QED BY <3>1, TakenUpFound DEF Take
  <2>2. ASSUME NEW r \in Reservations, PickRelease(t, r) PROVE ReleaseFound'
    BY <2>2, TakenUpFound DEF PickRelease, Take
  <2>3. ASSUME NEW r \in Reservations, CloseOrder(t, r) PROVE ReleaseFound'
    BY <2>3, StayFound DEF CloseOrder, threadVars
  <2>4. CASE CloseRelease(t) \/ CloseReleased(t) \/ CloseRefused(t) \/ CloseDone(t)
    BY <2>4, TaskContinues, ContinuesFound
  <2> QED BY <1>3, <2>1, <2>2, <2>3, <2>4 DEF Task
<1>4. CASE Compensation(t)
  BY <1>4, CompensationContinues, ContinuesFound
<1> QED BY <1>1, <1>2, <1>3, <1>4 DEF Work

LEMMA StepFound ==
    ASSUME LivesInv, ReturnsKept, StaleCacheNext
    PROVE  ReleaseFound'
<1>1. ASSUME NEW r \in Reservations, Reserve(r) \/ ReserveRefused(r) PROVE ReleaseFound'
  BY <1>1, RequestContinues, ContinuesFound DEF Threads
<1>2. ASSUME NEW r \in Reservations, Expire(r) \/ Pay(r) \/ DeadLetterLost(r) PROVE ReleaseFound'
  BY <1>2, StayFound DEF Expire, Pay, DeadLetterLost, threadVars
<1>3. ASSUME NEW t \in Threads, Fails(t) PROVE ReleaseFound'
  BY <1>3, ThrowContinues, ContinuesFound DEF Fails, At
<1>4. ASSUME NEW w \in Workers, ConnectionLost(w) PROVE ReleaseFound'
  BY <1>4, StayFound DEF ConnectionLost
<1>5. ASSUME NEW u \in Users, LoseQualification(u) PROVE ReleaseFound'
  BY <1>5, StayFound DEF LoseQualification, threadVars
<1>6. CASE Crash
  <2>1. \A t \in Threads : pc'[t] \notin Closing
    BY <1>6 DEF Crash, At, Answered, Closing
  <2> QED BY <2>1 DEF ReleaseFound
<1> QED BY <1>1, <1>2, <1>3, <1>4, <1>5, <1>6, WorkFound DEF StaleCacheNext, Next

\* The life of an order is kept by MySQL alone: by the pipeline, with its crashes, lost messages
\* and repeated tasks, and even with a Redis that forgets buyers.  An order is paid before its
\* deadline or closed after it, one of the two and once, and the stock is marked to return in the
\* transaction that closes (OrderLifecycleService.close).
THEOREM OrderLives ==
    ASSUME NEW r \in Reservations
    PROVE  StaleCacheSpec => Life(r)!Spec
<1>1. Init => ReleasesTyped /\ ReleaseFound /\ Life(r)!Init
  BY DEF Init, ReleasesTyped, ReleaseFound, Closing, Life!Init
<1>2. LivesInv /\ [StaleCacheNext]_vars
        => /\ ReleasesTyped' /\ ReleaseFound'
           /\ [Life(r)!Deadline \/ Life(r)!Pay \/ Life(r)!Close]_(Life(r)!lifeVars)
  <2>1. SUFFICES ASSUME LivesInv, [StaleCacheNext]_vars
                 PROVE  /\ ReleasesTyped' /\ ReleaseFound'
                        /\ [Life(r)!Deadline \/ Life(r)!Pay \/ Life(r)!Close]_(Life(r)!lifeVars)
    OBVIOUS
  <2>2. Lives(r) /\ ReleasesTyped' /\ ReturnsKept
    BY <2>1, StepLives
  <2>3. ReleaseFound'
    <3>1. CASE UNCHANGED vars
      BY <2>1, <2>2, <3>1, StayFound DEF vars, threadVars
    <3> QED BY <2>1, <2>2, <3>1, StepFound
  <2> QED BY <2>2, <2>3 DEF Lives, LivingState, Overdone, Returned, Life!lifeVars
<1> QED BY <1>1, <1>2, StaleInvariance, PTL DEF StaleCacheSpec, LivesInv, Life!Spec

\* In particular when Redis forgets nobody.
COROLLARY PipelineLives ==
    ASSUME NEW r \in Reservations
    PROVE  Spec => Life(r)!Spec
<1>1. [Next]_vars => [StaleCacheNext]_vars
  BY DEF StaleCacheNext
<1> QED BY <1>1, OrderLives, PTL DEF Spec, StaleCacheSpec

--------------------------------------------------------------------------------
(* What the sale promises, kept by the pipeline.                           *)

SaleTyped == phaseOf \in [Reservations -> Sale!Phases]

\* A step of the sale is the change of one attempt's phase.
LEMMA SaleStep ==
    ASSUME SaleTyped, Sale!Next
    PROVE  \E r \in Reservations, to \in Sale!Phases :
             /\ phaseOf' = [phaseOf EXCEPT ![r] = to]
             /\ phaseOf[r] \notin {"paid", "gone"}
             /\ \/ Sale!Hold(r)
                \/ to \in {"held", "ordered", "paid", "closed"} => r \in Sale!Live
<1>1. PICK r \in Reservations :
         Sale!Hold(r) \/ Sale!Refuse(r) \/ Sale!Order(r) \/ Sale!Pay(r) \/ Sale!Close(r) \/ Sale!GiveBack(r)
  BY DEF Sale!Next
<1>2. PICK from, to :
         /\ Sale!Become(r, from, to)
         /\ <<from, to>> \in {<<{"new"}, "held">>, <<{"new"}, "gone">>, <<{"held"}, "ordered">>,
                              <<{"ordered"}, "paid">>, <<{"ordered"}, "closed">>,
                              <<{"held", "closed"}, "gone">>}
         /\ Sale!Hold(r) \/ from # {"new"} \/ to = "gone"
  BY <1>1 DEF Sale!Hold, Sale!Refuse, Sale!Order, Sale!Pay, Sale!Close, Sale!GiveBack
<1>3. phaseOf[r] \in from /\ phaseOf' = [phaseOf EXCEPT ![r] = to] /\ to \in Sale!Phases
  BY <1>2 DEF Sale!Become, Sale!Phases, phaseOf
<1>4. phaseOf[r] \notin {"paid", "gone"}
  BY <1>2, <1>3
<1>5. Sale!Hold(r) \/ (to \in {"held", "ordered", "paid", "closed"} => r \in Sale!Live)
  BY <1>2, <1>3 DEF Sale!Live, phaseOf
<1> QED BY <1>3, <1>4, <1>5

LEMMA OneMore ==
    ASSUME NEW S, IsFiniteSet(S), NEW x
    PROVE  /\ IsFiniteSet(S \cup {x}) /\ Cardinality(S \cup {x}) \in Nat
           /\ Cardinality(S \cup {x}) <= Cardinality(S) + 1
<1>1. Cardinality(S) \in Nat
  BY FS_CardinalityType
<1>2. /\ IsFiniteSet(S \cup {x})
      /\ Cardinality(S \cup {x}) = IF x \in S THEN Cardinality(S) ELSE Cardinality(S) + 1
  BY FS_AddElement
<1> QED BY <1>1, <1>2

LEMMA SaleKeeps ==
    ASSUME SaleTyped, Sale!NeverOversold, Sale!Next
    PROVE  SaleTyped' /\ Sale!NeverOversold'
<1>1. PICK r \in Reservations, to \in Sale!Phases :
         /\ phaseOf' = [phaseOf EXCEPT ![r] = to]
         /\ Sale!Hold(r) \/ (to \in {"held", "ordered", "paid", "closed"} => r \in Sale!Live)
  BY SaleStep
<1>2. SaleTyped'
  BY <1>1 DEF SaleTyped
<1>3. Sale!Live' \subseteq Sale!Live \cup {r} /\ Sale!Live \in SUBSET Reservations
  BY <1>1 DEF Sale!Live, SaleTyped, phaseOf
<1>4. IsFiniteSet(Sale!Live) /\ Cardinality(Sale!Live) \in Nat /\ Cardinality(Sale!Live) <= Stock0
  BY <1>3, BuyersAssumption, FS_Subset, FS_CardinalityType, SameCardinality DEF Sale!NeverOversold
<1>5. CASE Sale!Live' \subseteq Sale!Live
  <2>1. Cardinality(Sale!Live') <= Cardinality(Sale!Live) /\ Cardinality(Sale!Live') \in Nat
    BY <1>4, <1>5, FS_Subset, FS_CardinalityType
  <2>2. Cardinality(Sale!Live') <= Stock0
    BY <1>4, <2>1, StockAssumption
  <2> QED BY <1>2, <1>5, <2>2, SameCardinality DEF Sale!NeverOversold
<1>6. CASE Sale!Hold(r)
  <2>1. /\ Cardinality(Sale!Live) < Stock0
        /\ \A r2 \in Sale!Live : UserOf[r2] # UserOf[r]
    BY <1>6, SameCardinality DEF Sale!Hold
  <2>2. /\ IsFiniteSet(Sale!Live \cup {r})
        /\ Cardinality(Sale!Live \cup {r}) <= Cardinality(Sale!Live) + 1
        /\ Cardinality(Sale!Live \cup {r}) \in Nat
    BY <1>4, OneMore
  <2>3. Cardinality(Sale!Live') <= Cardinality(Sale!Live \cup {r}) /\ Cardinality(Sale!Live') \in Nat
    BY <1>3, <2>2, FS_Subset, FS_CardinalityType
  <2>4. Cardinality(Sale!Live') <= Stock0
    BY <1>4, <2>1, <2>2, <2>3, StockAssumption
  <2>5. \A r1, r2 \in Sale!Live' : UserOf[r1] = UserOf[r2] => r1 = r2
    BY <1>3, <2>1 DEF Sale!NeverOversold
  <2> QED BY <1>2, <2>4, <2>5, SameCardinality DEF Sale!NeverOversold
<1>7. Sale!Live' \subseteq Sale!Live \/ Sale!Hold(r)
  BY <1>1, <1>3 DEF Sale!Live, phaseOf, SaleTyped
<1> QED BY <1>5, <1>6, <1>7

LEMMA SaleBegins == ASSUME Sale!Init PROVE SaleTyped /\ Sale!NeverOversold
<1>1. Sale!Live = {} /\ SaleTyped
  BY DEF Sale!Init, Sale!Live, Sale!Phases, SaleTyped, phaseOf
<1> QED BY <1>1, FS_EmptySet, SameCardinality, StockAssumption DEF Sale!NeverOversold

\* The pipeline keeps the promises of the sale, through crashes, lost replies, messages that come
\* twice and tasks that overlap: never more slots than stock, never two of one buyer; a payment is
\* never undone, and an attempt that has given its slot back does not get it again.
THEOREM PromisesKept == Spec => []Sale!NeverOversold /\ Sale!FinalStands
<1>1. Sale!Init => SaleTyped /\ Sale!NeverOversold
  BY SaleBegins
<1>2. SaleTyped /\ Sale!NeverOversold /\ [Sale!Next]_phaseOf => SaleTyped' /\ Sale!NeverOversold'
  <2>1. SUFFICES ASSUME SaleTyped, Sale!NeverOversold, [Sale!Next]_phaseOf
                 PROVE  SaleTyped' /\ Sale!NeverOversold'
    OBVIOUS
  <2>2. CASE UNCHANGED phaseOf
    <3>1. Sale!Live' = Sale!Live
      BY <2>2 DEF Sale!Live, phaseOf
    <3> QED BY <2>1, <2>2, <3>1, SameCardinality DEF SaleTyped, Sale!NeverOversold
  <2> QED BY <2>1, <2>2, SaleKeeps
<1>3. SaleTyped /\ [Sale!Next]_phaseOf
        => [\A r \in Reservations : phaseOf[r] \in {"paid", "gone"} => phaseOf'[r] = phaseOf[r]]_phaseOf
  <2>1. SUFFICES ASSUME SaleTyped, Sale!Next, NEW r \in Reservations, phaseOf[r] \in {"paid", "gone"}
                 PROVE  phaseOf'[r] = phaseOf[r]
    OBVIOUS
  <2>2. PICK q \in Reservations, to \in Sale!Phases :
           phaseOf' = [phaseOf EXCEPT ![q] = to] /\ phaseOf[q] \notin {"paid", "gone"}
    BY <2>1, SaleStep
  <2> QED BY <2>1, <2>2 DEF SaleTyped
<1> QED BY <1>1, <1>2, <1>3, Refinement, PTL
        DEF ImplementsSale, Sale!Spec, Sale!FinalStands, phaseOf
================================================================================
