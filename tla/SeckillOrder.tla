------------------------------ MODULE SeckillOrder ------------------------------
(***************************************************************************)
(* The purchase pipeline of one flash-sale voucher: the HTTP request that  *)
(* reserves stock in Redis and publishes an order message, the RabbitMQ    *)
(* consumers that turn it into an order row in MySQL, the dead-letter      *)
(* consumers and the recovery task that cancel it, the close task that     *)
(* closes an unpaid order and gives its stock back, and payment.           *)
(*                                                                         *)
(* One reservation token stands for one purchase request, its order id and *)
(* its message.  Every script, database transaction, publish or ack is one *)
(* atomic step of the thread that calls it, and each of them may fail      *)
(* before it takes effect, or take effect and lose its reply; the thread   *)
(* then does what its catch block does (Throw).  isBound's two reads are   *)
(* two steps inside the consumer's transaction.                            *)
(***************************************************************************)
EXTENDS Integers, FiniteSets

CONSTANTS
    Users,          \* buyers
    Reservations,   \* reservation tokens: one per purchase request
    UserOf,         \* the buyer behind each request
    Stock0,         \* stock of the voucher when it is put on sale
    Consumers,      \* threads of the listener on the main queue
    DeadLetters,    \* threads of the listener on the dead-letter queue
    Schedulers,     \* threads that run the two @Scheduled tasks
    MaxAttempts,    \* attempts of the listeners' retry interceptor (3 in the code)
    MaxFaults,      \* bound on failed calls, lost replies, disconnections, crashes
    None            \* "no reservation"

ASSUME StockAssumption == Stock0 \in Nat
ASSUME BuyersAssumption ==
    /\ IsFiniteSet(Reservations)
    /\ UserOf \in [Reservations -> Users]
    /\ None \notin Reservations
ASSUME ThreadsAssumption ==
    /\ Consumers \cap DeadLetters = {}
    /\ Reservations \cap (Consumers \cup DeadLetters \cup Schedulers) = {}
    /\ Schedulers \cap (Consumers \cup DeadLetters) = {}
ASSUME BoundsAssumption == MaxAttempts \in Nat \ {0} /\ MaxFaults \in Nat

VARIABLES
    \* Redis
    stock,          \* seckill:stock:{voucher}
    qualified,      \* seckill:order:{voucher}, the set of users who bought
    owner,          \* seckill:owner:{voucher}, user -> token
    record,         \* seckill:reservation:{token} and its entry in the pending zset
    closedMark,     \* seckill:closed:{orderId}
    \* MySQL
    dbStock,        \* tb_seckill_voucher.stock
    delivery,       \* tb_order_delivery.state, committed; "none" is no row, or OPEN
    order,          \* tb_voucher_order.status; "EXPIRED" is PENDING past expire_time
    releaseJob,     \* tb_order_stock_release.completed
    \* RabbitMQ
    queue,          \* the queue each message is in, until it is acknowledged
    \* the threads of the application
    pc,             \* what each thread does next
    job,            \* the reservation it works on
    tries,          \* failed attempts of a listener at its message
    live,           \* the listener's delivery can still be acknowledged
    faults          \* faults so far

redisVars  == <<stock, qualified, owner, record, closedMark>>
dbVars     == <<dbStock, delivery, order, releaseJob>>
threadVars == <<pc, job, tries, live>>
vars       == <<redisVars, dbVars, queue, threadVars, faults>>

Workers == Consumers \cup DeadLetters
Threads == Reservations \cup Workers \cup Schedulers

Answered   == {"ok", "fail", "error"}
CancelSteps == {"cancel", "release", "releaseKeep", "complete"}
RequestPC  == {"start", "number", "bind", "publish", "confirm", "releaseUnbound"}
                \cup CancelSteps \cup Answered
CreateTx   == {"checkOwner", "checkBinding", "insert"}
ConsumerPC == {"idle", "create", "ack"} \cup CreateTx \cup CancelSteps
DeadLetterPC == {"idle", "ack"} \cup CancelSteps
SchedulerPC == {"idle", "releaseUnbound", "closeRelease", "closeDone"} \cup CancelSteps

Active == {r \in Reservations : order[r] \in {"PENDING", "EXPIRED", "PAID"}}
Held   == {r \in Reservations : owner[UserOf[r]] = r}

Init ==
    /\ stock = Stock0
    /\ qualified = {}
    /\ owner = [u \in Users |-> None]
    /\ record = [r \in Reservations |-> "none"]
    /\ closedMark = {}
    /\ dbStock = Stock0
    /\ delivery = [r \in Reservations |-> "none"]
    /\ order = [r \in Reservations |-> "none"]
    /\ releaseJob = [r \in Reservations |-> "none"]
    /\ queue = [r \in Reservations |-> "none"]
    /\ pc = [t \in Threads |-> IF t \in Reservations THEN "start" ELSE "idle"]
    /\ job = [t \in Threads |-> IF t \in Reservations THEN t ELSE None]
    /\ tries = [w \in Workers |-> 0]
    /\ live = [w \in Workers |-> FALSE]
    /\ faults = 0

--------------------------------------------------------------------------------
(* Threads: how a step ends.                                               *)

At(t, labels) == pc[t] \in labels

Goto(t, label) ==
    /\ pc' = [pc EXCEPT ![t] = label]
    /\ UNCHANGED <<job, tries, live, queue>>

\* A listener or a scheduled task is done with its reservation.
GoIdle(t) ==
    /\ pc' = [pc EXCEPT ![t] = "idle"]
    /\ job' = [job EXCEPT ![t] = None]

\* The catch blocks of seckillVoucher: reserve is outside the try; a failure
\* before the order id exists releases the unbound record, a later one cancels,
\* and a failing compensation leaves the record to the recovery task.
RequestCatch(r) ==
    /\ r \in Reservations
    /\ \/ At(r, {"start"}) /\ Goto(r, "error")
       \/ At(r, {"number"}) /\ Goto(r, "releaseUnbound")
       \/ At(r, {"bind", "publish", "confirm"}) /\ Goto(r, "cancel")
       \/ At(r, CancelSteps \cup {"releaseUnbound"}) /\ Goto(r, "fail")

\* Slip: both listeners run the same handler.
CreateAlways(w) == "create"

\* Where a listener's handler begins.
EntryPC(w) == IF w \in Consumers THEN "create" ELSE "cancel"

\* The retry interceptor calls the listener again ...
WorkerRetry(w) ==
    /\ w \in Workers
    /\ tries[w] + 1 < MaxAttempts
    /\ pc' = [pc EXCEPT ![w] = EntryPC(w)]
    /\ tries' = [tries EXCEPT ![w] = @ + 1]
    /\ UNCHANGED <<job, live, queue>>

\* ... until its attempts are used up: the message is rejected without requeue
\* and the broker forwards it, to the dead-letter queue or to the parking queue.
WorkerReject(w) ==
    /\ w \in Workers
    /\ tries[w] + 1 >= MaxAttempts
    /\ GoIdle(w)
    /\ queue' = IF live[w]
                  THEN [queue EXCEPT ![job[w]] = IF w \in Consumers THEN "dlq" ELSE "parking"]
                  ELSE queue
    /\ tries' = [tries EXCEPT ![w] = 0]
    /\ live' = [live EXCEPT ![w] = FALSE]

\* A scheduled task logs the failure, defers the item and goes on.
SchedulerCatch(s) ==
    /\ s \in Schedulers
    /\ GoIdle(s)
    /\ UNCHANGED <<tries, live, queue>>

Throw(t) == RequestCatch(t) \/ WorkerRetry(t) \/ WorkerReject(t) \/ SchedulerCatch(t)

Fault == faults < MaxFaults /\ faults' = faults + 1

\* The call took effect: its reply arrives, or is lost and the caller sees an exception.
Answer(t, label) ==
    \/ Goto(t, label) /\ UNCHANGED faults
    \/ Fault /\ Throw(t)

\* The end of a compensation, after its last call.
Finish(t, reply) ==
    \/ /\ t \in Reservations
       /\ Answer(t, reply)
    \/ /\ t \in Workers
       /\ Answer(t, "ack")
    \/ /\ t \in Schedulers
       /\ UNCHANGED faults
       /\ SchedulerCatch(t)

\* A call fails before it takes effect: Redis, MySQL or the broker cannot be
\* reached, or the broker does not route or does not accept the message.
Fails(t) ==
    /\ ~ At(t, Answered \cup {"idle", "ack", "confirm"})
    /\ Fault
    /\ Throw(t)
    /\ UNCHANGED <<redisVars, dbVars>>

--------------------------------------------------------------------------------
(* The HTTP request (VoucherOrderServiceImpl.seckillVoucher).              *)

\* Slip: the script checks the stock but not whether the user already bought.
OnlyInStock(r) == stock > 0

Reservable(r) == stock > 0 /\ UserOf[r] \notin qualified

\* Slip: the slot is taken without leaving a recovery record.
NoRecord(r) == UNCHANGED record

NewRecord(r) == record' = [record EXCEPT ![r] = "unbound"]

\* seckill.lua, inside the sale window.
Reserve(r) ==
    /\ At(r, {"start"})
    /\ Reservable(r)
    /\ stock' = stock - 1
    /\ qualified' = qualified \cup {UserOf[r]}
    /\ owner' = [owner EXCEPT ![UserOf[r]] = r]
    /\ NewRecord(r)
    /\ Answer(r, "number")
    /\ UNCHANGED <<closedMark, dbVars>>

\* Sold out, bought already, or outside the sale window.
ReserveRefused(r) ==
    /\ At(r, {"start"})
    /\ Goto(r, "fail")
    /\ UNCHANGED <<redisVars, dbVars, faults>>

\* RedisIdWorker.nextId
Number(r) ==
    /\ At(r, {"number"})
    /\ Goto(r, "bind")
    /\ UNCHANGED <<redisVars, dbVars, faults>>

\* Slip: binding does not notice that the record was released meanwhile.
AnyRecord(r) == TRUE

Bindable(r) == owner[UserOf[r]] = r /\ record[r] # "none"

\* reservation_bind.lua; a refused bind ends the request without compensation.
Bind(r) ==
    /\ At(r, {"bind"})
    /\ Bindable(r)
    /\ record' = [record EXCEPT ![r] = "bound"]
    /\ Answer(r, "publish")
    /\ UNCHANGED <<stock, qualified, owner, closedMark, dbVars>>

BindStale(r) ==
    /\ At(r, {"bind"})
    /\ ~ Bindable(r)
    /\ Goto(r, "fail")
    /\ UNCHANGED <<redisVars, dbVars, faults>>

\* convertAndSend; whether the broker's confirm arrives is decided at "confirm".
Publish(r) ==
    /\ At(r, {"publish"})
    /\ queue' = [queue EXCEPT ![r] = "main"]
    /\ pc' = [pc EXCEPT ![r] = "confirm"]
    /\ UNCHANGED <<redisVars, dbVars, job, tries, live, faults>>

Confirmed(r) ==
    /\ At(r, {"confirm"})
    /\ Goto(r, "ok")
    /\ UNCHANGED <<redisVars, dbVars, faults>>

\* The confirm is late or lost: the message may or may not have been consumed.
ConfirmTimeout(r) ==
    /\ At(r, {"confirm"})
    /\ Throw(r)
    /\ UNCHANGED <<redisVars, dbVars, faults>>

--------------------------------------------------------------------------------
(* Compensation (OrderCompensationService.cancel), by any thread.          *)

\* Slip: the delivery row is read without FOR UPDATE.
NeverLocked(r) == FALSE

\* A create transaction holds the row lock on tb_order_delivery.
Locked(r) == \E w \in Consumers : job[w] = r /\ pc[w] \in CreateTx

\* Slip: the cancellation does not look whether the order is in the database.
NeverCreated(r) == FALSE

Created(r) == order[r] # "none"

\* Another order of the same user that is not closed.
OtherOrder(r) == \E r2 \in Active \ {r} : UserOf[r2] = UserOf[r]

\* OrderTransactionService.cancel
CancelTx(t) ==
    /\ At(t, {"cancel"})
    /\ ~ Locked(job[t])
    /\ delivery' = [delivery EXCEPT ![job[t]] = IF Created(job[t]) THEN "CREATED" ELSE "CANCELLED"]
    /\ Answer(t, IF Created(job[t]) THEN "complete"
                 ELSE IF OtherOrder(job[t]) THEN "releaseKeep" ELSE "release")
    /\ UNCHANGED <<redisVars, dbStock, order, releaseJob>>

\* Slip: the script does not compare the order id it is given with the record's.
AnyBinding(t) == IF record[job[t]] = "bound" THEN "bound" ELSE "unbound"

\* ARGV[3] of the script: "" from a caller without an order id, else the order id.
Expected(t) == IF At(t, {"releaseUnbound"}) THEN "unbound" ELSE "bound"

\* Somebody else's slot, or none, is behind this record.
Ownerless(r) == record[r] # "none" /\ owner[UserOf[r]] = None

\* reservation_release.lua: the record goes if it is still the one the caller
\* meant, and the slot with it if this reservation still owns it.
Release(t) ==
    /\ At(t, {"release", "releaseKeep", "releaseUnbound"})
    /\ ~ Ownerless(job[t])
    /\ LET r == job[t]
           u == UserOf[r]
           match == record[r] = Expected(t)
           owns == match /\ owner[u] = r
       IN  /\ record' = [record EXCEPT ![r] = IF match THEN "none" ELSE @]
           /\ stock' = IF owns THEN stock + 1 ELSE stock
           /\ owner' = [owner EXCEPT ![u] = IF owns THEN None ELSE @]
           /\ qualified' = IF owns /\ ~ At(t, {"releaseKeep"}) THEN qualified \ {u} ELSE qualified
    /\ Finish(t, "fail")
    /\ UNCHANGED <<closedMark, dbVars>>

\* The script answers -1.
ReleaseRefused(t) ==
    /\ At(t, {"release", "releaseKeep", "releaseUnbound"})
    /\ Ownerless(job[t])
    /\ Throw(t)
    /\ UNCHANGED <<redisVars, dbVars, faults>>

\* reservation_complete.lua
Complete(t) ==
    /\ At(t, {"complete"})
    /\ record' = [record EXCEPT ![job[t]] = IF @ = "bound" THEN "none" ELSE @]
    /\ Finish(t, "ok")
    /\ UNCHANGED <<stock, qualified, owner, closedMark, dbVars>>

--------------------------------------------------------------------------------
(* The listeners (OrderListener) and the create transaction.               *)

\* The queue a listener is bound to.
Source(w) == IF w \in Consumers THEN "main" ELSE "dlq"

\* Nobody whose acknowledgement would still count has the message.
Deliverable(r) == \A w \in Workers : ~ (job[w] = r /\ live[w])

Deliver(w, r) ==
    /\ At(w, {"idle"})
    /\ queue[r] = Source(w)
    /\ Deliverable(r)
    /\ pc' = [pc EXCEPT ![w] = EntryPC(w)]
    /\ job' = [job EXCEPT ![w] = r]
    /\ live' = [live EXCEPT ![w] = TRUE]
    /\ UNCHANGED <<redisVars, dbVars, tries, queue, faults>>

\* Slip: the state of the locked delivery row is not looked at.
IgnoreDelivery(r) == "checkOwner"

\* What create does with the delivery row it has locked.
AfterLock(r) ==
    IF delivery[r] = "CREATED" THEN "complete"
    ELSE IF delivery[r] = "CANCELLED" THEN "cancel"
    ELSE "checkOwner"

\* OrderTransactionService.create up to the row lock; in a terminal state it
\* returns and the listener completes or compensates.
CreateLock(w) ==
    /\ At(w, {"create"})
    /\ ~ Locked(job[w])
    /\ Goto(w, AfterLock(job[w]))
    /\ UNCHANGED <<redisVars, dbVars, faults>>

\* isBound reads the owner ...
CheckOwner(w) ==
    /\ At(w, {"checkOwner"})
    /\ owner[UserOf[job[w]]] = job[w]
    /\ Goto(w, "checkBinding")
    /\ UNCHANGED <<redisVars, dbVars, faults>>

CheckOwnerRefused(w) ==
    /\ At(w, {"checkOwner"})
    /\ owner[UserOf[job[w]]] # job[w]
    /\ Throw(w)
    /\ UNCHANGED <<redisVars, dbVars, faults>>

\* ... and then the reservation's order id.
CheckBinding(w) ==
    /\ At(w, {"checkBinding"})
    /\ IF record[job[w]] = "bound" THEN Goto(w, "insert") ELSE Throw(w)
    /\ UNCHANGED <<redisVars, dbVars, faults>>

\* Slip: the unique key (user_id, voucher_id) of active orders is missing.
OnlyStockLeft(r) == dbStock > 0 /\ order[r] = "none"

\* stock > 0, the primary key, and the unique key (active_user_id, voucher_id).
Insertable(r) == dbStock > 0 /\ order[r] = "none" /\ ~ OtherOrder(r)

\* The rest of the transaction, up to its commit.
Insert(w) ==
    /\ At(w, {"insert"})
    /\ Insertable(job[w])
    /\ dbStock' = dbStock - 1
    /\ order' = [order EXCEPT ![job[w]] = "PENDING"]
    /\ delivery' = [delivery EXCEPT ![job[w]] = "CREATED"]
    /\ Answer(w, "complete")
    /\ UNCHANGED <<redisVars, releaseJob>>

InsertRefused(w) ==
    /\ At(w, {"insert"})
    /\ ~ Insertable(job[w])
    /\ Throw(w)
    /\ UNCHANGED <<redisVars, dbVars, faults>>

\* The listener returned normally.
Ack(w) ==
    /\ At(w, {"ack"})
    /\ GoIdle(w)
    /\ queue' = IF live[w] THEN [queue EXCEPT ![job[w]] = "none"] ELSE queue
    /\ live' = [live EXCEPT ![w] = FALSE]
    /\ tries' = [tries EXCEPT ![w] = 0]
    /\ UNCHANGED <<redisVars, dbVars, faults>>

\* The channel closes under a working listener: the broker may redeliver at once.
ConnectionLost(w) ==
    /\ live[w]
    /\ Fault
    /\ live' = [live EXCEPT ![w] = FALSE]
    /\ UNCHANGED <<redisVars, dbVars, pc, job, tries, queue>>

\* Forwarding to the dead-letter exchange is not confirmed: the message can get lost.
DeadLetterLost(r) ==
    /\ queue[r] \in {"dlq", "parking"}
    /\ Deliverable(r)
    /\ Fault
    /\ queue' = [queue EXCEPT ![r] = "none"]
    /\ UNCHANGED <<redisVars, dbVars, threadVars>>

--------------------------------------------------------------------------------
(* The scheduled tasks.                                                    *)

Take(s, r, label) ==
    /\ At(s, {"idle"})
    /\ pc' = [pc EXCEPT ![s] = label]
    /\ job' = [job EXCEPT ![s] = r]
    /\ UNCHANGED <<tries, live, queue, faults>>

\* Slip: only records without an order id are taken up.
OnlyUnbound(r) == record[r] = "unbound"

Overdue(r) == record[r] # "none"

\* OrderReservationRecoveryTask reads one overdue record, bound or not yet.  A
\* record may be overdue at any moment: a request can be slower than its age.
RecoverRead(s, r) ==
    /\ Overdue(r)
    /\ Take(s, r, IF record[r] = "unbound" THEN "releaseUnbound" ELSE "cancel")
    /\ UNCHANGED <<redisVars, dbVars>>

\* Slip: the update relies on the scan and does not repeat the status condition.
WasExpired(r) == order[r] \in {"EXPIRED", "CLOSED"}

Closable(r) == order[r] = "EXPIRED"

\* OrderLifecycleService.close: one transaction.
CloseOrder(s, r) ==
    /\ At(s, {"idle"})
    /\ Closable(r)
    /\ order' = [order EXCEPT ![r] = "CLOSED"]
    /\ dbStock' = dbStock + 1
    /\ releaseJob' = [releaseJob EXCEPT ![r] = "todo"]
    /\ UNCHANGED <<redisVars, delivery, queue, threadVars, faults>>

\* OrderStockReleaseService.retryPending takes a row of its page.
PickRelease(s, r) ==
    /\ releaseJob[r] = "todo"
    /\ Take(s, r, "closeRelease")
    /\ UNCHANGED <<redisVars, dbVars>>

\* Slip: the stock is returned whether or not the order's marker is there.
NeverMarked(r) == FALSE

Marked(r) == r \in closedMark

OwnsSlot(r) == owner[UserOf[r]] = r /\ UserOf[r] \in qualified

\* order_close_release.lua
CloseRelease(s) ==
    /\ At(s, {"closeRelease"})
    /\ ~ Marked(job[s])
    /\ OwnsSlot(job[s])
    /\ stock' = stock + 1
    /\ qualified' = qualified \ {UserOf[job[s]]}
    /\ owner' = [owner EXCEPT ![UserOf[job[s]]] = None]
    /\ closedMark' = closedMark \cup {job[s]}
    /\ Answer(s, "closeDone")
    /\ UNCHANGED <<record, dbVars>>

CloseReleased(s) ==
    /\ At(s, {"closeRelease"})
    /\ Marked(job[s])
    /\ Goto(s, "closeDone")
    /\ UNCHANGED <<redisVars, dbVars, faults>>

\* The script answers -1.
CloseRefused(s) ==
    /\ At(s, {"closeRelease"})
    /\ ~ Marked(job[s])
    /\ ~ OwnsSlot(job[s])
    /\ Throw(s)
    /\ UNCHANGED <<redisVars, dbVars, faults>>

\* OrderStockReleaseMapper.complete
CloseDone(s) ==
    /\ At(s, {"closeDone"})
    /\ releaseJob' = [releaseJob EXCEPT ![job[s]] = "done"]
    /\ Throw(s)
    /\ UNCHANGED <<redisVars, dbStock, delivery, order, faults>>

--------------------------------------------------------------------------------
(* The life of an order in the database, and crashes.                      *)

\* The database clock passes expire_time.
Expire(r) ==
    /\ order[r] = "PENDING"
    /\ order' = [order EXCEPT ![r] = "EXPIRED"]
    /\ UNCHANGED <<redisVars, dbStock, delivery, releaseJob, queue, threadVars, faults>>

\* OrderLifecycleService.simulatePay
Pay(r) ==
    /\ order[r] = "PENDING"
    /\ order' = [order EXCEPT ![r] = "PAID"]
    /\ UNCHANGED <<redisVars, dbStock, delivery, releaseJob, queue, threadVars, faults>>

\* The application dies and restarts; the three stores keep what they have, and
\* the broker redelivers what was not acknowledged.
Crash ==
    /\ Fault
    /\ pc' = [t \in Threads |->
                 IF t \notin Reservations THEN "idle"
                 ELSE IF At(t, Answered \cup {"start"}) THEN pc[t] ELSE "error"]
    /\ job' = [t \in Threads |-> IF t \in Reservations THEN t ELSE None]
    /\ tries' = [w \in Workers |-> 0]
    /\ live' = [w \in Workers |-> FALSE]
    /\ UNCHANGED <<redisVars, dbVars, queue>>

\* Not part of Next: a user's qualification disappears from the Redis set, as
\* OrderMessagingIT does by hand to see that the database alone still protects.
LoseQualification(u) ==
    /\ u \in qualified
    /\ Fault
    /\ qualified' = qualified \ {u}
    /\ UNCHANGED <<stock, owner, record, closedMark, dbVars, queue, threadVars>>

--------------------------------------------------------------------------------
Compensation(t) == CancelTx(t) \/ Release(t) \/ ReleaseRefused(t) \/ Complete(t)

Request(r) ==
    \/ Number(r) \/ Bind(r) \/ BindStale(r)
    \/ Publish(r) \/ Confirmed(r) \/ ConfirmTimeout(r)

Listener(w) ==
    \/ \E r \in Reservations : Deliver(w, r)
    \/ CreateLock(w) \/ CheckOwner(w) \/ CheckOwnerRefused(w) \/ CheckBinding(w)
    \/ Insert(w) \/ InsertRefused(w) \/ Ack(w)

Task(s) ==
    \/ \E r \in Reservations : RecoverRead(s, r) \/ CloseOrder(s, r) \/ PickRelease(s, r)
    \/ CloseRelease(s) \/ CloseReleased(s) \/ CloseRefused(s) \/ CloseDone(s)

\* What a thread does of its own accord once it has begun.
Work(t) ==
    \/ t \in Reservations /\ Request(t)
    \/ t \in Workers /\ Listener(t)
    \/ t \in Schedulers /\ Task(t)
    \/ Compensation(t)

Next ==
    \/ \E r \in Reservations :
            Reserve(r) \/ ReserveRefused(r) \/ Expire(r) \/ Pay(r) \/ DeadLetterLost(r)
    \/ \E t \in Threads : Work(t) \/ Fails(t)
    \/ \E w \in Workers : ConnectionLost(w)
    \/ Crash

Spec == Init /\ [][Next]_vars

StaleCacheNext == Next \/ \E u \in Users : LoseQualification(u)

StaleCacheSpec == Init /\ [][StaleCacheNext]_vars

\* Threads that have begun go on, messages are delivered, the scheduled tasks keep
\* running, and the database clock advances.  Nobody has to buy or to pay, and
\* there are at most MaxFaults faults.
Fairness ==
    /\ \A t \in Threads : WF_vars(Work(t))
    /\ \A r \in Reservations : WF_vars(Expire(r))

FairSpec == Spec /\ Fairness

--------------------------------------------------------------------------------
(* Safety.                                                                 *)

StoresTypeOK ==
    /\ stock \in Int
    /\ qualified \subseteq Users
    /\ owner \in [Users -> Reservations \cup {None}]
    /\ record \in [Reservations -> {"none", "unbound", "bound"}]
    /\ closedMark \subseteq Reservations
    /\ dbStock \in Int
    /\ delivery \in [Reservations -> {"none", "CREATED", "CANCELLED"}]
    /\ order \in [Reservations -> {"none", "PENDING", "EXPIRED", "PAID", "CLOSED"}]
    /\ releaseJob \in [Reservations -> {"none", "todo", "done"}]
    /\ queue \in [Reservations -> {"none", "main", "dlq", "parking"}]

\* The labels a thread may be at.
PCOf(t) == IF t \in Reservations THEN RequestPC
           ELSE IF t \in Consumers THEN ConsumerPC
           ELSE IF t \in DeadLetters THEN DeadLetterPC
           ELSE SchedulerPC

ThreadsTypeOK ==
    /\ pc \in [Threads -> RequestPC \cup ConsumerPC \cup DeadLetterPC \cup SchedulerPC]
    /\ job \in [Threads -> Reservations \cup {None}]
    /\ \A t \in Threads : /\ pc[t] \in PCOf(t)
                          /\ job[t] = None <=> pc[t] = "idle"
                          /\ t \in Reservations => job[t] = t
    /\ tries \in [Workers -> Nat]
    /\ live \in [Workers -> BOOLEAN]
    /\ faults \in Nat

\* Every variable stays within its range; a listener of the dead-letter queue only
\* ever compensates, a scheduled task never creates an order, and a thread has a
\* reservation exactly while it is busy.
TypeOK == StoresTypeOK /\ ThreadsTypeOK

\* Every unit taken from the Redis stock is held by exactly one reservation: it is
\* never given back twice nor lost, whichever of the request, the listeners, the
\* recovery task and the close task gives it back (the release scripts).
RedisConservation == stock >= 0 /\ stock + Cardinality(Held) = Stock0

\* The database stock and the orders that are not closed account for the stock:
\* no oversell, and closing an order returns its unit once.
DbConservation == dbStock >= 0 /\ dbStock + Cardinality(Active) = Stock0

\* Redis never offers a unit that the database does not have.
RedisNeverAhead == stock <= dbStock

\* An order that is not closed keeps its slot: no cancellation, late message or
\* stale recovery read takes it away while the order lives.
ActiveOwned == \A r \in Active : OwnsSlot(r)

\* No user is locked out by a slot that nothing leads back to: a qualification
\* has an owner, and the owner a recovery record or an order.
SlotsTraced ==
    \A u \in Users : u \in qualified \/ owner[u] # None =>
        \E r \in Held : UserOf[r] = u /\ u \in qualified
                        /\ (record[r] # "none" \/ order[r] # "none")

\* A cancellation that has been committed is final: neither a late or redelivered
\* message nor a listener already at work creates the order after all.
CancelledIsFinal ==
    [][\A r \in Reservations : delivery[r] = "CANCELLED" =>
          delivery'[r] = "CANCELLED" /\ order'[r] = "none"]_vars

\* What Redis accepted fits in the database: a create transaction that found its
\* reservation bound is never refused for lack of stock or for the unique key.
AcceptedOrderFits == \A w \in Consumers : pc[w] = "insert" => Insertable(job[w])

\* The slot of a closed order is returned once: until its marker is set it is still
\* this order's and a release job is waiting; once set, it never is again.
ClosedReturnedOnce ==
    \A r \in Reservations :
        /\ order[r] = "CLOSED" /\ ~ Marked(r) => OwnsSlot(r) /\ releaseJob[r] = "todo"
        /\ Marked(r) => order[r] = "CLOSED" /\ owner[UserOf[r]] # r

Traced(r) ==
    \/ order[r] # "none"
    \/ delivery[r] = "CANCELLED"
    \/ record[r] = "bound" /\ owner[UserOf[r]] = r

\* The order id a buyer was given leads somewhere: to an order, to a cancellation
\* in the database, or to a bound reservation that still holds its slot.
AcceptedIsTraced == \A r \in Reservations : pc[r] = "ok" => Traced(r)

\* One live order per user and voucher, whatever the Redis cache has lost: the
\* unique key on (active_user_id, voucher_id).
OneActiveOrderPerUser == \A r1, r2 \in Active : UserOf[r1] = UserOf[r2] => r1 = r2

--------------------------------------------------------------------------------
(* The inductive invariant behind the safety properties.                   *)

\* Owners are entered under their own user, and exactly for the qualified users.
OwnersOK ==
    \A u \in Users : /\ owner[u] # None => UserOf[owner[u]] = u
                     /\ u \in qualified <=> owner[u] # None

\* The stores agree about a reservation.
ReservationOK(r) ==
    \* until its order exists it holds its slot exactly while it has a recovery record
    /\ order[r] = "none" => (record[r] # "none" <=> owner[UserOf[r]] = r)
    \* only a bound reservation becomes an order
    /\ order[r] # "none" => record[r] # "unbound"
    /\ order[r] # "none" <=> delivery[r] = "CREATED"
    /\ order[r] = "CLOSED" <=> releaseJob[r] # "none"
    \* an order keeps its slot until the close task has returned it
    /\ r \in Active => OwnsSlot(r)
    /\ order[r] = "CLOSED" /\ ~ Marked(r) => OwnsSlot(r) /\ releaseJob[r] = "todo"
    /\ Marked(r) => order[r] = "CLOSED" /\ owner[UserOf[r]] # r
    \* nothing is known of a request that has not begun
    /\ pc[r] = "start" => /\ record[r] = "none" /\ delivery[r] = "none"
                          /\ owner[UserOf[r]] # r /\ queue[r] = "none"
    \* only a bound reservation is published
    /\ queue[r] # "none" \/ pc[r] \in {"publish", "confirm", "ok"} => record[r] # "unbound"

\* What a thread may rely on at its label, although others went on meanwhile.
ThreadOK(t) ==
    LET r == job[t] IN
    /\ At(t, {"release", "releaseKeep"}) => delivery[r] = "CANCELLED"
    /\ At(t, {"releaseKeep"}) => record[r] = "none"
    /\ At(t, {"complete"}) => delivery[r] = "CREATED"
    /\ At(t, {"publish", "confirm", "ok"}) => Traced(r)
    /\ At(t, CreateTx) => delivery[r] = "none"
    /\ At(t, {"checkBinding", "insert"}) => record[r] = "bound" /\ owner[UserOf[r]] = r
    /\ At(t, {"closeRelease", "closeDone"}) => order[r] = "CLOSED"
    /\ At(t, {"closeDone"}) => Marked(r)
    /\ t \in Workers /\ r # None => record[r] # "unbound"
    /\ t \notin Reservations /\ r # None => pc[r] # "start"

\* The row lock: one create transaction per order.
OneCreator ==
    \A w1, w2 \in Consumers :
        At(w1, CreateTx) /\ At(w2, CreateTx) /\ job[w1] = job[w2] => w1 = w2

\* Every step preserves all of this together (it implies the safety properties):
\* the stores agree, and each thread may still rely on what it has read.
IInv ==
    /\ TypeOK
    /\ OwnersOK
    /\ \A r \in Reservations : ReservationOK(r)
    /\ \A t \in Threads : ThreadOK(t)
    /\ OneCreator
    /\ RedisConservation
    /\ DbConservation

--------------------------------------------------------------------------------
(* The sale this implements.                                               *)

\* The phase of a purchase attempt, read off Redis, MySQL and the request thread.
Phase(r) ==
    IF order[r] = "PAID" THEN "paid"
    ELSE IF order[r] \in {"PENDING", "EXPIRED"} THEN "ordered"
    ELSE IF owner[UserOf[r]] = r THEN (IF order[r] = "CLOSED" THEN "closed" ELSE "held")
    ELSE IF pc[r] = "start" THEN "new" ELSE "gone"

Sale == INSTANCE SeckillSale WITH phase <- [r \in Reservations |-> Phase(r)]

\* The pipeline implements the abstract sale: a slot is held by at most Stock0
\* attempts and one per user, and only a held slot becomes an order.
ImplementsSale == Sale!Spec

\* The life of one order, read off its status and its release job; before it is inserted it
\* has not begun, and of a paid order nobody asks whether it is late.
Life(r) == INSTANCE OrderLife WITH
    state    <- IF order[r] \in {"PAID", "CLOSED"} THEN order[r] ELSE "PENDING",
    late     <- order[r] \in {"EXPIRED", "CLOSED"},
    returned <- releaseJob[r] # "none"

--------------------------------------------------------------------------------
(* Liveness, under FairSpec.                                               *)

\* A slot is not held for ever without an order: the order is created, or the
\* slot given back, although the request, the message or the reply got lost.
HeldSettles ==
    \A r \in Reservations : Phase(r) = "held" ~> Phase(r) # "held"

\* A buyer who was given an order id finds the order or its cancellation decided.
AcceptedIsDecided ==
    \A r \in Reservations : pc[r] = "ok" ~> delivery[r] # "none"

\* Once everything has settled Redis and MySQL agree: no recovery record or release
\* job is left over, and the only slots in use are those of paid orders.
EventuallyReconciled ==
    <>[] /\ stock = dbStock
         /\ \A r \in Reservations :
                /\ record[r] = "none" /\ releaseJob[r] # "todo"
                /\ owner[UserOf[r]] = r => order[r] = "PAID"
================================================================================
