-------------------------- MODULE SeckillOrder_proofs --------------------------
(***************************************************************************)
(* What holds of SeckillOrder for any number of buyers, attempts, threads, *)
(* units of stock, retries and faults.                                     *)
(***************************************************************************)
EXTENDS SeckillOrder, FiniteSetTheorems, TLAPS

\* Thread t ends its step at a label, on the same reservation unless it is idle.
Step(t, label) ==
    /\ pc' = [pc EXCEPT ![t] = label]
    /\ job' = [job EXCEPT ![t] = IF label = "idle" THEN None ELSE @]

\* Labels at which a thread relies on nothing.
Quiet == {"error", "fail", "number", "bind", "releaseUnbound", "cancel", "create", "ack", "idle"}

\* A message can only be where it is or go to one of the dead-letter queues.
Forwarded(t) ==
    \/ queue' = queue
    \/ /\ t \in Workers
       /\ \E q \in {"dlq", "parking"} : queue' = [queue EXCEPT ![job[t]] = q]

\* A busy thread ends its step at one of these labels.
Ends(t, labels) ==
    /\ \E label \in labels \cap PCOf(t) : Step(t, label)
    /\ Forwarded(t)
    /\ tries' \in [Workers -> Nat]
    /\ live' \in [Workers -> BOOLEAN]
    /\ faults' \in Nat

\* The kinds of threads are disjoint.
LEMMA Kinds ==
    ASSUME NEW t \in Threads
    PROVE  /\ t \in Reservations => t \notin Workers /\ t \notin Schedulers
           /\ t \in Schedulers => t \notin Workers
           /\ t \in Consumers => t \notin DeadLetters
           /\ t \in Reservations => PCOf(t) = RequestPC
           /\ t \in Consumers => PCOf(t) = ConsumerPC
           /\ t \in DeadLetters => PCOf(t) = DeadLetterPC
           /\ t \in Schedulers => PCOf(t) = SchedulerPC
BY ThreadsAssumption DEF Workers, Threads, PCOf

\* An exception leaves its thread at a label that relies on nothing.
LEMMA ThrowEnds ==
    ASSUME TypeOK, NEW t \in Threads, Throw(t), faults' \in Nat
    PROVE  Ends(t, Quiet)
<1> USE DEF Step, Ends
<1>0. /\ pc \in [Threads -> RequestPC \cup ConsumerPC \cup DeadLetterPC \cup SchedulerPC]
      /\ job \in [Threads -> Reservations \cup {None}]
      /\ tries \in [Workers -> Nat]
      /\ live \in [Workers -> BOOLEAN]
  BY DEF TypeOK, ThreadsTypeOK
<1>1. CASE RequestCatch(t)
  <2>1. PICK l \in {"error", "releaseUnbound", "cancel", "fail"} : Goto(t, l)
    BY <1>1 DEF RequestCatch
  <2>2. t \in Reservations
    BY <1>1 DEF RequestCatch
  <2>3. Step(t, l) /\ tries' = tries /\ live' = live /\ queue' = queue
    BY <2>1, <1>0 DEF Goto
  <2>4. l \in Quiet \cap PCOf(t)
    BY <2>2, Kinds DEF RequestPC, CancelSteps, Answered, Quiet
  <2> QED BY <1>0, <2>3, <2>4 DEF Forwarded
<1>2. CASE WorkerRetry(t)
  <2>1. /\ EntryPC(t) \in {"create", "cancel"}
        /\ EntryPC(t) = "create" => t \in Consumers
        /\ t \in Workers
    BY <1>2 DEF EntryPC, WorkerRetry
  <2>2. Step(t, EntryPC(t))
    BY <2>1, <1>2, <1>0 DEF WorkerRetry
  <2>3. EntryPC(t) \in Quiet \cap PCOf(t)
    BY <2>1, Kinds DEF ConsumerPC, DeadLetterPC, CancelSteps, Quiet, Workers
  <2>4. tries' \in [Workers -> Nat] /\ live' = live /\ queue' = queue
    BY <1>2, <1>0 DEF WorkerRetry
  <2> QED BY <1>0, <2>2, <2>3, <2>4 DEF Forwarded
<1>3. CASE WorkerReject(t)
  <2>1. Step(t, "idle")
    BY <1>3 DEF WorkerReject, GoIdle
  <2>2. "idle" \in Quiet \cap PCOf(t)
    BY <1>3, Kinds DEF WorkerReject, ConsumerPC, DeadLetterPC, Quiet, Workers
  <2>3. tries' \in [Workers -> Nat] /\ live' \in [Workers -> BOOLEAN]
    BY <1>3, <1>0 DEF WorkerReject
  <2>4. Forwarded(t)
    BY <1>3 DEF WorkerReject, Forwarded
  <2> QED BY <2>1, <2>2, <2>3, <2>4
<1>4. CASE SchedulerCatch(t)
  <2>1. Step(t, "idle")
    BY <1>4 DEF SchedulerCatch, GoIdle
  <2>2. "idle" \in Quiet \cap PCOf(t)
    BY <1>4, Kinds DEF SchedulerCatch, SchedulerPC, Quiet
  <2> QED BY <1>0, <1>4, <2>1, <2>2 DEF SchedulerCatch, Forwarded
<1> QED BY <1>1, <1>2, <1>3, <1>4 DEF Throw

LEMMA GotoEnds ==
    ASSUME TypeOK, NEW t \in Threads, NEW label \in PCOf(t) \ {"idle"},
           Goto(t, label), faults' = faults
    PROVE  Ends(t, {label})
BY DEF TypeOK, ThreadsTypeOK, Goto, Ends, Step, Forwarded

LEMMA FaultType ==
    ASSUME TypeOK, Fault
    PROVE  faults' \in Nat
BY DEF TypeOK, ThreadsTypeOK, Fault

LEMMA AnswerEnds ==
    ASSUME TypeOK, NEW t \in Threads, NEW label \in PCOf(t) \ {"idle"}, Answer(t, label)
    PROVE  Ends(t, Quiet \cup {label})
<1>1. CASE Goto(t, label) /\ UNCHANGED faults
  BY <1>1, GotoEnds DEF Ends
<1>2. CASE Fault /\ Throw(t)
  BY <1>2, FaultType, ThrowEnds DEF Ends
<1> QED BY <1>1, <1>2 DEF Answer

LEMMA FinishEnds ==
    ASSUME TypeOK, NEW t \in Threads, NEW reply \in {"ok", "fail"}, Finish(t, reply)
    PROVE  Ends(t, Quiet \cup {reply})
<1>1. CASE t \in Reservations /\ Answer(t, reply)
  <2>1. reply \in PCOf(t) \ {"idle"}
    BY <1>1, Kinds DEF RequestPC, Answered
  <2> QED BY <1>1, <2>1, AnswerEnds
<1>2. CASE t \in Workers /\ Answer(t, "ack")
  <2>1. "ack" \in PCOf(t) \ {"idle"}
    BY <1>2, Kinds DEF ConsumerPC, DeadLetterPC, Workers
  <2>2. Ends(t, Quiet \cup {"ack"})
    BY <1>2, <2>1, AnswerEnds
  <2> QED BY <2>2 DEF Ends, Quiet
<1>3. CASE t \in Schedulers /\ UNCHANGED faults /\ SchedulerCatch(t)
  <2>1. Throw(t) /\ faults' \in Nat
    BY <1>3 DEF Throw, TypeOK, ThreadsTypeOK
  <2> QED BY <2>1, ThrowEnds DEF Ends
<1> QED BY <1>1, <1>2, <1>3 DEF Finish

\* What Ends says of the variables pc and job, thread by thread.
LEMMA EndsAt ==
    ASSUME TypeOK, NEW t \in Threads, NEW labels, Ends(t, labels)
    PROVE  /\ pc'[t] \in labels \cap PCOf(t)
           /\ job'[t] = IF pc'[t] = "idle" THEN None ELSE job[t]
           /\ \A t2 \in Threads \ {t} : pc'[t2] = pc[t2] /\ job'[t2] = job[t2]
BY DEF TypeOK, ThreadsTypeOK, Ends, Step

LEMMA EndsTypes ==
    ASSUME TypeOK, NEW t \in Threads, pc[t] # "idle", NEW labels, Ends(t, labels)
    PROVE  /\ ThreadsTypeOK'
           /\ queue' \in [Reservations -> {"none", "main", "dlq", "parking"}]
<1>1. PICK label \in labels \cap PCOf(t) : Step(t, label)
  BY DEF Ends
<1>2. PCOf(t) \subseteq RequestPC \cup ConsumerPC \cup DeadLetterPC \cup SchedulerPC
  BY DEF PCOf
<1>3. t \in Reservations => label # "idle"
  BY <1>1, Kinds DEF RequestPC, CancelSteps, Answered
<1>4. /\ pc' \in [Threads -> RequestPC \cup ConsumerPC \cup DeadLetterPC \cup SchedulerPC]
      /\ job' \in [Threads -> Reservations \cup {None}]
  BY <1>1, <1>2 DEF TypeOK, ThreadsTypeOK, Step
<1>5. ASSUME NEW t2 \in Threads
      PROVE  /\ pc'[t2] \in PCOf(t2)
             /\ job'[t2] = None <=> pc'[t2] = "idle"
             /\ t2 \in Reservations => job'[t2] = t2
  <2>1. CASE t2 = t
    BY <1>1, <1>3, <2>1 DEF TypeOK, ThreadsTypeOK, Step
  <2>2. CASE t2 # t
    BY <1>1, <2>2 DEF TypeOK, ThreadsTypeOK, Step
  <2> QED BY <2>1, <2>2
<1>6. queue' \in [Reservations -> {"none", "main", "dlq", "parking"}]
  BY DEF TypeOK, StoresTypeOK, Ends, Forwarded
<1>7. ThreadsTypeOK'
  <2>1. PCOf(t)' = PCOf(t)
    BY DEF PCOf
  <2> QED BY <1>4, <1>5 DEF ThreadsTypeOK, Ends, PCOf
<1> QED BY <1>6, <1>7

--------------------------------------------------------------------------------
(* Frames: a step concerns one reservation.                                *)

\* The stores change for no reservation but j.
Local(j) ==
    \A r \in Reservations \ {j} :
        /\ record'[r] = record[r]
        /\ delivery'[r] = delivery[r]
        /\ order'[r] = order[r]
        /\ releaseJob'[r] = releaseJob[r]
        /\ queue'[r] = queue[r]
        /\ r \in closedMark' <=> r \in closedMark
        /\ owner'[UserOf[r]] = r <=> owner[UserOf[r]] = r
        /\ OwnsSlot(r)' <=> OwnsSlot(r)

LEMMA FrameReservation ==
    ASSUME NEW j, Local(j), NEW r \in Reservations \ {j}, ReservationOK(r), pc'[r] = pc[r]
    PROVE  ReservationOK(r)'
BY DEF Local, ReservationOK, Active, Marked

LEMMA FrameThread ==
    ASSUME TypeOK, NEW j, Local(j), NEW t \in Threads, job[t] # j, ThreadOK(t),
           pc'[t] = pc[t], job'[t] = job[t],
           job[t] # None => pc'[job[t]] = pc[job[t]]
    PROVE  ThreadOK(t)'
<1>1. CASE job[t] = None
  BY <1>1 DEF TypeOK, ThreadsTypeOK, ThreadOK, At, CreateTx
<1>2. CASE job[t] # None
  <2>1. job[t] \in Reservations \ {j}
    BY <1>2 DEF TypeOK, ThreadsTypeOK
  <2> QED BY <1>2, <2>1 DEF Local, ThreadOK, At, Marked, Traced
<1> QED BY <1>1, <1>2

\* What IInv says of the threads and of each reservation.
Agreement ==
    /\ TypeOK
    /\ \A r \in Reservations : ReservationOK(r)
    /\ \A t \in Threads : ThreadOK(t)

\* A busy thread's step is fine if it is fine for its own reservation, for the
\* thread itself and for the other threads that work on the same reservation.
LEMMA StepAgreement ==
    ASSUME Agreement, NEW t \in Threads, pc[t] # "idle",
           NEW j \in Reservations, job[t] = j,
           NEW labels, "start" \notin labels, Ends(t, labels),
           Local(j), StoresTypeOK', ReservationOK(j)', ThreadOK(t)',
           \A t2 \in Threads \ {t} : job[t2] = j => ThreadOK(t2)'
    PROVE  Agreement'
<1>1. TypeOK'
  BY EndsTypes DEF Agreement, TypeOK
<1>2. /\ pc'[t] \in labels \cap PCOf(t)
      /\ \A t2 \in Threads \ {t} : pc'[t2] = pc[t2] /\ job'[t2] = job[t2]
  BY EndsAt DEF Agreement
<1>3. ASSUME NEW r \in Reservations PROVE ReservationOK(r)'
  <2>1. CASE r = j
    BY <2>1
  <2>2. CASE r # j
    <3>1. r \in Threads \ {t}
      BY <2>2 DEF Agreement, TypeOK, ThreadsTypeOK, Threads
    <3> QED BY <1>2, <2>2, <3>1, FrameReservation DEF Agreement
  <2> QED BY <2>1, <2>2
<1>4. ASSUME NEW t2 \in Threads PROVE ThreadOK(t2)'
  <2>1. CASE t2 = t
    BY <2>1
  <2>2. CASE t2 # t /\ job[t2] = j
    BY <2>2
  <2>3. CASE t2 # t /\ job[t2] # j
    <3>1. job[t2] # None => job[t2] \in Threads \ {t}
      BY <2>3 DEF Agreement, TypeOK, ThreadsTypeOK, Threads
    <3> QED BY <1>2, <2>3, <3>1, FrameThread DEF Agreement
  <2> QED BY <2>1, <2>2, <2>3
<1> QED BY <1>1, <1>3, <1>4 DEF Agreement

\* A thread other than the request itself only meets requests that have begun, and
\* the listeners only bound ones, so forwarding its message keeps ReservationOK.
LEMMA ForwardReservation ==
    ASSUME Agreement, NEW t \in Threads, NEW j \in Reservations, job[t] = j,
           NEW labels, labels \cap {"start", "publish", "confirm", "ok"} = {},
           Ends(t, labels), UNCHANGED <<redisVars, dbVars>>
    PROVE  ReservationOK(j)'
<1>1. /\ pc'[t] \in labels
      /\ \A t2 \in Threads \ {t} : pc'[t2] = pc[t2]
  BY EndsAt DEF Agreement
<1>2. j \in Threads /\ (t \in Reservations => t = j)
  BY DEF Agreement, TypeOK, ThreadsTypeOK, Threads
<1>3. /\ pc'[j] # "start"
      /\ pc'[j] \in {"publish", "confirm", "ok"} => pc'[j] = pc[j]
  <2>1. CASE t \in Reservations
    BY <1>1, <1>2, <2>1
  <2>2. CASE t \notin Reservations
    <3>1. pc[j] # "start"
      BY <2>2, BuyersAssumption DEF Agreement, ThreadOK
    <3>2. j # t
      BY <2>2
    <3> QED BY <1>1, <1>2, <3>1, <3>2
  <2> QED BY <2>1, <2>2
<1>4. queue'[j] # queue[j] => record[j] # "unbound"
  <2>1. CASE queue' = queue
    BY <2>1
  <2>2. CASE t \in Workers
    BY <2>2, BuyersAssumption DEF Agreement, ThreadOK
  <2> QED BY <2>1, <2>2 DEF Ends, Forwarded
<1>5. ReservationOK(j)
  BY DEF Agreement
<1> QED BY <1>3, <1>4, <1>5
        DEF ReservationOK, redisVars, dbVars, Active, OwnsSlot, Marked

\* A step that leaves both stores alone.
LEMMA ControlStep ==
    ASSUME Agreement, NEW t \in Threads, pc[t] # "idle",
           NEW labels, labels \cap {"start", "publish", "confirm", "ok"} = {},
           Ends(t, labels), UNCHANGED <<redisVars, dbVars>>, ThreadOK(t)'
    PROVE  Agreement'
<1>1. PICK j \in Reservations : job[t] = j
  BY DEF Agreement, TypeOK, ThreadsTypeOK
<1>2. ReservationOK(j)'
  BY <1>1, ForwardReservation
<1>3. \A r \in Reservations \ {j} : queue'[r] = queue[r]
  BY <1>1 DEF Ends, Forwarded, Agreement, TypeOK, StoresTypeOK
<1>4. Local(j)
  BY <1>3 DEF Local, redisVars, dbVars, OwnsSlot
<1>5. StoresTypeOK'
  BY EndsTypes DEF Agreement, TypeOK, StoresTypeOK, redisVars, dbVars
<1>6. ASSUME NEW t2 \in Threads \ {t}, job[t2] = j PROVE ThreadOK(t2)'
  <2>1. pc'[t2] = pc[t2] /\ job'[t2] = job[t2]
    BY EndsAt DEF Agreement
  <2>2. pc'[j] # "start"
    BY <1>1, EndsAt, <1>6 DEF Agreement, ThreadOK, TypeOK, ThreadsTypeOK, Threads
  <2> QED BY <1>6, <2>1, <2>2
          DEF Agreement, ThreadOK, At, Traced, Marked, redisVars, dbVars
<1> QED BY <1>1, <1>2, <1>4, <1>5, <1>6, StepAgreement

\* In particular a step to a label that relies on nothing.
LEMMA QuietStep ==
    ASSUME Agreement, NEW t \in Threads, pc[t] # "idle", Ends(t, Quiet),
           UNCHANGED <<redisVars, dbVars>>
    PROVE  Agreement'
<1>1. ThreadOK(t)'
  <2>1. pc'[t] \in Quiet /\ job'[t] = (IF pc'[t] = "idle" THEN None ELSE job[t])
    BY EndsAt DEF Agreement
  <2>2. \A t2 \in Threads \ {t} : pc'[t2] = pc[t2]
    BY EndsAt DEF Agreement
  <2>3. t \in Workers /\ job[t] # None => record'[job[t]] # "unbound"
    BY DEF Agreement, ThreadOK, redisVars
  <2>4. t \notin Reservations /\ job[t] # None => pc'[job[t]] # "start"
    BY <2>2 DEF Agreement, ThreadOK, TypeOK, ThreadsTypeOK, Threads
  <2> QED BY <2>1, <2>3, <2>4 DEF ThreadOK, At, Quiet, CreateTx
<1> QED BY <1>1, ControlStep DEF Quiet

LEMMA CreatorKept ==
    ASSUME TypeOK, OneCreator, NEW t \in Threads, NEW labels, Ends(t, labels),
           labels \cap CreateTx = {} \/ pc[t] \in CreateTx
    PROVE  OneCreator'
<1>1. /\ pc'[t] \in labels
      /\ job'[t] = IF pc'[t] = "idle" THEN None ELSE job[t]
      /\ \A t2 \in Threads \ {t} : pc'[t2] = pc[t2] /\ job'[t2] = job[t2]
  BY EndsAt
<1>2. Consumers \subseteq Threads
  BY DEF Threads, Workers
<1> QED BY <1>1, <1>2 DEF OneCreator, At, CreateTx

\* A step of no thread: the database clock, a payment, the close transaction.
LEMMA StoreAgreement ==
    ASSUME Agreement, NEW j \in Reservations, UNCHANGED <<threadVars, faults>>,
           Local(j), StoresTypeOK', ReservationOK(j)',
           \A t \in Threads : job[t] = j => ThreadOK(t)'
    PROVE  Agreement'
<1>1. ThreadsTypeOK'
  BY DEF Agreement, TypeOK, ThreadsTypeOK, threadVars, PCOf
<1>2. \A r \in Reservations : ReservationOK(r)'
  BY FrameReservation DEF Agreement, threadVars
<1>3. \A t \in Threads : ThreadOK(t)'
  BY FrameThread DEF Agreement, threadVars
<1> QED BY <1>1, <1>2, <1>3 DEF Agreement, TypeOK

\* The other threads on the reservation of a thread that makes a step.
LEMMA Others ==
    ASSUME Agreement, NEW t \in Threads, NEW j \in Reservations, job[t] = j,
           NEW labels, "start" \notin labels, Ends(t, labels),
           NEW t2 \in Threads \ {t}, job[t2] = j
    PROVE  /\ pc'[t2] = pc[t2] /\ job'[t2] = j
           /\ pc'[j] # "start" /\ pc[j] # "start"
<1>1. /\ pc'[t] \in labels
      /\ \A t3 \in Threads \ {t} : pc'[t3] = pc[t3] /\ job'[t3] = job[t3]
  BY EndsAt DEF Agreement
<1>2. /\ j \in Threads
      /\ t \in Reservations => t = j
      /\ t2 \in Reservations => t2 = j
  BY DEF Agreement, TypeOK, ThreadsTypeOK, Threads
<1>3. pc[j] # "start"
  <2>1. t \notin Reservations \/ t2 \notin Reservations
    BY <1>2
  <2> QED BY <2>1, BuyersAssumption DEF Agreement, ThreadOK
<1> QED BY <1>1, <1>2, <1>3

\* The thread itself.
LEMMA Own ==
    ASSUME Agreement, NEW t \in Threads, NEW j \in Reservations, job[t] = j,
           NEW labels, "start" \notin labels, Ends(t, labels)
    PROVE  /\ pc'[t] \in labels \cap PCOf(t)
           /\ job'[t] = IF pc'[t] = "idle" THEN None ELSE j
           /\ pc'[j] # "start"
           /\ t \in Reservations => t = j
<1>1. t \in Reservations => t = j
  BY DEF Agreement, TypeOK, ThreadsTypeOK
<1>2. t \notin Reservations => j \in Threads \ {t} /\ pc[j] # "start"
  BY BuyersAssumption DEF Agreement, ThreadOK, Threads
<1> QED BY EndsAt, <1>1, <1>2 DEF Agreement

--------------------------------------------------------------------------------
(* Counting.                                                               *)

LEMMA FiniteSets ==
    IsFiniteSet(Held) /\ IsFiniteSet(Active) /\ Cardinality(Held) \in Nat /\ Cardinality(Active) \in Nat
<1>1. Held \subseteq Reservations /\ Active \subseteq Reservations
  BY DEF Held, Active
<1> QED BY <1>1, BuyersAssumption, FS_Subset, FS_CardinalityType

LEMMA SlotTaken ==
    ASSUME RedisConservation, stock \in Int, stock > 0, stock' = stock - 1,
           NEW j, j \notin Held, Held' = Held \cup {j}
    PROVE  RedisConservation'
<1>1. Cardinality(Held \cup {j}) = Cardinality(Held) + 1
  BY FiniteSets, FS_AddElement
<1>2. Cardinality(Held') = Cardinality(Held) + 1
  BY <1>1
<1> QED BY <1>2, FiniteSets, StockAssumption DEF RedisConservation

LEMMA SlotReturned ==
    ASSUME RedisConservation, stock \in Int, stock' = stock + 1,
           NEW j, j \in Held, Held' = Held \ {j}
    PROVE  RedisConservation'
<1>1. Cardinality(Held \ {j}) = Cardinality(Held) - 1
  BY FiniteSets, FS_RemoveElement
<1>2. Cardinality(Held') = Cardinality(Held) - 1
  BY <1>1
<1> QED BY <1>2, FiniteSets, StockAssumption DEF RedisConservation

LEMMA OrderAdded ==
    ASSUME DbConservation, dbStock \in Int, dbStock > 0, dbStock' = dbStock - 1,
           NEW j, j \notin Active, Active' = Active \cup {j}
    PROVE  DbConservation'
<1>1. Cardinality(Active \cup {j}) = Cardinality(Active) + 1
  BY FiniteSets, FS_AddElement
<1>2. Cardinality(Active') = Cardinality(Active) + 1
  BY <1>1
<1> QED BY <1>2, FiniteSets, StockAssumption DEF DbConservation

LEMMA OrderRemoved ==
    ASSUME DbConservation, dbStock \in Int, dbStock' = dbStock + 1,
           NEW j, j \in Active, Active' = Active \ {j}
    PROVE  DbConservation'
<1>1. Cardinality(Active \ {j}) = Cardinality(Active) - 1
  BY FiniteSets, FS_RemoveElement
<1>2. Cardinality(Active') = Cardinality(Active) - 1
  BY <1>1
<1> QED BY <1>2, FiniteSets, StockAssumption DEF DbConservation

\* An accepted reservation without an order is one more slot than there are orders.
LEMMA RoomForOrder ==
    ASSUME IInv, NEW j \in Held, j \notin Active
    PROVE  dbStock > 0
<1>1. Active \cup {j} \subseteq Held
  BY DEF IInv, ReservationOK, OwnsSlot, Held, Active
<1>2. Cardinality(Active \cup {j}) = Cardinality(Active) + 1
  BY FiniteSets, FS_AddElement
<1>3. Cardinality(Active \cup {j}) <= Cardinality(Held)
  BY <1>1, FiniteSets, FS_Subset
<1> QED BY <1>2, <1>3, FiniteSets, StockAssumption
        DEF IInv, RedisConservation, DbConservation, TypeOK, StoresTypeOK

LEMMA SlotsCoverOrders ==
    ASSUME IInv
    PROVE  stock <= dbStock
<1>1. Active \subseteq Held
  BY DEF IInv, ReservationOK, OwnsSlot, Held, Active
<1>2. Cardinality(Active) <= Cardinality(Held)
  BY <1>1, FiniteSets, FS_Subset
<1> QED BY <1>2, FiniteSets, StockAssumption
        DEF IInv, RedisConservation, DbConservation, TypeOK, StoresTypeOK

--------------------------------------------------------------------------------
(* The steps that change a store.                                          *)

LEMMA Parts ==
    /\ IInv <=> Agreement /\ OwnersOK /\ OneCreator /\ RedisConservation /\ DbConservation
    /\ IInv' <=> Agreement' /\ OwnersOK' /\ OneCreator' /\ RedisConservation' /\ DbConservation'
BY DEF IInv, Agreement

LEMMA ReserveStep ==
    ASSUME IInv, NEW r \in Reservations, Reserve(r)
    PROVE  IInv'
<1> USE Parts
<1>0. /\ r \in Threads /\ r \notin Workers /\ pc[r] = "start" /\ job[r] = r
      /\ UserOf[r] \in Users /\ r # None
      /\ stock > 0 /\ owner[UserOf[r]] = None
      /\ stock' = stock - 1 /\ qualified' = qualified \cup {UserOf[r]}
      /\ owner' = [owner EXCEPT ![UserOf[r]] = r]
      /\ record' = [record EXCEPT ![r] = "unbound"]
      /\ closedMark' = closedMark /\ UNCHANGED dbVars
  BY Kinds, BuyersAssumption
     DEF Reserve, Reservable, NewRecord, At, Threads, Agreement, TypeOK, ThreadsTypeOK, OwnersOK
<1>1. Ends(r, Quiet)
  <2>1. "number" \in PCOf(r) \ {"idle"}
    BY <1>0, Kinds DEF RequestPC
  <2>2. Ends(r, Quiet \cup {"number"})
    BY <1>0, <2>1, AnswerEnds DEF Reserve, Agreement
  <2> QED BY <2>2 DEF Quiet, Ends
<1>2. queue' = queue
  BY <1>0, <1>1 DEF Ends, Forwarded
<1>3. StoresTypeOK'
  BY <1>0, <1>2 DEF Agreement, TypeOK, StoresTypeOK, dbVars
<1>4. Local(r)
  BY <1>0, <1>2, BuyersAssumption DEF Local, OwnsSlot, Agreement, TypeOK, StoresTypeOK, dbVars
<1>5. ReservationOK(r)'
  <2>1. ReservationOK(r)
    BY DEF Agreement
  <2>2. pc'[r] \in Quiet
    BY <1>0, <1>1, EndsAt DEF Agreement
  <2> QED BY <1>0, <1>2, <2>1, <2>2
          DEF ReservationOK, Quiet, Active, OwnsSlot, Marked, dbVars, Agreement, TypeOK, StoresTypeOK
<1>6. ThreadOK(r)'
  BY <1>0, <1>1, Own DEF ThreadOK, At, Quiet, CreateTx
<1>7. \A t2 \in Threads \ {r} : job[t2] = r => ThreadOK(t2)'
  BY <1>0, <1>1, Others DEF Quiet
<1>8. Agreement'
  BY <1>0, <1>1, <1>3, <1>4, <1>5, <1>6, <1>7, StepAgreement DEF Quiet
<1>9. OwnersOK'
  BY <1>0, BuyersAssumption DEF OwnersOK, Agreement, TypeOK, StoresTypeOK
<1>10. OneCreator'
  BY <1>0, <1>1, CreatorKept DEF Quiet, CreateTx, Agreement
<1>11. RedisConservation'
  <2>1. r \notin Held /\ Held' = Held \cup {r}
    BY <1>0, BuyersAssumption DEF Held, Agreement, TypeOK, StoresTypeOK
  <2> QED BY <1>0, <2>1, SlotTaken DEF Agreement, TypeOK, StoresTypeOK
<1>12. DbConservation'
  BY <1>0 DEF DbConservation, Active, dbVars
<1> QED BY <1>8, <1>9, <1>10, <1>11, <1>12

\* Steps that change neither the owners, the stock nor the orders.
LEMMA SameSlots ==
    ASSUME IInv, UNCHANGED <<stock, qualified, owner, dbStock, order>>
    PROVE  OwnersOK' /\ RedisConservation' /\ DbConservation'
BY DEF IInv, OwnersOK, RedisConservation, DbConservation, Held, Active

LEMMA BindStep ==
    ASSUME IInv, NEW r \in Reservations, Bind(r)
    PROVE  IInv'
<1> USE Parts
<1>0. /\ r \in Threads /\ r \notin Workers /\ pc[r] = "bind" /\ job[r] = r
      /\ r # None /\ owner[UserOf[r]] = r /\ record[r] # "none"
      /\ record' = [record EXCEPT ![r] = "bound"]
      /\ UNCHANGED <<stock, qualified, owner, closedMark, dbVars>>
  BY Kinds, BuyersAssumption DEF Bind, Bindable, At, Threads, Agreement, TypeOK, ThreadsTypeOK
<1>1. Ends(r, Quiet \cup {"publish"})
  <2>1. "publish" \in PCOf(r) \ {"idle"}
    BY <1>0, Kinds DEF RequestPC
  <2> QED BY <1>0, <2>1, AnswerEnds DEF Bind, Agreement
<1>2. queue' = queue
  BY <1>0, <1>1 DEF Ends, Forwarded
<1>3. StoresTypeOK'
  BY <1>0, <1>2 DEF Agreement, TypeOK, StoresTypeOK, dbVars
<1>4. Local(r)
  BY <1>0, <1>2 DEF Local, OwnsSlot, Agreement, TypeOK, StoresTypeOK, dbVars
<1>5. record'[r] = "bound"
  BY <1>0 DEF Agreement, TypeOK, StoresTypeOK
<1>6. ReservationOK(r)'
  <2>1. ReservationOK(r)
    BY DEF Agreement
  <2>2. pc'[r] # "start"
    BY <1>0, <1>1, Own DEF Quiet
  <2> QED BY <1>0, <1>5, <2>1, <2>2
          DEF ReservationOK, Active, OwnsSlot, Marked, dbVars
<1>7. ThreadOK(r)'
  BY <1>0, <1>1, <1>5, Own DEF ThreadOK, At, Quiet, CreateTx, Traced
<1>8. ASSUME NEW t2 \in Threads \ {r}, job[t2] = r
      PROVE ThreadOK(t2)'
  <2>1. pc'[t2] = pc[t2] /\ job'[t2] = r /\ pc'[r] # "start"
    BY <1>0, <1>1, <1>8, Others DEF Quiet
  <2>2. ThreadOK(t2)
    BY DEF Agreement
  <2> QED BY <1>0, <1>5, <1>8, <2>1, <2>2 DEF ThreadOK, At, Traced, Marked, dbVars
<1>9. Agreement'
  BY <1>0, <1>1, <1>3, <1>4, <1>6, <1>7, <1>8, StepAgreement DEF Quiet
<1>10. OneCreator'
  BY <1>0, <1>1, CreatorKept DEF Quiet, CreateTx, Agreement
<1> QED BY <1>0, <1>9, <1>10, SameSlots DEF dbVars

LEMMA CancelStep ==
    ASSUME IInv, NEW t \in Threads, CancelTx(t)
    PROVE  IInv'
<1> USE Parts
<1>0. PICK j \in Reservations : job[t] = j
  BY DEF CancelTx, At, Agreement, TypeOK, ThreadsTypeOK
<1>1. /\ pc[t] = "cancel" /\ j # None /\ ~ Locked(j)
      /\ delivery' = [delivery EXCEPT ![j] = IF order[j] # "none" THEN "CREATED" ELSE "CANCELLED"]
      /\ UNCHANGED <<redisVars, dbStock, order, releaseJob>>
  BY <1>0, BuyersAssumption DEF CancelTx, Created, At
<1>2. delivery'[j] = IF order[j] # "none" THEN "CREATED" ELSE "CANCELLED"
  BY <1>1 DEF Agreement, TypeOK, StoresTypeOK
<1>3. ReservationOK(j)
  BY DEF Agreement
<1>4. PICK label : /\ label = IF order[j] # "none" THEN "complete"
                             ELSE IF OtherOrder(j) THEN "releaseKeep" ELSE "release"
                   /\ Answer(t, label)
  BY <1>0 DEF CancelTx, Created
<1>5. label \in {"complete", "releaseKeep", "release"} /\ label \in PCOf(t) \ {"idle"}
  BY <1>4, Kinds
     DEF Threads, Workers, RequestPC, ConsumerPC, DeadLetterPC, SchedulerPC, CancelSteps
<1>6. Ends(t, Quiet \cup {label})
  BY <1>4, <1>5, AnswerEnds DEF Agreement
<1>7. /\ queue'[j] # queue[j] => record[j] # "unbound"
      /\ \A r \in Reservations \ {j} : queue'[r] = queue[r]
  BY <1>0, <1>1, <1>6 DEF Ends, Forwarded, Agreement, TypeOK, StoresTypeOK, ThreadOK
<1>8. StoresTypeOK'
  <2>1. queue' \in [Reservations -> {"none", "main", "dlq", "parking"}]
    BY <1>1, <1>6, EndsTypes DEF Agreement
  <2> QED BY <1>1, <2>1 DEF Agreement, TypeOK, StoresTypeOK, redisVars
<1>9. Local(j)
  BY <1>1, <1>7 DEF Local, OwnsSlot, Agreement, TypeOK, StoresTypeOK, redisVars
<1>10. /\ pc'[t] \in Quiet \cup {label}
       /\ job'[t] = IF pc'[t] = "idle" THEN None ELSE j
       /\ pc'[j] # "start"
       /\ t \in Reservations => t = j
  BY <1>0, <1>5, <1>6, Own DEF Quiet
<1>11. j # t => pc'[j] = pc[j]
  BY <1>6, EndsAt DEF Agreement, Threads
<1>12. ReservationOK(j)'
  BY <1>1, <1>2, <1>3, <1>5, <1>7, <1>10, <1>11
     DEF ReservationOK, Active, OwnsSlot, Marked, Quiet, redisVars
<1>13. label = "releaseKeep" => record[j] = "none"
  <2>1. SUFFICES ASSUME label = "releaseKeep" PROVE record[j] = "none"
    OBVIOUS
  <2>2. PICK r2 \in Active \ {j} : UserOf[r2] = UserOf[j]
    BY <1>4, <2>1 DEF OtherOrder
  <2>3. owner[UserOf[r2]] = r2
    BY <2>2 DEF Agreement, ReservationOK, OwnsSlot, Active
  <2> QED BY <1>3, <1>4, <2>1, <2>2, <2>3 DEF ReservationOK
<1>14. ThreadOK(t)'
  <2>1. t \in Workers => record'[j] # "unbound"
    BY <1>0, <1>1 DEF Agreement, ThreadOK, redisVars
  <2> QED BY <1>1, <1>2, <1>4, <1>5, <1>10, <1>13, <2>1
          DEF ThreadOK, At, Quiet, CreateTx, redisVars
<1>15. ASSUME NEW t2 \in Threads \ {t}, job[t2] = j
       PROVE  ThreadOK(t2)'
  <2>1. pc'[t2] = pc[t2] /\ job'[t2] = j /\ pc'[j] # "start"
    BY <1>0, <1>5, <1>6, <1>15, Others DEF Quiet
  <2>2. ThreadOK(t2) /\ pc[t2] \in PCOf(t2)
    BY DEF Agreement, TypeOK, ThreadsTypeOK
  <2>3. pc[t2] \notin CreateTx
    <3>1. CASE t2 \in Consumers
      BY <1>1, <1>15, <3>1 DEF Locked
    <3>2. CASE t2 \notin Consumers
      BY <2>2, <3>2, Kinds DEF Threads, Workers, RequestPC, DeadLetterPC, SchedulerPC,
                              CancelSteps, Answered, CreateTx
    <3> QED BY <3>1, <3>2
  <2> QED BY <1>1, <1>2, <1>3, <1>15, <2>1, <2>2, <2>3
          DEF ThreadOK, At, Traced, Marked, CreateTx, ReservationOK, redisVars
<1>16. Agreement'
  BY <1>0, <1>1, <1>5, <1>6, <1>8, <1>9, <1>12, <1>14, <1>15, StepAgreement DEF Quiet
<1>17. OneCreator'
  BY <1>5, <1>6, CreatorKept DEF Quiet, CreateTx, Agreement
<1> QED BY <1>1, <1>16, <1>17, SameSlots DEF redisVars

LEMMA ReleaseStep ==
    ASSUME IInv, NEW t \in Threads, Release(t)
    PROVE  IInv'
<1> USE Parts
<1>0. PICK j \in Reservations : job[t] = j
  BY DEF Release, At, Agreement, TypeOK, ThreadsTypeOK
<1> DEFINE u == UserOf[j]
           match == record[j] = Expected(t)
           owns == match /\ owner[u] = j
<1>1. /\ pc[t] \in {"release", "releaseKeep", "releaseUnbound"}
      /\ ~ Ownerless(j) /\ j # None /\ u \in Users
      /\ record' = [record EXCEPT ![j] = IF match THEN "none" ELSE @]
      /\ stock' = IF owns THEN stock + 1 ELSE stock
      /\ owner' = [owner EXCEPT ![u] = IF owns THEN None ELSE @]
      /\ qualified' = IF owns /\ pc[t] # "releaseKeep" THEN qualified \ {u} ELSE qualified
      /\ UNCHANGED <<closedMark, dbVars>>
  BY <1>0, BuyersAssumption DEF Release, At
<1>2. match => /\ pc[t] # "releaseKeep"
               /\ record[j] # "none"
               /\ owns /\ order[j] = "none"
               /\ record[j] = "unbound" \/ delivery[j] = "CANCELLED"
  <2>1. SUFFICES ASSUME match
                 PROVE  /\ pc[t] # "releaseKeep"
                        /\ record[j] # "none"
                        /\ owns /\ order[j] = "none"
                        /\ record[j] = "unbound" \/ delivery[j] = "CANCELLED"
    OBVIOUS
  <2>2. record[j] \in {"unbound", "bound"} /\ (record[j] = "unbound" <=> pc[t] = "releaseUnbound")
    BY <2>1 DEF Expected, At
  <2>3. ThreadOK(t) /\ ReservationOK(j)
    BY DEF Agreement
  <2>4. pc[t] # "releaseKeep" /\ (record[j] = "unbound" \/ delivery[j] = "CANCELLED")
    BY <1>0, <1>1, <2>2, <2>3 DEF ThreadOK, At
  <2>5. order[j] = "none"
    BY <2>3, <2>4 DEF ReservationOK
  <2> QED BY <2>1, <2>2, <2>3, <2>4, <2>5 DEF ReservationOK
<1> HIDE DEF match
<1>3. CASE ~ match
  <2>1. UNCHANGED <<redisVars, dbVars>>
    BY <1>1, <1>3 DEF Agreement, TypeOK, StoresTypeOK, redisVars
  <2>2. Ends(t, Quiet \cup {"fail"})
    BY FinishEnds DEF Release, Agreement
  <2>3. Ends(t, Quiet)
    BY <2>2 DEF Quiet, Ends
  <2>4. Agreement' /\ OneCreator'
    BY <1>1, <2>1, <2>3, QuietStep, CreatorKept DEF Agreement, Quiet, CreateTx
  <2> QED BY <2>1, <2>4, SameSlots DEF redisVars, dbVars
<1>4. CASE match
  <2>0. /\ record' = [record EXCEPT ![j] = "none"] /\ record'[j] = "none"
        /\ owner[u] = j /\ owner' = [owner EXCEPT ![u] = None]
        /\ stock' = stock + 1 /\ qualified' = qualified \ {u}
        /\ UNCHANGED <<closedMark, dbVars>>
        /\ order[j] = "none"
    <3>1. owns /\ pc[t] # "releaseKeep" /\ order[j] = "none"
      BY <1>2, <1>4
    <3>2. /\ record' = [record EXCEPT ![j] = "none"] /\ owner[u] = j
          /\ owner' = [owner EXCEPT ![u] = None]
          /\ stock' = stock + 1 /\ qualified' = qualified \ {u}
      BY <1>1, <1>4, <3>1
    <3>3. record'[j] = "none"
      BY <3>2 DEF Agreement, TypeOK, StoresTypeOK
    <3> QED BY <1>1, <3>1, <3>2, <3>3
  <2>1. Ends(t, Quiet)
    <3>1. Ends(t, Quiet \cup {"fail"})
      BY FinishEnds DEF Release, Agreement
    <3> QED BY <3>1 DEF Quiet, Ends
  <2>2. \A r \in Reservations \ {j} : queue'[r] = queue[r]
    BY <1>0, <2>1 DEF Ends, Forwarded, Agreement, TypeOK, StoresTypeOK
  <2>3. StoresTypeOK'
    <3>1. queue' \in [Reservations -> {"none", "main", "dlq", "parking"}]
      BY <1>1, <2>1, EndsTypes DEF Agreement
    <3>2. record' \in [Reservations -> {"none", "unbound", "bound"}]
      BY <2>0 DEF Agreement, TypeOK, StoresTypeOK
    <3>3. owner' \in [Users -> Reservations \cup {None}]
      BY <2>0 DEF Agreement, TypeOK, StoresTypeOK
    <3>4. stock' \in Int /\ qualified' \subseteq Users
      BY <2>0 DEF Agreement, TypeOK, StoresTypeOK
    <3> QED BY <2>0, <3>1, <3>2, <3>3, <3>4 DEF Agreement, TypeOK, StoresTypeOK, dbVars
  <2>4. Local(j)
    BY <2>0, <2>2, BuyersAssumption DEF Local, OwnsSlot, Agreement, TypeOK, StoresTypeOK, dbVars
  <2>5. /\ pc'[t] \in Quiet
        /\ job'[t] = IF pc'[t] = "idle" THEN None ELSE j
        /\ pc'[j] # "start"
        /\ t \in Reservations => t = j
    BY <1>0, <2>1, Own DEF Quiet
  <2>6. ReservationOK(j)'
    <3>1. ReservationOK(j)
      BY DEF Agreement
    <3>2. owner'[u] = None
      BY <1>1, <2>0 DEF Agreement, TypeOK, StoresTypeOK
    <3> QED BY <1>1, <2>0, <2>5, <3>1, <3>2
            DEF ReservationOK, Active, OwnsSlot, Marked, dbVars
  <2>7. ThreadOK(t)'
    BY <1>1, <2>0, <2>5 DEF ThreadOK, At, Quiet, CreateTx
  <2>8. ASSUME NEW t2 \in Threads \ {t}, job[t2] = j
        PROVE  ThreadOK(t2)'
    <3>1. pc'[t2] = pc[t2] /\ job'[t2] = j /\ pc'[j] # "start"
      BY <1>0, <2>1, <2>8, Others DEF Quiet
    <3>2. ThreadOK(t2) /\ ReservationOK(j)
      BY DEF Agreement
    <3> QED BY <1>1, <1>2, <1>4, <2>0, <2>8, <3>1, <3>2
            DEF ThreadOK, At, Traced, Marked, CreateTx, ReservationOK, dbVars
  <2>9. Agreement'
    BY <1>0, <1>1, <2>1, <2>3, <2>4, <2>6, <2>7, <2>8, StepAgreement DEF Quiet
  <2>10. OneCreator'
    BY <2>1, CreatorKept DEF Quiet, CreateTx, Agreement
  <2>11. OwnersOK'
    BY <1>1, <2>0 DEF OwnersOK, Agreement, TypeOK, StoresTypeOK
  <2>12. RedisConservation'
    <3>1. j \in Held /\ Held' = Held \ {j}
      BY <1>1, <2>0, BuyersAssumption DEF Held, Agreement, TypeOK, StoresTypeOK
    <3> QED BY <2>0, <3>1, SlotReturned DEF Agreement, TypeOK, StoresTypeOK
  <2>13. DbConservation'
    BY <2>0 DEF DbConservation, Active, dbVars
  <2> QED BY <2>9, <2>10, <2>11, <2>12, <2>13
<1> QED BY <1>3, <1>4

LEMMA CompleteStep ==
    ASSUME IInv, NEW t \in Threads, Complete(t)
    PROVE  IInv'
<1> USE Parts
<1>0. PICK j \in Reservations : job[t] = j
  BY DEF Complete, At, Agreement, TypeOK, ThreadsTypeOK
<1>1. /\ pc[t] = "complete" /\ j # None /\ delivery[j] = "CREATED" /\ order[j] # "none"
      /\ record' = [record EXCEPT ![j] = IF @ = "bound" THEN "none" ELSE @]
      /\ UNCHANGED <<stock, qualified, owner, closedMark, dbVars>>
  BY <1>0, BuyersAssumption DEF Complete, At, Agreement, ThreadOK, ReservationOK
<1>2. record'[j] = "none"
  BY <1>1 DEF Agreement, TypeOK, StoresTypeOK, ReservationOK
<1>3. Ends(t, Quiet \cup {"ok"})
  BY FinishEnds DEF Complete, Agreement
<1>4. \A r \in Reservations \ {j} : queue'[r] = queue[r]
  BY <1>0, <1>3 DEF Ends, Forwarded, Agreement, TypeOK, StoresTypeOK
<1>5. StoresTypeOK'
  <2>1. queue' \in [Reservations -> {"none", "main", "dlq", "parking"}]
    BY <1>1, <1>3, EndsTypes DEF Agreement
  <2> QED BY <1>1, <2>1 DEF Agreement, TypeOK, StoresTypeOK, dbVars
<1>6. Local(j)
  BY <1>1, <1>4 DEF Local, OwnsSlot, Agreement, TypeOK, StoresTypeOK, dbVars
<1>7. /\ pc'[t] \in Quiet \cup {"ok"}
      /\ job'[t] = IF pc'[t] = "idle" THEN None ELSE j
      /\ pc'[j] # "start"
      /\ t \in Reservations => t = j
  BY <1>0, <1>3, Own DEF Quiet
<1>8. ReservationOK(j)'
  <2>1. ReservationOK(j)
    BY DEF Agreement
  <2> QED BY <1>1, <1>2, <1>7, <2>1 DEF ReservationOK, Active, OwnsSlot, Marked, dbVars
<1>9. ThreadOK(t)'
  BY <1>1, <1>2, <1>7 DEF ThreadOK, At, Quiet, CreateTx, Traced, dbVars
<1>10. ASSUME NEW t2 \in Threads \ {t}, job[t2] = j
       PROVE  ThreadOK(t2)'
  <2>1. pc'[t2] = pc[t2] /\ job'[t2] = j /\ pc'[j] # "start"
    BY <1>0, <1>3, <1>10, Others DEF Quiet
  <2>2. ThreadOK(t2)
    BY DEF Agreement
  <2> QED BY <1>1, <1>2, <1>10, <2>1, <2>2 DEF ThreadOK, At, Traced, Marked, CreateTx, dbVars
<1>11. Agreement'
  BY <1>0, <1>1, <1>3, <1>5, <1>6, <1>8, <1>9, <1>10, StepAgreement DEF Quiet
<1>12. OneCreator'
  BY <1>3, CreatorKept DEF Quiet, CreateTx, Agreement
<1> QED BY <1>1, <1>11, <1>12, SameSlots DEF dbVars

\* Only listeners on the main queue are ever inside a create transaction.
LEMMA NotCreating ==
    ASSUME TypeOK, NEW t \in Threads \ Consumers
    PROVE  pc[t] \notin CreateTx
<1>1. pc[t] \in PCOf(t)
  BY DEF TypeOK, ThreadsTypeOK
<1> QED BY <1>1 DEF PCOf, RequestPC, DeadLetterPC, SchedulerPC, CancelSteps, Answered, CreateTx

LEMMA InsertStep ==
    ASSUME IInv, NEW t \in Consumers, Insert(t)
    PROVE  IInv'
<1> USE Parts
<1>0. PICK j \in Reservations : job[t] = j
  BY DEF Insert, At, Agreement, TypeOK, ThreadsTypeOK, Threads, Workers
<1>1. /\ t \in Threads /\ pc[t] = "insert" /\ j # None
      /\ dbStock > 0 /\ order[j] = "none"
      /\ dbStock' = dbStock - 1
      /\ order' = [order EXCEPT ![j] = "PENDING"]
      /\ delivery' = [delivery EXCEPT ![j] = "CREATED"]
      /\ UNCHANGED <<redisVars, releaseJob>>
  BY <1>0, BuyersAssumption DEF Insert, Insertable, At, Threads, Workers
<1>2. /\ order'[j] = "PENDING" /\ delivery'[j] = "CREATED"
      /\ delivery[j] = "none" /\ record[j] = "bound" /\ owner[UserOf[j]] = j
      /\ UserOf[j] \in qualified
  <2>1. ThreadOK(t)
    BY <1>1 DEF Agreement
  <2>2. delivery[j] = "none" /\ record[j] = "bound" /\ owner[UserOf[j]] = j
    BY <1>0, <1>1, <2>1 DEF ThreadOK, At, CreateTx
  <2>3. UserOf[j] \in qualified
    BY <1>1, <2>2, BuyersAssumption DEF OwnersOK
  <2> QED BY <1>1, <2>2, <2>3 DEF Agreement, TypeOK, StoresTypeOK
<1>3. Ends(t, Quiet \cup {"complete"})
  <2>1. "complete" \in PCOf(t) \ {"idle"}
    BY <1>1, Kinds DEF ConsumerPC, CancelSteps
  <2> QED BY <1>1, <2>1, AnswerEnds DEF Insert, Agreement
<1>4. \A r \in Reservations \ {j} : queue'[r] = queue[r]
  BY <1>0, <1>3 DEF Ends, Forwarded, Agreement, TypeOK, StoresTypeOK
<1>5. StoresTypeOK'
  <2>1. queue' \in [Reservations -> {"none", "main", "dlq", "parking"}]
    BY <1>1, <1>3, EndsTypes DEF Agreement
  <2>2. order' \in [Reservations -> {"none", "PENDING", "EXPIRED", "PAID", "CLOSED"}]
    BY <1>1 DEF Agreement, TypeOK, StoresTypeOK
  <2>3. delivery' \in [Reservations -> {"none", "CREATED", "CANCELLED"}]
    BY <1>1 DEF Agreement, TypeOK, StoresTypeOK
  <2> QED BY <1>1, <2>1, <2>2, <2>3 DEF Agreement, TypeOK, StoresTypeOK, redisVars
<1>6. Local(j)
  BY <1>1, <1>4 DEF Local, OwnsSlot, Agreement, TypeOK, StoresTypeOK, redisVars
<1>7. /\ pc'[t] \in Quiet \cup {"complete"}
      /\ job'[t] = IF pc'[t] = "idle" THEN None ELSE j
      /\ pc'[j] # "start"
      /\ t \notin Reservations
  BY <1>0, <1>1, <1>3, Own, Kinds DEF Quiet, Workers
<1>8. ReservationOK(j)'
  <2>1. ReservationOK(j)
    BY DEF Agreement
  <2> QED BY <1>1, <1>2, <1>7, <2>1 DEF ReservationOK, Active, OwnsSlot, Marked, redisVars
<1>9. ThreadOK(t)'
  BY <1>1, <1>2, <1>7 DEF ThreadOK, At, Quiet, CreateTx, redisVars
<1>10. ASSUME NEW t2 \in Threads \ {t}, job[t2] = j
       PROVE  ThreadOK(t2)'
  <2>1. pc'[t2] = pc[t2] /\ job'[t2] = j /\ pc'[j] # "start"
    BY <1>0, <1>1, <1>3, <1>10, Others DEF Quiet
  <2>2. ThreadOK(t2)
    BY DEF Agreement
  <2>3. pc[t2] \notin CreateTx
    BY <1>0, <1>1, <1>10, NotCreating DEF OneCreator, At, CreateTx, Agreement
  <2> QED BY <1>1, <1>2, <1>10, <2>1, <2>2, <2>3
          DEF ThreadOK, At, Traced, Marked, CreateTx, redisVars
<1>11. Agreement'
  BY <1>0, <1>1, <1>3, <1>5, <1>6, <1>8, <1>9, <1>10, StepAgreement DEF Quiet
<1>12. OneCreator'
  BY <1>1, <1>3, CreatorKept DEF Quiet, CreateTx, Agreement
<1>13. OwnersOK' /\ RedisConservation'
  BY <1>1 DEF OwnersOK, RedisConservation, Held, redisVars
<1>14. DbConservation'
  <2>1. j \notin Active /\ Active' = Active \cup {j}
    BY <1>1, <1>2 DEF Active, Agreement, TypeOK, StoresTypeOK
  <2> QED BY <1>1, <2>1, OrderAdded DEF Agreement, TypeOK, StoresTypeOK
<1> QED BY <1>11, <1>12, <1>13, <1>14

LEMMA CloseReleaseStep ==
    ASSUME IInv, NEW t \in Schedulers, CloseRelease(t)
    PROVE  IInv'
<1> USE Parts
<1>0. PICK j \in Reservations : job[t] = j
  BY DEF CloseRelease, At, Agreement, TypeOK, ThreadsTypeOK, Threads
<1> DEFINE u == UserOf[j]
<1>1. /\ t \in Threads /\ pc[t] = "closeRelease" /\ j # None /\ u \in Users
      /\ owner[u] = j
      /\ stock' = stock + 1
      /\ qualified' = qualified \ {u}
      /\ owner' = [owner EXCEPT ![u] = None]
      /\ closedMark' = closedMark \cup {j}
      /\ UNCHANGED <<record, dbVars>>
  BY <1>0, BuyersAssumption DEF CloseRelease, OwnsSlot, At, Threads
<1>2. /\ order[j] = "CLOSED" /\ delivery[j] = "CREATED"
      /\ owner'[u] = None /\ j \in closedMark'
  BY <1>0, <1>1
     DEF Agreement, TypeOK, StoresTypeOK, ThreadOK, ReservationOK, At
<1>3. Ends(t, Quiet \cup {"closeDone"})
  <2>1. "closeDone" \in PCOf(t) \ {"idle"}
    BY <1>1, Kinds DEF SchedulerPC
  <2> QED BY <1>1, <2>1, AnswerEnds DEF CloseRelease, Agreement
<1>4. queue' = queue
  BY <1>1, <1>3, Kinds DEF Ends, Forwarded
<1>5. StoresTypeOK'
  BY <1>1, <1>4 DEF Agreement, TypeOK, StoresTypeOK, dbVars
<1>6. Local(j)
  BY <1>1, <1>4, BuyersAssumption DEF Local, OwnsSlot, Agreement, TypeOK, StoresTypeOK, dbVars
<1>7. /\ pc'[t] \in Quiet \cup {"closeDone"}
      /\ job'[t] = IF pc'[t] = "idle" THEN None ELSE j
      /\ pc'[j] # "start"
      /\ t \notin Reservations /\ t \notin Workers
  BY <1>0, <1>1, <1>3, Own, Kinds DEF Quiet
<1>8. ReservationOK(j)'
  <2>1. ReservationOK(j)
    BY DEF Agreement
  <2>2. j # t
    BY <1>7
  <2>3. pc'[j] = pc[j]
    BY <1>1, <1>3, <2>2, EndsAt DEF Agreement, Threads
  <2> QED BY <1>1, <1>2, <1>4, <1>7, <2>1, <2>3
          DEF ReservationOK, Active, OwnsSlot, Marked, dbVars
<1>9. ThreadOK(t)'
  BY <1>1, <1>2, <1>7 DEF ThreadOK, At, Quiet, CreateTx, Marked, dbVars
<1>10. ASSUME NEW t2 \in Threads \ {t}, job[t2] = j
       PROVE  ThreadOK(t2)'
  <2>1. pc'[t2] = pc[t2] /\ job'[t2] = j /\ pc'[j] # "start"
    BY <1>0, <1>1, <1>3, <1>10, Others DEF Quiet
  <2>2. ThreadOK(t2)
    BY DEF Agreement
  <2> QED BY <1>1, <1>2, <1>10, <2>1, <2>2
          DEF ThreadOK, At, Traced, Marked, CreateTx, dbVars
<1>11. Agreement'
  BY <1>0, <1>1, <1>3, <1>5, <1>6, <1>8, <1>9, <1>10, StepAgreement DEF Quiet
<1>12. OneCreator'
  BY <1>1, <1>3, CreatorKept DEF Quiet, CreateTx, Agreement
<1>13. OwnersOK'
  BY <1>1 DEF OwnersOK, Agreement, TypeOK, StoresTypeOK
<1>14. RedisConservation'
  <2>1. j \in Held /\ Held' = Held \ {j}
    BY <1>1, <1>2, BuyersAssumption DEF Held, Agreement, TypeOK, StoresTypeOK
  <2> QED BY <1>1, <2>1, SlotReturned DEF Agreement, TypeOK, StoresTypeOK
<1>15. DbConservation'
  BY <1>1 DEF DbConservation, Active, dbVars
<1> QED BY <1>11, <1>12, <1>13, <1>14, <1>15

LEMMA CloseDoneStep ==
    ASSUME IInv, NEW t \in Schedulers, CloseDone(t)
    PROVE  IInv'
<1> USE Parts
<1>0. PICK j \in Reservations : job[t] = j
  BY DEF CloseDone, At, Agreement, TypeOK, ThreadsTypeOK, Threads
<1>1. /\ t \in Threads /\ pc[t] = "closeDone" /\ j # None
      /\ releaseJob' = [releaseJob EXCEPT ![j] = "done"]
      /\ UNCHANGED <<redisVars, dbStock, delivery, order, faults>>
  BY <1>0, BuyersAssumption DEF CloseDone, At, Threads
<1>2. order[j] = "CLOSED" /\ Marked(j) /\ releaseJob'[j] = "done"
  BY <1>0, <1>1 DEF Agreement, TypeOK, StoresTypeOK, ThreadOK, At
<1>3. Ends(t, Quiet)
  BY <1>1, ThrowEnds DEF CloseDone, Agreement, TypeOK, ThreadsTypeOK
<1>4. queue' = queue
  BY <1>1, <1>3, Kinds DEF Ends, Forwarded
<1>5. StoresTypeOK'
  BY <1>1, <1>4 DEF Agreement, TypeOK, StoresTypeOK, redisVars
<1>6. Local(j)
  BY <1>1, <1>4 DEF Local, OwnsSlot, Agreement, TypeOK, StoresTypeOK, redisVars
<1>7. /\ pc'[t] \in Quiet
      /\ job'[t] = IF pc'[t] = "idle" THEN None ELSE j
      /\ pc'[j] # "start"
      /\ t \notin Reservations /\ t \notin Workers
  BY <1>0, <1>1, <1>3, Own, Kinds DEF Quiet
<1>8. ReservationOK(j)'
  <2>1. ReservationOK(j)
    BY DEF Agreement
  <2>2. j # t
    BY <1>7
  <2>3. pc'[j] = pc[j]
    BY <1>1, <1>3, <2>2, EndsAt DEF Agreement, Threads
  <2> QED BY <1>1, <1>2, <1>4, <2>1, <2>3
          DEF ReservationOK, Active, OwnsSlot, Marked, redisVars
<1>9. ThreadOK(t)'
  BY <1>7 DEF ThreadOK, At, Quiet, CreateTx
<1>10. ASSUME NEW t2 \in Threads \ {t}, job[t2] = j
       PROVE  ThreadOK(t2)'
  <2>1. pc'[t2] = pc[t2] /\ job'[t2] = j /\ pc'[j] # "start"
    BY <1>0, <1>1, <1>3, <1>10, Others DEF Quiet
  <2>2. ThreadOK(t2)
    BY DEF Agreement
  <2> QED BY <1>1, <1>10, <2>1, <2>2
          DEF ThreadOK, At, Traced, Marked, CreateTx, redisVars
<1>11. Agreement'
  BY <1>0, <1>1, <1>3, <1>5, <1>6, <1>8, <1>9, <1>10, StepAgreement DEF Quiet
<1>12. OneCreator'
  BY <1>1, <1>3, CreatorKept DEF Quiet, CreateTx, Agreement
<1> QED BY <1>1, <1>11, <1>12, SameSlots DEF redisVars

--------------------------------------------------------------------------------
(* The steps that leave both stores alone.                                 *)

LEMMA QuietKeeps ==
    ASSUME IInv, NEW t \in Threads, pc[t] # "idle", Ends(t, Quiet),
           UNCHANGED <<redisVars, dbVars>>
    PROVE  IInv'
<1> USE Parts
<1>1. Agreement'
  BY QuietStep
<1>2. OneCreator'
  BY CreatorKept DEF Quiet, CreateTx, Agreement
<1> QED BY <1>1, <1>2, SameSlots DEF redisVars, dbVars

\* A refusal by a script, a database constraint or a check of the code.
LEMMA ThrowKeeps ==
    ASSUME IInv, NEW t \in Threads, pc[t] # "idle", Throw(t), faults' \in Nat,
           UNCHANGED <<redisVars, dbVars>>
    PROVE  IInv'
<1>1. Ends(t, Quiet)
  BY ThrowEnds DEF IInv
<1> QED BY <1>1, QuietKeeps

LEMMA GotoKeeps ==
    ASSUME IInv, NEW r \in Reservations, NEW label \in {"fail", "bind"}, Goto(r, label),
           UNCHANGED <<redisVars, dbVars, faults>>
    PROVE  IInv'
<1>1. r \in Threads /\ pc[r] # "idle" /\ label \in PCOf(r) \ {"idle"}
  BY Kinds DEF Threads, IInv, TypeOK, ThreadsTypeOK, RequestPC, CancelSteps, Answered
<1>2. Ends(r, {label})
  BY <1>1, GotoEnds DEF IInv
<1>3. Ends(r, Quiet)
  BY <1>2 DEF Ends, Quiet
<1> QED BY <1>1, <1>3, QuietKeeps

LEMMA ConfirmedStep ==
    ASSUME IInv, NEW r \in Reservations, Confirmed(r)
    PROVE  IInv'
<1> USE Parts
<1>0. /\ r \in Threads /\ r \notin Workers /\ pc[r] = "confirm" /\ job[r] = r
      /\ UNCHANGED <<redisVars, dbVars, faults>>
  BY Kinds DEF Confirmed, At, Threads, Agreement, TypeOK, ThreadsTypeOK
<1>1. Ends(r, {"ok"})
  <2>1. "ok" \in PCOf(r) \ {"idle"}
    BY <1>0, Kinds DEF RequestPC, Answered
  <2> QED BY <1>0, <2>1, GotoEnds DEF Confirmed, Agreement
<1>2. queue' = queue
  BY <1>0, <1>1 DEF Ends, Forwarded
<1>3. StoresTypeOK' /\ Local(r)
  BY <1>0, <1>2 DEF Local, OwnsSlot, Agreement, TypeOK, StoresTypeOK, redisVars, dbVars
<1>4. pc'[r] = "ok" /\ job'[r] = r
  BY <1>0, <1>1, Own
<1>5. ReservationOK(r)'
  <2>1. ReservationOK(r)
    BY DEF Agreement
  <2> QED BY <1>0, <1>2, <1>4, <2>1
          DEF ReservationOK, Active, OwnsSlot, Marked, redisVars, dbVars
<1>6. ThreadOK(r)'
  <2>1. ThreadOK(r)
    BY <1>0 DEF Agreement
  <2> QED BY <1>0, <1>4, <2>1 DEF ThreadOK, At, CreateTx, Traced, redisVars, dbVars
<1>7. ASSUME NEW t2 \in Threads \ {r}, job[t2] = r
      PROVE ThreadOK(t2)'
  <2>1. pc'[t2] = pc[t2] /\ job'[t2] = r /\ pc'[r] # "start"
    BY <1>0, <1>1, <1>7, Others
  <2>2. ThreadOK(t2)
    BY DEF Agreement
  <2> QED BY <1>0, <1>7, <2>1, <2>2 DEF ThreadOK, At, Traced, Marked, redisVars, dbVars
<1>8. Agreement'
  BY <1>0, <1>1, <1>3, <1>5, <1>6, <1>7, StepAgreement
<1>9. OneCreator'
  BY <1>0, <1>1, CreatorKept DEF CreateTx, Agreement
<1> QED BY <1>0, <1>8, <1>9, SameSlots DEF redisVars, dbVars

LEMMA CreateLockStep ==
    ASSUME IInv, NEW t \in Consumers, CreateLock(t)
    PROVE  IInv'
<1> USE Parts
<1>0. PICK j \in Reservations : job[t] = j
  BY DEF CreateLock, At, Agreement, TypeOK, ThreadsTypeOK, Threads, Workers
<1>1. /\ t \in Threads /\ t \notin Reservations /\ pc[t] = "create"
      /\ ~ Locked(j) /\ Goto(t, AfterLock(j)) /\ j # None
      /\ UNCHANGED <<redisVars, dbVars, faults>>
  BY <1>0, Kinds, BuyersAssumption DEF CreateLock, At, Threads, Workers
<1>2. PICK label \in {"complete", "cancel", "checkOwner"} : AfterLock(j) = label
  BY DEF AfterLock
<1>3. Ends(t, {label})
  <2>1. label \in PCOf(t) \ {"idle"}
    BY <1>1, Kinds DEF ConsumerPC, CancelSteps, CreateTx
  <2> QED BY <1>1, <1>2, <2>1, GotoEnds DEF Agreement
<1>4. /\ pc'[t] = label /\ job'[t] = j /\ pc'[j] # "start"
      /\ \A t2 \in Threads \ {t} : pc'[t2] = pc[t2] /\ job'[t2] = job[t2]
  BY <1>0, <1>1, <1>3, Own, EndsAt DEF Agreement
<1>5. ThreadOK(t)'
  <2>1. /\ label = "complete" => delivery[j] = "CREATED"
        /\ label = "checkOwner" => delivery[j] = "none"
    BY <1>2 DEF AfterLock, Agreement, TypeOK, StoresTypeOK
  <2>2. record[j] # "unbound"
    BY <1>0, <1>1 DEF Agreement, ThreadOK, Workers
  <2> QED BY <1>1, <1>4, <2>1, <2>2 DEF ThreadOK, At, CreateTx, redisVars, dbVars
<1>6. Agreement'
  BY <1>1, <1>3, <1>5, ControlStep
<1>7. OneCreator'
  <2>1. Consumers \subseteq Threads
    BY DEF Threads, Workers
  <2> QED BY <1>0, <1>1, <1>4, <2>1 DEF OneCreator, Locked, At
<1> QED BY <1>1, <1>6, <1>7, SameSlots DEF redisVars, dbVars

\* Inside its transaction a listener goes from one read to the next.
LEMMA CreatingStep ==
    ASSUME IInv, NEW t \in Consumers, NEW j \in Reservations, job[t] = j,
           pc[t] \in CreateTx, NEW label \in {"checkBinding", "insert"}, Goto(t, label),
           record[j] = "bound", owner[UserOf[j]] = j,
           UNCHANGED <<redisVars, dbVars, faults>>
    PROVE  IInv'
<1> USE Parts
<1>1. t \in Threads /\ t \notin Reservations /\ pc[t] # "idle" /\ j # None
  BY Kinds, BuyersAssumption DEF Threads, Workers, CreateTx
<1>2. Ends(t, {label})
  <2>1. label \in PCOf(t) \ {"idle"}
    BY <1>1, Kinds DEF ConsumerPC, CreateTx
  <2> QED BY <1>1, <2>1, GotoEnds DEF Agreement
<1>3. pc'[t] = label /\ job'[t] = j /\ pc'[j] # "start"
  BY <1>1, <1>2, Own
<1>4. ThreadOK(t)'
  <2>1. ThreadOK(t)
    BY <1>1 DEF Agreement
  <2> QED BY <1>1, <1>3, <2>1 DEF ThreadOK, At, CreateTx, redisVars, dbVars
<1>5. Agreement'
  BY <1>1, <1>2, <1>4, ControlStep
<1>6. OneCreator'
  BY <1>1, <1>2, CreatorKept DEF Agreement
<1> QED BY <1>5, <1>6, SameSlots DEF redisVars, dbVars

LEMMA CheckOwnerStep ==
    ASSUME IInv, NEW t \in Consumers, CheckOwner(t)
    PROVE  IInv'
<1>1. PICK j \in Reservations : job[t] = j
  BY DEF CheckOwner, At, IInv, TypeOK, ThreadsTypeOK, Threads, Workers
<1>2. pc[t] = "checkOwner" /\ owner[UserOf[j]] = j /\ t \in Threads
  BY <1>1 DEF CheckOwner, At, Threads, Workers
<1>3. ThreadOK(t) /\ ReservationOK(j) /\ j # None
  BY <1>2, BuyersAssumption DEF IInv
<1>4. delivery[j] = "none" /\ record[j] # "unbound"
  BY <1>1, <1>2, <1>3 DEF ThreadOK, At, CreateTx, Workers
<1>5. record[j] = "bound"
  BY <1>2, <1>3, <1>4 DEF ReservationOK, IInv, TypeOK, StoresTypeOK
<1> QED BY <1>1, <1>2, <1>5, CreatingStep DEF CheckOwner, CreateTx

LEMMA CheckBindingStep ==
    ASSUME IInv, NEW t \in Consumers, CheckBinding(t)
    PROVE  IInv'
<1>1. PICK j \in Reservations : job[t] = j
  BY DEF CheckBinding, At, IInv, TypeOK, ThreadsTypeOK, Threads, Workers
<1>2. pc[t] = "checkBinding" /\ t \in Threads
  BY <1>1 DEF CheckBinding, At, Threads, Workers
<1>3. CASE record[j] = "bound"
  <2>1. Goto(t, "insert")
    BY <1>1, <1>3 DEF CheckBinding
  <2>2. owner[UserOf[j]] = j
    BY <1>1, <1>2 DEF IInv, ThreadOK, At
  <2> QED BY <1>1, <1>2, <1>3, <2>1, <2>2, CreatingStep DEF CheckBinding, CreateTx
<1>4. CASE record[j] # "bound"
  <2>1. Throw(t) /\ faults' \in Nat
    BY <1>1, <1>4 DEF CheckBinding, IInv, TypeOK, ThreadsTypeOK
  <2> QED BY <1>2, <2>1, ThrowKeeps DEF CheckBinding
<1> QED BY <1>3, <1>4

LEMMA CloseReleasedStep ==
    ASSUME IInv, NEW t \in Schedulers, CloseReleased(t)
    PROVE  IInv'
<1> USE Parts
<1>0. PICK j \in Reservations : job[t] = j
  BY DEF CloseReleased, At, Agreement, TypeOK, ThreadsTypeOK, Threads
<1>1. /\ t \in Threads /\ t \notin Reservations /\ t \notin Workers /\ pc[t] = "closeRelease"
      /\ Marked(j) /\ j # None /\ Goto(t, "closeDone")
      /\ UNCHANGED <<redisVars, dbVars, faults>>
  BY <1>0, Kinds, BuyersAssumption DEF CloseReleased, At, Threads
<1>2. Ends(t, {"closeDone"})
  <2>1. "closeDone" \in PCOf(t) \ {"idle"}
    BY <1>1, Kinds DEF SchedulerPC
  <2> QED BY <1>1, <2>1, GotoEnds DEF Agreement
<1>3. pc'[t] = "closeDone" /\ job'[t] = j /\ pc'[j] # "start"
  BY <1>0, <1>1, <1>2, Own
<1>4. ThreadOK(t)'
  <2>1. ThreadOK(t)
    BY <1>1 DEF Agreement
  <2> QED BY <1>0, <1>1, <1>3, <2>1
          DEF ThreadOK, At, CreateTx, Marked, redisVars, dbVars
<1>5. Agreement'
  BY <1>1, <1>2, <1>4, ControlStep
<1>6. OneCreator'
  BY <1>1, <1>2, CreatorKept DEF CreateTx, Agreement
<1> QED BY <1>1, <1>5, <1>6, SameSlots DEF redisVars, dbVars

--------------------------------------------------------------------------------
(* Steps from or to idleness, and those of the broker.                     *)

\* A message disappears from its queue or stays; only threads of S, none of them a
\* request, change what they do.
LEMMA BackgroundStep ==
    ASSUME IInv, UNCHANGED <<redisVars, dbVars>>, TypeOK',
           NEW S \in SUBSET (Threads \ Reservations),
           \A t \in Threads \ S : pc'[t] = pc[t] /\ job'[t] = job[t],
           \A r \in Reservations : queue'[r] \in {queue[r], "none"},
           \A t \in S : ThreadOK(t)' /\ pc'[t] \notin CreateTx
    PROVE  IInv'
<1> USE Parts
<1>1. ASSUME NEW r \in Reservations PROVE ReservationOK(r)'
  <2>1. ReservationOK(r)
    BY DEF Agreement
  <2>2. pc'[r] = pc[r] /\ queue'[r] \in {queue[r], "none"}
    BY DEF Threads
  <2> QED BY <2>1, <2>2 DEF ReservationOK, Active, OwnsSlot, Marked, redisVars, dbVars
<1>2. ASSUME NEW t \in Threads PROVE ThreadOK(t)'
  <2>1. CASE t \in S
    BY <2>1
  <2>2. CASE t \notin S
    <3>1. /\ pc'[t] = pc[t] /\ job'[t] = job[t]
          /\ job[t] # None => pc'[job[t]] = pc[job[t]]
      BY <2>2 DEF Agreement, TypeOK, ThreadsTypeOK, Threads
    <3>2. ThreadOK(t)
      BY DEF Agreement
    <3> QED BY <3>1, <3>2 DEF ThreadOK, At, Traced, Marked, redisVars, dbVars
  <2> QED BY <2>1, <2>2
<1>3. OneCreator'
  <2>1. Consumers \subseteq Threads
    BY DEF Threads, Workers
  <2> QED BY <2>1 DEF OneCreator, At
<1> QED BY <1>1, <1>2, <1>3, SameSlots DEF Agreement, redisVars, dbVars

\* What a task or a delivered message finds is not a request that has yet to begin.
LEMMA Begun ==
    ASSUME IInv, NEW r \in Reservations,
           record[r] # "none" \/ order[r] # "none" \/ queue[r] # "none"
    PROVE  pc[r] # "start"
BY DEF IInv, ReservationOK

\* An idle thread takes up reservation r at a label.
LEMMA TakenUp ==
    ASSUME IInv, NEW t \in Threads \ Reservations, NEW r \in Reservations,
           NEW label \in {"create", "cancel", "releaseUnbound", "closeRelease"},
           label \in PCOf(t),
           pc' = [pc EXCEPT ![t] = label], job' = [job EXCEPT ![t] = r],
           UNCHANGED <<redisVars, dbVars, queue, tries, faults>>,
           live' \in [Workers -> BOOLEAN],
           pc[r] # "start",
           t \in Workers => record[r] # "unbound",
           label = "closeRelease" => order[r] = "CLOSED"
    PROVE  IInv'
<1> USE Parts
<1>1. /\ pc \in [Threads -> RequestPC \cup ConsumerPC \cup DeadLetterPC \cup SchedulerPC]
      /\ job \in [Threads -> Reservations \cup {None}]
      /\ label \in RequestPC \cup ConsumerPC \cup DeadLetterPC \cup SchedulerPC
      /\ r # None /\ r # t
  BY BuyersAssumption DEF Agreement, TypeOK, ThreadsTypeOK, PCOf
<1>2. /\ pc'[t] = label /\ job'[t] = r
      /\ \A t2 \in Threads \ {t} : pc'[t2] = pc[t2] /\ job'[t2] = job[t2]
  BY <1>1
<1>3. ThreadsTypeOK'
  <2>1. /\ pc' \in [Threads -> RequestPC \cup ConsumerPC \cup DeadLetterPC \cup SchedulerPC]
        /\ job' \in [Threads -> Reservations \cup {None}]
    BY <1>1
  <2>2. ASSUME NEW t2 \in Threads
        PROVE  /\ pc'[t2] \in PCOf(t2)
               /\ job'[t2] = None <=> pc'[t2] = "idle"
               /\ t2 \in Reservations => job'[t2] = t2
    <3>1. CASE t2 = t
      BY <1>1, <1>2, <3>1
    <3>2. CASE t2 # t
      BY <1>2, <3>2 DEF Agreement, TypeOK, ThreadsTypeOK
    <3> QED BY <3>1, <3>2
  <2> QED BY <2>1, <2>2 DEF ThreadsTypeOK, Agreement, TypeOK, PCOf
<1>4. TypeOK'
  BY <1>3 DEF Agreement, TypeOK, StoresTypeOK, redisVars, dbVars
<1>5. pc'[r] = pc[r]
  BY <1>1, <1>2 DEF Threads
<1>6. ThreadOK(t)' /\ pc'[t] \notin CreateTx
  BY <1>2, <1>5 DEF ThreadOK, At, CreateTx, redisVars, dbVars
<1>7. /\ {t} \in SUBSET (Threads \ Reservations)
      /\ \A t2 \in {t} : ThreadOK(t2)' /\ pc'[t2] \notin CreateTx
      /\ \A r2 \in Reservations : queue'[r2] \in {queue[r2], "none"}
  BY <1>6
<1> QED BY <1>2, <1>4, <1>7, BackgroundStep

LEMMA DeliverStep ==
    ASSUME IInv, NEW t \in Workers, NEW r \in Reservations, Deliver(t, r)
    PROVE  IInv'
<1>1. t \in Threads \ Reservations
  BY Kinds DEF Threads
<1>2. EntryPC(t) \in {"create", "cancel"} \cap PCOf(t)
  BY <1>1, Kinds DEF EntryPC, Workers, ConsumerPC, DeadLetterPC, CancelSteps
<1>3. queue[r] # "none"
  BY DEF Deliver, Source
<1>4. pc[r] # "start" /\ record[r] # "unbound"
  BY <1>3, Begun DEF IInv, ReservationOK
<1>5. live' \in [Workers -> BOOLEAN]
  BY DEF Deliver, IInv, TypeOK, ThreadsTypeOK
<1> QED BY <1>1, <1>2, <1>4, <1>5, TakenUp DEF Deliver

LEMMA RecoverReadStep ==
    ASSUME IInv, NEW t \in Schedulers, NEW r \in Reservations, RecoverRead(t, r)
    PROVE  IInv'
<1>1. t \in Threads \ Reservations /\ t \notin Workers
  BY Kinds DEF Threads
<1> DEFINE label == IF record[r] = "unbound" THEN "releaseUnbound" ELSE "cancel"
<1>2. label \in {"releaseUnbound", "cancel"} \cap PCOf(t)
  BY <1>1, Kinds DEF SchedulerPC, CancelSteps
<1>3. pc[r] # "start"
  BY Begun DEF RecoverRead, Overdue
<1>4. live' \in [Workers -> BOOLEAN]
  BY DEF RecoverRead, Take, IInv, TypeOK, ThreadsTypeOK
<1>5. /\ pc' = [pc EXCEPT ![t] = label] /\ job' = [job EXCEPT ![t] = r]
      /\ UNCHANGED <<redisVars, dbVars, queue, tries, faults>>
  BY DEF RecoverRead, Take
<1> HIDE DEF label
<1> QED BY <1>1, <1>2, <1>3, <1>4, <1>5, TakenUp

LEMMA PickReleaseStep ==
    ASSUME IInv, NEW t \in Schedulers, NEW r \in Reservations, PickRelease(t, r)
    PROVE  IInv'
<1>1. t \in Threads \ Reservations /\ t \notin Workers
  BY Kinds DEF Threads
<1>2. "closeRelease" \in PCOf(t)
  BY <1>1, Kinds DEF SchedulerPC
<1>3. order[r] = "CLOSED"
  BY DEF PickRelease, IInv, ReservationOK
<1>4. pc[r] # "start"
  BY <1>3, Begun
<1>5. live' \in [Workers -> BOOLEAN]
  BY DEF PickRelease, Take, IInv, TypeOK, ThreadsTypeOK
<1> QED BY <1>1, <1>2, <1>3, <1>4, <1>5, TakenUp DEF PickRelease, Take

LEMMA AckStep ==
    ASSUME IInv, NEW t \in Workers, Ack(t)
    PROVE  IInv'
<1> USE Parts
<1>0. t \in Threads \ Reservations
  BY Kinds DEF Threads
<1>1. /\ pc \in [Threads -> RequestPC \cup ConsumerPC \cup DeadLetterPC \cup SchedulerPC]
      /\ job \in [Threads -> Reservations \cup {None}]
      /\ tries \in [Workers -> Nat] /\ live \in [Workers -> BOOLEAN] /\ faults \in Nat
      /\ queue \in [Reservations -> {"none", "main", "dlq", "parking"}]
  BY DEF Agreement, TypeOK, ThreadsTypeOK, StoresTypeOK
<1>2. /\ pc'[t] = "idle" /\ job'[t] = None
      /\ \A t2 \in Threads \ {t} : pc'[t2] = pc[t2] /\ job'[t2] = job[t2]
      /\ pc' = [pc EXCEPT ![t] = "idle"] /\ job' = [job EXCEPT ![t] = None]
  BY <1>0, <1>1 DEF Ack, GoIdle
<1>3. "idle" \in PCOf(t)
  BY <1>0, Kinds DEF Workers, ConsumerPC, DeadLetterPC
<1>4. ThreadsTypeOK'
  <2>1. /\ pc' \in [Threads -> RequestPC \cup ConsumerPC \cup DeadLetterPC \cup SchedulerPC]
        /\ job' \in [Threads -> Reservations \cup {None}]
    BY <1>1, <1>2 DEF ConsumerPC
  <2>2. ASSUME NEW t2 \in Threads
        PROVE  /\ pc'[t2] \in PCOf(t2)
               /\ job'[t2] = None <=> pc'[t2] = "idle"
               /\ t2 \in Reservations => job'[t2] = t2
    <3>1. CASE t2 = t
      BY <1>0, <1>2, <1>3, <3>1
    <3>2. CASE t2 # t
      BY <1>2, <3>2 DEF Agreement, TypeOK, ThreadsTypeOK
    <3> QED BY <3>1, <3>2
  <2>3. tries' \in [Workers -> Nat] /\ live' \in [Workers -> BOOLEAN] /\ faults' \in Nat
    BY <1>1 DEF Ack
  <2> QED BY <2>1, <2>2, <2>3 DEF ThreadsTypeOK, PCOf
<1>5. /\ queue' \in [Reservations -> {"none", "main", "dlq", "parking"}]
      /\ \A r \in Reservations : queue'[r] \in {queue[r], "none"}
  BY <1>1 DEF Ack
<1>6. TypeOK'
  BY <1>4, <1>5 DEF Ack, Agreement, TypeOK, StoresTypeOK, redisVars, dbVars
<1>7. /\ {t} \in SUBSET (Threads \ Reservations)
      /\ \A t2 \in {t} : ThreadOK(t2)' /\ pc'[t2] \notin CreateTx
  BY <1>0, <1>2 DEF ThreadOK, At, CreateTx
<1>8. UNCHANGED <<redisVars, dbVars>>
  BY DEF Ack
<1> QED BY <1>2, <1>5, <1>6, <1>7, <1>8, BackgroundStep

LEMMA ConnectionLostStep ==
    ASSUME IInv, NEW w \in Workers, ConnectionLost(w)
    PROVE  IInv'
<1>1. TypeOK'
  BY FaultType DEF ConnectionLost, IInv, TypeOK, ThreadsTypeOK, StoresTypeOK,
                   redisVars, dbVars, PCOf
<1>2. \A r \in Reservations : queue'[r] \in {queue[r], "none"}
  BY DEF ConnectionLost
<1>3. /\ {} \in SUBSET (Threads \ Reservations)
      /\ \A t \in Threads \ {} : pc'[t] = pc[t] /\ job'[t] = job[t]
      /\ \A t \in {} : ThreadOK(t)' /\ pc'[t] \notin CreateTx
      /\ UNCHANGED <<redisVars, dbVars>>
  BY DEF ConnectionLost
<1> QED BY <1>1, <1>2, <1>3, BackgroundStep

LEMMA DeadLetterLostStep ==
    ASSUME IInv, NEW r \in Reservations, DeadLetterLost(r)
    PROVE  IInv'
<1>1. /\ queue' \in [Reservations -> {"none", "main", "dlq", "parking"}]
      /\ \A r2 \in Reservations : queue'[r2] \in {queue[r2], "none"}
  BY DEF DeadLetterLost, IInv, TypeOK, StoresTypeOK
<1>2. ThreadsTypeOK'
  BY FaultType DEF DeadLetterLost, IInv, TypeOK, ThreadsTypeOK, threadVars, PCOf
<1>3. TypeOK'
  BY <1>1, <1>2 DEF DeadLetterLost, IInv, TypeOK, StoresTypeOK, redisVars, dbVars
<1>4. /\ {} \in SUBSET (Threads \ Reservations)
      /\ \A t \in Threads \ {} : pc'[t] = pc[t] /\ job'[t] = job[t]
      /\ \A t \in {} : ThreadOK(t)' /\ pc'[t] \notin CreateTx
      /\ UNCHANGED <<redisVars, dbVars>>
  BY DEF DeadLetterLost, threadVars
<1> QED BY <1>1, <1>3, <1>4, BackgroundStep

LEMMA PublishStep ==
    ASSUME IInv, NEW j \in Reservations, Publish(j)
    PROVE  IInv'
<1> USE Parts
<1>0. /\ j \in Threads /\ pc[j] = "publish" /\ job[j] = j
      /\ queue' = [queue EXCEPT ![j] = "main"]
      /\ pc' = [pc EXCEPT ![j] = "confirm"]
      /\ UNCHANGED <<redisVars, dbVars, job, tries, live, faults>>
  BY DEF Publish, At, Threads, Agreement, TypeOK, ThreadsTypeOK
<1>1. /\ pc'[j] = "confirm"
      /\ \A t \in Threads \ {j} : pc'[t] = pc[t]
  BY <1>0 DEF Agreement, TypeOK, ThreadsTypeOK
<1>2. StoresTypeOK' /\ Local(j)
  BY <1>0 DEF Local, OwnsSlot, Agreement, TypeOK, StoresTypeOK, redisVars, dbVars
<1>3. ThreadsTypeOK'
  <2>1. "confirm" \in PCOf(j)
    BY <1>0, Kinds DEF RequestPC
  <2>2. pc' \in [Threads -> RequestPC \cup ConsumerPC \cup DeadLetterPC \cup SchedulerPC]
    BY <1>0 DEF Agreement, TypeOK, ThreadsTypeOK, RequestPC
  <2>3. ASSUME NEW t \in Threads
        PROVE  /\ pc'[t] \in PCOf(t)
               /\ job'[t] = None <=> pc'[t] = "idle"
               /\ t \in Reservations => job'[t] = t
    <3>1. CASE t = j
      BY <1>0, <1>1, <2>1, <3>1, BuyersAssumption
    <3>2. CASE t # j
      BY <1>0, <1>1, <3>2 DEF Agreement, TypeOK, ThreadsTypeOK
    <3> QED BY <3>1, <3>2
  <2> QED BY <1>0, <2>2, <2>3 DEF Agreement, TypeOK, ThreadsTypeOK, PCOf
<1>4. ASSUME NEW r \in Reservations PROVE ReservationOK(r)'
  <2>1. ReservationOK(r)
    BY DEF Agreement
  <2>2. CASE r = j
    BY <1>0, <1>1, <2>1, <2>2
       DEF ReservationOK, Active, OwnsSlot, Marked, redisVars, dbVars
  <2>3. CASE r # j
    BY <1>1, <1>2, <2>1, <2>3, FrameReservation DEF Threads
  <2> QED BY <2>2, <2>3
<1>5. ASSUME NEW t \in Threads PROVE ThreadOK(t)'
  <2>1. ThreadOK(t)
    BY DEF Agreement
  <2>2. CASE t = j
    BY <1>0, <1>1, <2>1, <2>2 DEF ThreadOK, At, CreateTx, Traced, redisVars, dbVars
  <2>3. CASE t # j
    <3>1. job[t] # None => pc'[job[t]] # "start" \/ pc'[job[t]] = pc[job[t]]
      BY <1>1 DEF Agreement, TypeOK, ThreadsTypeOK, Threads
    <3> QED BY <1>0, <1>1, <2>1, <2>3, <3>1
            DEF ThreadOK, At, Marked, Traced, redisVars, dbVars
  <2> QED BY <2>2, <2>3
<1>6. OneCreator'
  <2>1. Consumers \subseteq Threads \ {j}
    BY Kinds DEF Threads, Workers
  <2> QED BY <1>0, <1>1, <2>1 DEF OneCreator, At
<1> QED BY <1>0, <1>2, <1>3, <1>4, <1>5, <1>6, SameSlots
        DEF Agreement, TypeOK, redisVars, dbVars

\* Every thread that was at work forgets what it did.
LEMMA CrashStep ==
    ASSUME IInv, Crash
    PROVE  IInv'
<1> USE Parts
<1>0. /\ pc' = [t \in Threads |->
                 IF t \notin Reservations THEN "idle"
                 ELSE IF At(t, Answered \cup {"start"}) THEN pc[t] ELSE "error"]
      /\ job' = [t \in Threads |-> IF t \in Reservations THEN t ELSE None]
      /\ UNCHANGED <<redisVars, dbVars, queue>>
  BY DEF Crash
<1>1. ASSUME NEW t \in Threads
      PROVE  /\ t \notin Reservations => pc'[t] = "idle" /\ job'[t] = None
             /\ t \in Reservations => job'[t] = t
             /\ t \in Reservations /\ pc'[t] = pc[t] => pc[t] \in Answered \cup {"start"}
             /\ t \in Reservations /\ pc'[t] # pc[t] => pc'[t] = "error"
  BY <1>0 DEF At, Answered
<1>2. TypeOK'
  <2>1. ASSUME NEW t \in Threads
        PROVE  /\ pc'[t] \in PCOf(t)
               /\ job'[t] = None <=> pc'[t] = "idle"
               /\ t \in Reservations => job'[t] = t
    <3>1. CASE t \in Reservations
      BY <1>1, <3>1, Kinds, BuyersAssumption DEF RequestPC, Answered
    <3>2. CASE t \notin Reservations
      BY <1>1, <3>2, Kinds DEF Threads, Workers, ConsumerPC, DeadLetterPC, SchedulerPC
    <3> QED BY <3>1, <3>2
  <2>2. pc' \in [Threads -> RequestPC \cup ConsumerPC \cup DeadLetterPC \cup SchedulerPC]
    BY <1>0, <2>1 DEF PCOf
  <2>3. job' \in [Threads -> Reservations \cup {None}]
    BY <1>0
  <2>4. tries' \in [Workers -> Nat] /\ live' \in [Workers -> BOOLEAN] /\ faults' \in Nat
    BY FaultType DEF Crash, Agreement
  <2>5. ThreadsTypeOK'
    BY <2>1, <2>2, <2>3, <2>4 DEF ThreadsTypeOK, PCOf
  <2> QED BY <1>0, <2>5 DEF Agreement, TypeOK, StoresTypeOK, redisVars, dbVars
<1>3. ASSUME NEW r \in Reservations PROVE ReservationOK(r)'
  <2>1. /\ pc'[r] = "start" => pc[r] = "start"
        /\ pc'[r] \in {"publish", "confirm", "ok"} => pc[r] = pc'[r]
    BY <1>1 DEF Threads
  <2>2. ReservationOK(r)
    BY DEF Agreement
  <2> QED BY <1>0, <2>1, <2>2 DEF ReservationOK, Active, OwnsSlot, Marked, redisVars, dbVars
<1>4. ASSUME NEW t \in Threads PROVE ThreadOK(t)'
  <2>1. CASE t \in Reservations
    <3>1. ThreadOK(t) /\ job[t] = t /\ job'[t] = t /\ t \notin Workers
      BY <1>1, <2>1, Kinds DEF Agreement, TypeOK, ThreadsTypeOK
    <3> QED BY <1>0, <1>1, <2>1, <3>1
            DEF ThreadOK, At, CreateTx, Answered, Traced, redisVars, dbVars
  <2>2. CASE t \notin Reservations
    BY <1>1, <2>2 DEF ThreadOK, At, CreateTx
  <2> QED BY <2>1, <2>2
<1>5. OneCreator'
  <2>1. \A w \in Consumers : pc'[w] = "idle"
    BY <1>1, Kinds DEF Threads, Workers
  <2> QED BY <2>1 DEF OneCreator, At, CreateTx
<1> QED BY <1>0, <1>2, <1>3, <1>4, <1>5, SameSlots DEF Agreement, redisVars, dbVars

--------------------------------------------------------------------------------
(* Steps of no thread: the close transaction, the clock and payment.       *)

LEMMA CloseOrderStep ==
    ASSUME IInv, NEW s \in Schedulers, NEW j \in Reservations, CloseOrder(s, j)
    PROVE  IInv'
<1> USE Parts
<1>0. /\ order[j] = "EXPIRED" /\ UserOf[j] \in Users
      /\ order' = [order EXCEPT ![j] = "CLOSED"] /\ order'[j] = "CLOSED"
      /\ dbStock' = dbStock + 1
      /\ releaseJob' = [releaseJob EXCEPT ![j] = "todo"] /\ releaseJob'[j] = "todo"
      /\ UNCHANGED <<redisVars, delivery, queue, threadVars, faults>>
  BY BuyersAssumption DEF CloseOrder, Closable, Agreement, TypeOK, StoresTypeOK
<1>1. StoresTypeOK'
  <2>1. order' \in [Reservations -> {"none", "PENDING", "EXPIRED", "PAID", "CLOSED"}]
    BY <1>0 DEF Agreement, TypeOK, StoresTypeOK
  <2>2. releaseJob' \in [Reservations -> {"none", "todo", "done"}]
    BY <1>0 DEF Agreement, TypeOK, StoresTypeOK
  <2> QED BY <1>0, <2>1, <2>2 DEF Agreement, TypeOK, StoresTypeOK, redisVars
<1>2. Local(j)
  BY <1>0 DEF Local, OwnsSlot, Agreement, TypeOK, StoresTypeOK, redisVars
<1>3. ReservationOK(j)'
  <2>1. ReservationOK(j)
    BY DEF Agreement
  <2> QED BY <1>0, <2>1
          DEF ReservationOK, Active, OwnsSlot, Marked, redisVars, threadVars
<1>4. ASSUME NEW t \in Threads, job[t] = j PROVE ThreadOK(t)'
  <2>1. ThreadOK(t)
    BY DEF Agreement
  <2> QED BY <1>0, <1>4, <2>1
          DEF ThreadOK, At, Traced, Marked, CreateTx, redisVars, threadVars
<1>5. Agreement'
  BY <1>0, <1>1, <1>2, <1>3, <1>4, StoreAgreement
<1>6. OwnersOK' /\ RedisConservation' /\ OneCreator'
  BY <1>0 DEF OwnersOK, RedisConservation, Held, OneCreator, At, redisVars, threadVars
<1>7. DbConservation'
  <2>1. j \in Active /\ Active' = Active \ {j}
    BY <1>0 DEF Active, Agreement, TypeOK, StoresTypeOK
  <2> QED BY <1>0, <2>1, OrderRemoved DEF Agreement, TypeOK, StoresTypeOK
<1> QED BY <1>5, <1>6, <1>7

LEMMA StatusStep ==
    ASSUME IInv, NEW j \in Reservations, Expire(j) \/ Pay(j)
    PROVE  IInv'
<1> USE Parts
<1>0. PICK status \in {"EXPIRED", "PAID"} :
        /\ order[j] = "PENDING"
        /\ order' = [order EXCEPT ![j] = status] /\ order'[j] = status
        /\ UNCHANGED <<redisVars, dbStock, delivery, releaseJob, queue, threadVars, faults>>
  BY DEF Expire, Pay, Agreement, TypeOK, StoresTypeOK
<1>1. StoresTypeOK'
  BY <1>0 DEF Agreement, TypeOK, StoresTypeOK, redisVars
<1>2. Local(j)
  BY <1>0 DEF Local, OwnsSlot, Agreement, TypeOK, StoresTypeOK, redisVars
<1>3. ReservationOK(j)'
  <2>1. ReservationOK(j)
    BY DEF Agreement
  <2> QED BY <1>0, <2>1
          DEF ReservationOK, Active, OwnsSlot, Marked, redisVars, threadVars
<1>4. ASSUME NEW t \in Threads, job[t] = j PROVE ThreadOK(t)'
  <2>1. ThreadOK(t)
    BY DEF Agreement
  <2> QED BY <1>0, <1>4, <2>1
          DEF ThreadOK, At, Traced, Marked, CreateTx, redisVars, threadVars
<1>5. Agreement'
  BY <1>0, <1>1, <1>2, <1>3, <1>4, StoreAgreement
<1>6. OwnersOK' /\ RedisConservation' /\ OneCreator'
  BY <1>0 DEF OwnersOK, RedisConservation, Held, OneCreator, At, redisVars, threadVars
<1>7. DbConservation'
  <2>1. Active' = Active
    BY <1>0 DEF Active, Agreement, TypeOK, StoresTypeOK
  <2> QED BY <1>0, <2>1 DEF DbConservation
<1> QED BY <1>5, <1>6, <1>7

--------------------------------------------------------------------------------
(* The invariant.                                                          *)

LEMMA RequestStep ==
    ASSUME IInv, NEW r \in Reservations, Request(r)
    PROVE  IInv'
<1>1. r \in Threads /\ faults' = faults => faults' \in Nat
  BY DEF IInv, TypeOK, ThreadsTypeOK
<1>2. CASE Number(r)
  BY <1>2, GotoKeeps DEF Number
<1>3. CASE Bind(r)
  BY <1>3, BindStep
<1>4. CASE BindStale(r)
  BY <1>4, GotoKeeps DEF BindStale
<1>5. CASE Publish(r)
  BY <1>5, PublishStep
<1>6. CASE Confirmed(r)
  BY <1>6, ConfirmedStep
<1>7. CASE ConfirmTimeout(r)
  <2>1. r \in Threads /\ pc[r] # "idle" /\ faults' \in Nat
    BY <1>1, <1>7 DEF ConfirmTimeout, At, Threads
  <2> QED BY <1>7, <2>1, ThrowKeeps DEF ConfirmTimeout
<1> QED BY <1>2, <1>3, <1>4, <1>5, <1>6, <1>7 DEF Request

LEMMA ListenerStep ==
    ASSUME IInv, NEW w \in Workers, Listener(w)
    PROVE  IInv'
<1>1. w \in Threads /\ (faults' = faults => faults' \in Nat)
  BY DEF IInv, TypeOK, ThreadsTypeOK, Threads
<1>2. pc[w] \in {"create", "checkOwner", "checkBinding", "insert"} => w \in Consumers
  BY <1>1, Kinds DEF IInv, TypeOK, ThreadsTypeOK, Workers, DeadLetterPC, CancelSteps
<1>3. CASE \E r \in Reservations : Deliver(w, r)
  BY <1>3, DeliverStep
<1>4. CASE CreateLock(w)
  BY <1>2, <1>4, CreateLockStep DEF CreateLock, At
<1>5. CASE CheckOwner(w)
  BY <1>2, <1>5, CheckOwnerStep DEF CheckOwner, At
<1>6. CASE CheckOwnerRefused(w)
  <2>1. pc[w] # "idle" /\ faults' \in Nat
    BY <1>1, <1>6 DEF CheckOwnerRefused, At
  <2> QED BY <1>1, <1>6, <2>1, ThrowKeeps DEF CheckOwnerRefused
<1>7. CASE CheckBinding(w)
  BY <1>2, <1>7, CheckBindingStep DEF CheckBinding, At
<1>8. CASE Insert(w)
  BY <1>2, <1>8, InsertStep DEF Insert, At
<1>9. CASE InsertRefused(w)
  <2>1. pc[w] # "idle" /\ faults' \in Nat
    BY <1>1, <1>9 DEF InsertRefused, At
  <2> QED BY <1>1, <1>9, <2>1, ThrowKeeps DEF InsertRefused
<1>10. CASE Ack(w)
  BY <1>10, AckStep
<1> QED BY <1>3, <1>4, <1>5, <1>6, <1>7, <1>8, <1>9, <1>10 DEF Listener

LEMMA TaskStep ==
    ASSUME IInv, NEW s \in Schedulers, Task(s)
    PROVE  IInv'
<1>1. s \in Threads /\ (faults' = faults => faults' \in Nat)
  BY DEF IInv, TypeOK, ThreadsTypeOK, Threads
<1>2. CASE \E r \in Reservations : RecoverRead(s, r) \/ CloseOrder(s, r) \/ PickRelease(s, r)
  BY <1>2, RecoverReadStep, CloseOrderStep, PickReleaseStep
<1>3. CASE CloseRelease(s)
  BY <1>3, CloseReleaseStep
<1>4. CASE CloseReleased(s)
  BY <1>4, CloseReleasedStep
<1>5. CASE CloseRefused(s)
  <2>1. pc[s] # "idle" /\ faults' \in Nat
    BY <1>1, <1>5 DEF CloseRefused, At
  <2> QED BY <1>1, <1>5, <2>1, ThrowKeeps DEF CloseRefused
<1>6. CASE CloseDone(s)
  BY <1>6, CloseDoneStep
<1> QED BY <1>2, <1>3, <1>4, <1>5, <1>6 DEF Task

LEMMA CompensationStep ==
    ASSUME IInv, NEW t \in Threads, Compensation(t)
    PROVE  IInv'
<1>1. CASE CancelTx(t)
  BY <1>1, CancelStep
<1>2. CASE Release(t)
  BY <1>2, ReleaseStep
<1>3. CASE ReleaseRefused(t)
  <2>1. pc[t] # "idle" /\ faults' \in Nat
    BY <1>3 DEF ReleaseRefused, At, IInv, TypeOK, ThreadsTypeOK
  <2> QED BY <1>3, <2>1, ThrowKeeps DEF ReleaseRefused
<1>4. CASE Complete(t)
  BY <1>4, CompleteStep
<1> QED BY <1>1, <1>2, <1>3, <1>4 DEF Compensation

LEMMA FailsStep ==
    ASSUME IInv, NEW t \in Threads, Fails(t)
    PROVE  IInv'
<1>1. pc[t] # "idle" /\ faults' \in Nat
  BY FaultType DEF Fails, At, Answered, IInv
<1> QED BY <1>1, ThrowKeeps DEF Fails

LEMMA InitIInv ==
    ASSUME Init
    PROVE  IInv
<1> USE DEF Init
<1>1. TypeOK
  <2>1. StoresTypeOK
    BY StockAssumption DEF StoresTypeOK
  <2>2. ASSUME NEW t \in Threads
        PROVE  /\ pc[t] \in PCOf(t)
               /\ job[t] = None <=> pc[t] = "idle"
               /\ t \in Reservations => job[t] = t
    <3>1. CASE t \in Reservations
      BY <3>1, Kinds, BuyersAssumption DEF RequestPC
    <3>2. CASE t \notin Reservations
      BY <3>2, Kinds DEF Threads, Workers, ConsumerPC, DeadLetterPC, SchedulerPC
    <3> QED BY <3>1, <3>2
  <2>3. pc \in [Threads -> RequestPC \cup ConsumerPC \cup DeadLetterPC \cup SchedulerPC]
    BY DEF RequestPC, ConsumerPC
  <2>4. ThreadsTypeOK
    BY <2>2, <2>3 DEF ThreadsTypeOK
  <2> QED BY <2>1, <2>4 DEF TypeOK
<1>2. \A r \in Reservations : owner[UserOf[r]] = None /\ r # None
  BY BuyersAssumption
<1>3. OwnersOK /\ \A r \in Reservations : ReservationOK(r)
  BY <1>2 DEF OwnersOK, ReservationOK, Active, Marked
<1>4. \A t \in Threads : ThreadOK(t)
  BY Kinds DEF ThreadOK, At, CreateTx
<1>5. OneCreator
  BY DEF OneCreator, At, CreateTx, Threads, Workers
<1>6. Held = {} /\ Active = {}
  BY <1>2 DEF Held, Active
<1>7. Cardinality({}) = 0
  BY FS_EmptySet
<1>8. RedisConservation /\ DbConservation
  BY <1>6, <1>7, StockAssumption DEF RedisConservation, DbConservation
<1> QED BY <1>1, <1>3, <1>4, <1>5, <1>8 DEF IInv

LEMMA NextIInv ==
    ASSUME IInv, [Next]_vars
    PROVE  IInv'
<1>1. ASSUME NEW r \in Reservations, ReserveRefused(r) PROVE IInv'
  BY <1>1, GotoKeeps DEF ReserveRefused
<1>2. ASSUME NEW t \in Threads, Work(t) PROVE IInv'
  BY <1>2, RequestStep, ListenerStep, TaskStep, CompensationStep DEF Work
<1>3. CASE UNCHANGED vars
  <2>1. TypeOK'
    BY <1>3 DEF vars, redisVars, dbVars, threadVars, IInv, TypeOK, StoresTypeOK,
                ThreadsTypeOK, PCOf
  <2>2. /\ {} \in SUBSET (Threads \ Reservations)
        /\ \A t \in Threads \ {} : pc'[t] = pc[t] /\ job'[t] = job[t]
        /\ \A t \in {} : ThreadOK(t)' /\ pc'[t] \notin CreateTx
        /\ \A r \in Reservations : queue'[r] \in {queue[r], "none"}
        /\ UNCHANGED <<redisVars, dbVars>>
    BY <1>3 DEF vars, threadVars
  <2> QED BY <2>1, <2>2, BackgroundStep
<1> QED BY <1>1, <1>2, <1>3, ReserveStep, StatusStep, DeadLetterLostStep, FailsStep,
           ConnectionLostStep, CrashStep DEF Next

\* In every reachable state the stores agree with each other and with what every
\* thread has read of them: each step of the request, the listeners, the tasks and
\* the broker preserves it, whatever fails and however the threads interleave.
THEOREM Invariance == Spec => []IInv
<1>1. Init => IInv
  BY InitIInv
<1>2. IInv /\ [Next]_vars => IInv'
  BY NextIInv
<1> QED BY <1>1, <1>2, PTL DEF Spec

--------------------------------------------------------------------------------
(* What follows from it.                                                   *)

\* The variables stay within their ranges and the threads at their own labels.
THEOREM TypeCorrect == Spec => []TypeOK
<1>1. IInv => TypeOK
  BY DEF IInv
<1> QED BY <1>1, Invariance, PTL

\* Redis: every unit is in stock or held by exactly one reservation.
THEOREM RedisConserved == Spec => []RedisConservation
<1>1. IInv => RedisConservation
  BY DEF IInv
<1> QED BY <1>1, Invariance, PTL

\* MySQL: every unit is in stock or sold to exactly one order; no oversell.
THEOREM DbConserved == Spec => []DbConservation
<1>1. IInv => DbConservation
  BY DEF IInv
<1> QED BY <1>1, Invariance, PTL

\* Redis never sells a unit that MySQL does not have.
THEOREM NeverAhead == Spec => []RedisNeverAhead
<1>1. IInv => RedisNeverAhead
  BY SlotsCoverOrders DEF RedisNeverAhead
<1> QED BY <1>1, Invariance, PTL

\* No late message, cancellation or recovery takes a live order's slot away.
THEOREM LiveOrdersOwned == Spec => []ActiveOwned
<1>1. IInv => ActiveOwned
  BY DEF IInv, ActiveOwned, ReservationOK, Active
<1> QED BY <1>1, Invariance, PTL

\* No user is locked out by a slot that nothing leads back to.
THEOREM NoSlotForgotten == Spec => []SlotsTraced
<1>1. ASSUME IInv PROVE SlotsTraced
  <2>1. SUFFICES ASSUME NEW u \in Users, u \in qualified \/ owner[u] # None
                 PROVE  \E r \in Held : UserOf[r] = u /\ u \in qualified
                                        /\ (record[r] # "none" \/ order[r] # "none")
    BY DEF SlotsTraced
  <2>2. owner[u] \in Reservations /\ UserOf[owner[u]] = u /\ u \in qualified
    BY <1>1, <2>1 DEF IInv, OwnersOK, TypeOK, StoresTypeOK
  <2>3. ReservationOK(owner[u]) /\ owner[u] \in Held
    BY <1>1, <2>2 DEF IInv, Held
  <2>4. record[owner[u]] # "none" \/ order[owner[u]] # "none"
    BY <2>2, <2>3 DEF ReservationOK
  <2> QED BY <2>2, <2>3, <2>4
<1> QED BY <1>1, Invariance, PTL

\* What Redis accepted fits in the database.
THEOREM AcceptedFits == Spec => []AcceptedOrderFits
<1>1. ASSUME IInv PROVE AcceptedOrderFits
  <2>1. SUFFICES ASSUME NEW w \in Consumers, pc[w] = "insert"
                 PROVE  Insertable(job[w])
    BY DEF AcceptedOrderFits
  <2>2. w \in Threads
    BY DEF Threads, Workers
  <2>3. PICK j \in Reservations : job[w] = j
    BY <1>1, <2>1, <2>2 DEF IInv, TypeOK, ThreadsTypeOK
  <2>4. delivery[j] = "none" /\ owner[UserOf[j]] = j
    BY <1>1, <2>1, <2>2, <2>3 DEF IInv, ThreadOK, At, CreateTx
  <2>5. order[j] = "none"
    BY <1>1, <2>4 DEF IInv, ReservationOK
  <2>6. j \in Held /\ j \notin Active
    BY <2>4, <2>5 DEF Held, Active
  <2>7. ~ OtherOrder(j)
    BY <1>1, <2>4 DEF IInv, ReservationOK, OwnsSlot, OtherOrder, Active
  <2> QED BY <1>1, <2>3, <2>5, <2>6, <2>7, RoomForOrder DEF Insertable
<1> QED BY <1>1, Invariance, PTL

\* A closed order's slot is returned once, by whichever attempt sets its marker.
THEOREM ClosedReturned == Spec => []ClosedReturnedOnce
<1>1. IInv => ClosedReturnedOnce
  BY DEF IInv, ClosedReturnedOnce, ReservationOK
<1> QED BY <1>1, Invariance, PTL

\* An order id given to a buyer leads to an order, a cancellation or a bound slot.
THEOREM AcceptedTraced == Spec => []AcceptedIsTraced
<1>1. ASSUME IInv PROVE AcceptedIsTraced
  <2>1. SUFFICES ASSUME NEW r \in Reservations, pc[r] = "ok"
                 PROVE  Traced(r)
    BY DEF AcceptedIsTraced
  <2>2. r \in Threads /\ job[r] = r
    BY <1>1 DEF IInv, TypeOK, ThreadsTypeOK, Threads
  <2> QED BY <1>1, <2>1, <2>2 DEF IInv, ThreadOK, At
<1> QED BY <1>1, Invariance, PTL

\* Only the cancel and the create transaction write a delivery row; the one keeps a
\* cancelled row cancelled, the other never runs on it.
LEMMA CancelledKept ==
    ASSUME IInv, Next, NEW r \in Reservations, delivery[r] = "CANCELLED"
    PROVE  delivery'[r] = "CANCELLED"
<1>1. delivery \in [Reservations -> {"none", "CREATED", "CANCELLED"}]
  BY DEF IInv, TypeOK, StoresTypeOK
<1>2. ASSUME NEW t \in Threads, CancelTx(t) PROVE delivery'[r] = "CANCELLED"
  <2>1. order[r] = "none"
    BY DEF IInv, ReservationOK
  <2> QED BY <1>1, <1>2, <2>1 DEF CancelTx, Created
<1>3. ASSUME NEW t \in Workers, Insert(t) PROVE delivery'[r] = "CANCELLED"
  <2>1. t \in Threads /\ pc[t] = "insert"
    BY <1>3 DEF Insert, At, Threads
  <2>2. delivery[job[t]] = "none"
    BY <2>1 DEF IInv, ThreadOK, At, CreateTx
  <2>3. delivery' = [delivery EXCEPT ![job[t]] = "CREATED"] /\ job[t] # r
    BY <1>3, <2>2 DEF Insert
  <2> QED BY <1>1, <2>3
<1>4. ASSUME UNCHANGED delivery PROVE delivery'[r] = "CANCELLED"
  BY <1>4
<1>5. ASSUME NEW t \in Reservations, Request(t) PROVE UNCHANGED delivery
  BY <1>5 DEF Request, Number, Bind, BindStale, Publish, Confirmed, ConfirmTimeout, dbVars
<1>6. ASSUME NEW t \in Workers, Listener(t), ~ Insert(t) PROVE UNCHANGED delivery
  BY <1>6 DEF Listener, Deliver, CreateLock, CheckOwner, CheckOwnerRefused, CheckBinding,
              InsertRefused, Ack, dbVars
<1>7. ASSUME NEW t \in Schedulers, Task(t) PROVE UNCHANGED delivery
  BY <1>7 DEF Task, RecoverRead, CloseOrder, PickRelease, CloseRelease, CloseReleased,
              CloseRefused, CloseDone, dbVars
<1>8. ASSUME NEW t \in Threads, Compensation(t), ~ CancelTx(t) PROVE UNCHANGED delivery
  BY <1>8 DEF Compensation, Release, ReleaseRefused, Complete, dbVars
<1>9. ASSUME NEW t \in Threads, Work(t) PROVE delivery'[r] = "CANCELLED"
  BY <1>2, <1>3, <1>4, <1>5, <1>6, <1>7, <1>8, <1>9 DEF Work
<1>10. ASSUME ~ \E t \in Threads : Work(t) PROVE UNCHANGED delivery
  BY <1>10 DEF Next, Reserve, ReserveRefused, Expire, Pay, DeadLetterLost, Fails,
               ConnectionLost, Crash, dbVars
<1> QED BY <1>4, <1>9, <1>10

\* A committed cancellation is final: the order never appears after it.
THEOREM CancellationFinal == Spec => CancelledIsFinal
<1> DEFINE Final == \A r \in Reservations : delivery[r] = "CANCELLED" =>
                        delivery'[r] = "CANCELLED" /\ order'[r] = "none"
<1>1. IInv /\ IInv' /\ [Next]_vars => [Final]_vars
  <2>1. SUFFICES ASSUME IInv, IInv', Next, NEW r \in Reservations, delivery[r] = "CANCELLED"
                 PROVE  delivery'[r] = "CANCELLED" /\ order'[r] = "none"
    OBVIOUS
  <2>2. delivery'[r] = "CANCELLED"
    BY <2>1, CancelledKept
  <2> QED BY <2>1, <2>2 DEF IInv, ReservationOK
<1> QED BY <1>1, Invariance, PTL DEF Spec, CancelledIsFinal

--------------------------------------------------------------------------------
(* What MySQL guarantees on its own, when Redis may forget who has bought. *)

\* A thread that is busy has a reservation: all that is left of the threads' invariant.
Busy ==
    /\ DOMAIN pc = Threads
    /\ job \in [Threads -> Reservations \cup {None}]
    /\ \A t \in Threads : pc[t] # "idle" => job[t] \in Reservations

OrdersTyped ==
    /\ dbStock \in Int
    /\ order \in [Reservations -> {"none", "PENDING", "EXPIRED", "PAID", "CLOSED"}]

\* The inductive invariant.
StaleInv == Busy /\ OrdersTyped /\ OneActiveOrderPerUser /\ DbConservation

--------------------------------------------------------------------------------
(* Busy is kept by every step.                                             *)

\* The labels of a task that returns the unit of a closed order.
Closing == {"closeRelease", "closeDone"}

\* A busy thread goes on with its reservation, or puts it down.
\* Only the release of a closed order goes on with its completion.
Continues(t) ==
    \/ \E label : /\ pc' = [pc EXCEPT ![t] = label] /\ job' = job
                  /\ label \in Closing => pc[t] = "closeRelease"
    \/ GoIdle(t)

LEMMA ContinuesBusy ==
    ASSUME Busy, NEW t \in Threads, pc[t] # "idle", Continues(t)
    PROVE  Busy'
<1>1. ASSUME NEW label, pc' = [pc EXCEPT ![t] = label], job' = job PROVE Busy'
  BY <1>1 DEF Busy
<1>2. CASE GoIdle(t)
  BY <1>2 DEF Busy, GoIdle
<1> QED BY <1>1, <1>2 DEF Continues

LEMMA ThrowContinues ==
    ASSUME NEW t, Throw(t)
    PROVE  Continues(t)
<1>1. CASE RequestCatch(t)
  <2>1. PICK label : label \notin Closing /\ Goto(t, label)
    BY <1>1 DEF RequestCatch, Closing
  <2> QED BY <2>1 DEF Goto, Continues
<1>2. CASE WorkerRetry(t)
  <2>1. pc' = [pc EXCEPT ![t] = EntryPC(t)] /\ job' = job
    BY <1>2 DEF WorkerRetry
  <2>2. EntryPC(t) \notin Closing
    BY DEF EntryPC, Closing
  <2> QED BY <2>1, <2>2 DEF Continues
<1>3. CASE WorkerReject(t)
  BY <1>3 DEF WorkerReject, Continues
<1>4. CASE SchedulerCatch(t)
  BY <1>4 DEF SchedulerCatch, Continues
<1> QED BY <1>1, <1>2, <1>3, <1>4 DEF Throw

LEMMA AnswerContinues ==
    ASSUME NEW t, NEW label, Answer(t, label), label \in Closing => pc[t] = "closeRelease"
    PROVE  Continues(t)
BY ThrowContinues DEF Answer, Goto, Continues, Closing

LEMMA FinishContinues ==
    ASSUME NEW t, NEW reply \in {"ok", "fail"}, Finish(t, reply)
    PROVE  Continues(t)
<1>1. CASE t \in Reservations /\ Answer(t, reply)
  BY <1>1, AnswerContinues DEF Closing
<1>2. CASE t \in Workers /\ Answer(t, "ack")
  BY <1>2, AnswerContinues DEF Closing
<1>3. CASE t \in Schedulers /\ SchedulerCatch(t)
  BY <1>3, ThrowContinues DEF Throw
<1> QED BY <1>1, <1>2, <1>3 DEF Finish

LEMMA RequestContinues ==
    ASSUME NEW r \in Reservations, Request(r) \/ Reserve(r) \/ ReserveRefused(r)
    PROVE  Continues(r) /\ pc[r] # "idle"
<1>1. CASE Number(r) \/ BindStale(r) \/ Confirmed(r) \/ ReserveRefused(r) \/ Publish(r)
  BY <1>1 DEF Number, BindStale, Confirmed, ReserveRefused, Publish, Goto, At, Continues, Closing
<1>2. CASE Bind(r)
  BY <1>2, AnswerContinues DEF Bind, At, Closing
<1>3. CASE Reserve(r)
  BY <1>3, AnswerContinues DEF Reserve, At, Closing
<1>4. CASE ConfirmTimeout(r)
  BY <1>4, ThrowContinues DEF ConfirmTimeout, At
<1> QED BY <1>1, <1>2, <1>3, <1>4 DEF Request

LEMMA CompensationContinues ==
    ASSUME NEW t, Compensation(t)
    PROVE  Continues(t) /\ pc[t] # "idle"
<1>1. CASE CancelTx(t)
  BY <1>1, AnswerContinues DEF CancelTx, At, Closing
<1>2. CASE Release(t)
  BY <1>2, FinishContinues DEF Release, At
<1>3. CASE ReleaseRefused(t)
  BY <1>3, ThrowContinues DEF ReleaseRefused, At
<1>4. CASE Complete(t)
  BY <1>4, FinishContinues DEF Complete, At
<1> QED BY <1>1, <1>2, <1>3, <1>4 DEF Compensation

LEMMA ListenerContinues ==
    ASSUME NEW w, Listener(w), ~ \E r \in Reservations : Deliver(w, r)
    PROVE  Continues(w) /\ pc[w] # "idle"
<1>1. CASE CreateLock(w)
  <2>1. PICK label : label \notin Closing /\ Goto(w, label)
    BY <1>1 DEF CreateLock, AfterLock, Closing
  <2> QED BY <1>1, <2>1 DEF CreateLock, At, Goto, Continues
<1>2. CASE CheckOwner(w)
  <2>1. PICK label : label \notin Closing /\ Goto(w, label)
    BY <1>2 DEF CheckOwner, Closing
  <2> QED BY <1>2, <2>1 DEF CheckOwner, At, Goto, Continues
<1>3. CASE CheckOwnerRefused(w) \/ InsertRefused(w)
  BY <1>3, ThrowContinues DEF CheckOwnerRefused, InsertRefused, At
<1>4. CASE CheckBinding(w)
  BY <1>4, ThrowContinues DEF CheckBinding, Goto, At, Continues, Closing
<1>5. CASE Insert(w)
  BY <1>5, AnswerContinues DEF Insert, At, Closing
<1>6. CASE Ack(w)
  BY <1>6 DEF Ack, At, Continues, Closing
<1> QED BY <1>1, <1>2, <1>3, <1>4, <1>5, <1>6 DEF Listener

\* The steps of a scheduled task after it has taken something up.
LEMMA TaskContinues ==
    ASSUME NEW s, CloseRelease(s) \/ CloseReleased(s) \/ CloseRefused(s) \/ CloseDone(s)
    PROVE  Continues(s) /\ pc[s] # "idle"
<1>1. CASE CloseRelease(s)
  BY <1>1, AnswerContinues DEF CloseRelease, At, Closing
<1>2. CASE CloseReleased(s)
  BY <1>2 DEF CloseReleased, Goto, At, Continues, Closing
<1>3. CASE CloseRefused(s) \/ CloseDone(s)
  BY <1>3, ThrowContinues DEF CloseRefused, CloseDone, At
<1> QED BY <1>1, <1>2, <1>3

\* An idle thread takes something up.
LEMMA TakenUpBusy ==
    ASSUME Busy, NEW t \in Threads, NEW r \in Reservations, NEW label,
           pc' = [pc EXCEPT ![t] = label], job' = [job EXCEPT ![t] = r]
    PROVE  Busy'
BY DEF Busy

LEMMA ListenerBusy ==
    ASSUME Busy, NEW w \in Workers, Listener(w)
    PROVE  Busy'
<1>1. w \in Threads
  BY DEF Threads
<1>2. ASSUME NEW r \in Reservations, Deliver(w, r) PROVE Busy'
  BY <1>1, <1>2, TakenUpBusy DEF Deliver
<1> QED BY <1>1, <1>2, ListenerContinues, ContinuesBusy

LEMMA TaskBusy ==
    ASSUME Busy, NEW s \in Schedulers, Task(s)
    PROVE  Busy'
<1>1. s \in Threads
  BY DEF Threads
<1>2. ASSUME NEW r \in Reservations, RecoverRead(s, r) \/ PickRelease(s, r) PROVE Busy'
  <2>1. PICK label : Take(s, r, label)
    BY <1>2 DEF RecoverRead, PickRelease
  <2> QED BY <1>1, <2>1, TakenUpBusy DEF Take
<1>3. ASSUME NEW r \in Reservations, CloseOrder(s, r) PROVE Busy'
  BY <1>3 DEF CloseOrder, threadVars, Busy
<1>4. CASE CloseRelease(s) \/ CloseReleased(s) \/ CloseRefused(s) \/ CloseDone(s)
  BY <1>1, <1>4, TaskContinues, ContinuesBusy
<1> QED BY <1>2, <1>3, <1>4 DEF Task

LEMMA CrashBusy ==
    ASSUME Busy, Crash
    PROVE  Busy'
<1>1. Reservations \subseteq Threads
  BY DEF Threads
<1>2. job' \in [Threads -> Reservations \cup {None}]
  BY DEF Crash
<1>3. DOMAIN pc' = Threads
  BY DEF Crash, Busy
<1>4. ASSUME NEW t \in Threads, pc'[t] # "idle" PROVE job'[t] \in Reservations
  BY <1>4 DEF Crash
<1> QED BY <1>2, <1>3, <1>4 DEF Busy

LEMMA StepBusy ==
    ASSUME Busy, StaleCacheNext
    PROVE  Busy'
<1>1. ASSUME NEW r \in Reservations, Reserve(r) \/ ReserveRefused(r) PROVE Busy'
  BY <1>1, RequestContinues, ContinuesBusy DEF Threads
<1>2. ASSUME NEW r \in Reservations, Expire(r) \/ Pay(r) \/ DeadLetterLost(r) PROVE Busy'
  BY <1>2 DEF Expire, Pay, DeadLetterLost, threadVars, Busy
<1>3. ASSUME NEW t \in Threads, Work(t) PROVE Busy'
  <2>1. CASE t \in Reservations /\ Request(t)
    BY <2>1, RequestContinues, ContinuesBusy
  <2>2. CASE t \in Workers /\ Listener(t)
    BY <2>2, ListenerBusy
  <2>3. CASE t \in Schedulers /\ Task(t)
    BY <2>3, TaskBusy
  <2>4. CASE Compensation(t)
    BY <2>4, CompensationContinues, ContinuesBusy
  <2> QED BY <1>3, <2>1, <2>2, <2>3, <2>4 DEF Work
<1>4. ASSUME NEW t \in Threads, Fails(t) PROVE Busy'
  BY <1>4, ThrowContinues, ContinuesBusy DEF Fails, At
<1>5. ASSUME NEW w \in Workers, ConnectionLost(w) PROVE Busy'
  BY <1>5 DEF ConnectionLost, Busy
<1>6. ASSUME NEW u \in Users, LoseQualification(u) PROVE Busy'
  BY <1>6 DEF LoseQualification, threadVars, Busy
<1> QED BY <1>1, <1>2, <1>3, <1>4, <1>5, <1>6, CrashBusy DEF StaleCacheNext, Next

--------------------------------------------------------------------------------
(* Only four transactions change an order or the stock in MySQL.           *)

OrdersKept == UNCHANGED <<dbStock, order>>

LEMMA KeptOrders ==
    ASSUME OrdersTyped, OneActiveOrderPerUser, DbConservation, OrdersKept
    PROVE  OrdersTyped' /\ OneActiveOrderPerUser' /\ DbConservation'
BY DEF OrdersKept, OrdersTyped, OneActiveOrderPerUser, DbConservation, Active

\* The unique key and the stock condition decide, whatever Redis said.
LEMMA InsertOrders ==
    ASSUME StaleInv, NEW w \in Workers, Insert(w)
    PROVE  OrdersTyped' /\ OneActiveOrderPerUser' /\ DbConservation'
<1>1. PICK j \in Reservations : job[w] = j
  BY DEF StaleInv, Busy, Insert, At, Threads
<1>2. /\ dbStock > 0 /\ dbStock' = dbStock - 1 /\ dbStock \in Int
      /\ order[j] = "none" /\ ~ OtherOrder(j)
      /\ order' = [order EXCEPT ![j] = "PENDING"]
  BY <1>1 DEF Insert, Insertable, StaleInv, OrdersTyped
<1>3. j \notin Active /\ Active' = Active \cup {j}
  BY <1>2 DEF StaleInv, OrdersTyped, Active
<1>4. OrdersTyped'
  BY <1>2 DEF StaleInv, OrdersTyped
<1>5. OneActiveOrderPerUser'
  BY <1>2, <1>3 DEF StaleInv, OneActiveOrderPerUser, OtherOrder
<1>6. DbConservation'
  BY <1>2, <1>3, OrderAdded DEF StaleInv
<1> QED BY <1>4, <1>5, <1>6

LEMMA CloseOrders ==
    ASSUME StaleInv, NEW s, NEW r \in Reservations, CloseOrder(s, r)
    PROVE  OrdersTyped' /\ OneActiveOrderPerUser' /\ DbConservation'
<1>1. /\ order[r] = "EXPIRED" /\ order' = [order EXCEPT ![r] = "CLOSED"]
      /\ dbStock' = dbStock + 1 /\ dbStock \in Int
  BY DEF CloseOrder, Closable, StaleInv, OrdersTyped
<1>2. r \in Active /\ Active' = Active \ {r}
  BY <1>1 DEF StaleInv, OrdersTyped, Active
<1>3. OrdersTyped'
  BY <1>1 DEF StaleInv, OrdersTyped
<1>4. OneActiveOrderPerUser'
  BY <1>2 DEF StaleInv, OneActiveOrderPerUser
<1>5. DbConservation'
  BY <1>1, <1>2, OrderRemoved DEF StaleInv
<1> QED BY <1>3, <1>4, <1>5

LEMMA StatusOrders ==
    ASSUME StaleInv, NEW r \in Reservations, Expire(r) \/ Pay(r)
    PROVE  OrdersTyped' /\ OneActiveOrderPerUser' /\ DbConservation'
<1>1. /\ OrdersTyped' /\ dbStock' = dbStock
      /\ Active' = Active
  BY DEF Expire, Pay, StaleInv, OrdersTyped, Active
<1> QED BY <1>1 DEF StaleInv, OneActiveOrderPerUser, DbConservation

LEMMA StepOrders ==
    ASSUME StaleInv, StaleCacheNext
    PROVE  OrdersTyped' /\ OneActiveOrderPerUser' /\ DbConservation'
<1>1. CASE OrdersKept
  BY <1>1, KeptOrders DEF StaleInv
<1>2. ASSUME NEW w \in Workers, Listener(w) PROVE Insert(w) \/ OrdersKept
  BY <1>2 DEF Listener, Deliver, CreateLock, CheckOwner, CheckOwnerRefused, CheckBinding,
              InsertRefused, Ack, dbVars, OrdersKept
<1>3. ASSUME NEW s \in Schedulers, Task(s)
      PROVE  (\E r \in Reservations : CloseOrder(s, r)) \/ OrdersKept
  BY <1>3 DEF Task, RecoverRead, PickRelease, CloseRelease, CloseReleased, CloseRefused,
              CloseDone, dbVars, OrdersKept
<1>4. ASSUME NEW r \in Reservations, Request(r) PROVE OrdersKept
  BY <1>4 DEF Request, Number, Bind, BindStale, Publish, Confirmed, ConfirmTimeout, dbVars, OrdersKept
<1>5. ASSUME NEW t \in Threads, Compensation(t) PROVE OrdersKept
  BY <1>5 DEF Compensation, CancelTx, Release, ReleaseRefused, Complete, dbVars, OrdersKept
<1>6. ASSUME NEW t \in Threads, Work(t)
      PROVE  \/ OrdersKept
             \/ \E w \in Workers : Insert(w)
             \/ \E s \in Schedulers, r \in Reservations : CloseOrder(s, r)
  BY <1>2, <1>3, <1>4, <1>5, <1>6 DEF Work
<1>7. ASSUME ~ \E t \in Threads : Work(t)
      PROVE  OrdersKept \/ \E r \in Reservations : Expire(r) \/ Pay(r)
  BY <1>7 DEF StaleCacheNext, Next, Reserve, ReserveRefused, DeadLetterLost, Fails,
              ConnectionLost, Crash, LoseQualification, dbVars, OrdersKept
<1> QED BY <1>1, <1>6, <1>7, InsertOrders, CloseOrders, StatusOrders

--------------------------------------------------------------------------------
LEMMA InitStaleInv ==
    ASSUME Init
    PROVE  StaleInv
<1>1. Busy /\ OrdersTyped
  BY StockAssumption DEF Init, Busy, OrdersTyped, Threads
<1>2. Active = {}
  BY DEF Init, Active
<1>3. OneActiveOrderPerUser /\ DbConservation
  BY <1>2, FS_EmptySet, StockAssumption DEF Init, OneActiveOrderPerUser, DbConservation
<1> QED BY <1>1, <1>3 DEF StaleInv

\* The database alone keeps one live order per user and never sells more than the stock,
\* even when Redis sells to the same user again.
THEOREM StaleInvariance == StaleCacheSpec => []StaleInv
<1>1. Init => StaleInv
  BY InitStaleInv
<1>2. StaleInv /\ [StaleCacheNext]_vars => StaleInv'
  <2>1. SUFFICES ASSUME StaleInv, [StaleCacheNext]_vars PROVE StaleInv'
    OBVIOUS
  <2>2. CASE StaleCacheNext
    BY <2>1, <2>2, StepBusy, StepOrders DEF StaleInv
  <2>3. CASE UNCHANGED vars
    <3>1. Busy'
      BY <2>1, <2>3 DEF StaleInv, Busy, vars, threadVars
    <3>2. OrdersKept
      BY <2>3 DEF OrdersKept, vars, dbVars
    <3> QED BY <2>1, <3>1, <3>2, KeptOrders DEF StaleInv
  <2> QED BY <2>1, <2>2, <2>3
<1> QED BY <1>1, <1>2, PTL DEF StaleCacheSpec

\* A user never has two live orders (the unique key of active orders).
THEOREM OneOrder == StaleCacheSpec => []OneActiveOrderPerUser
<1>1. StaleInv => OneActiveOrderPerUser
  BY DEF StaleInv
<1> QED BY <1>1, StaleInvariance, PTL

\* The stock and the live orders in MySQL always add up to the stock of the voucher
\* (the conditional decrement with the insert, the increment with the close).
THEOREM StaleDbConserved == StaleCacheSpec => []DbConservation
<1>1. StaleInv => DbConservation
  BY DEF StaleInv
<1> QED BY <1>1, StaleInvariance, PTL
================================================================================
