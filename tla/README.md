# Verification of the flash-sale application

The repository is a Spring Boot review-and-voucher site ("hmdp"): shops, blogs,
follows, log-in, and a flash sale of vouchers whose stock is guarded by Redis,
whose orders travel over RabbitMQ and are stored in MySQL.  This directory holds
TLA+ models of it, the TLC runs that check them on small instances, and
theorems about them that TLAPS checks for every value of the constants.

1. [The system](#1-the-system)
2. [The core: the purchase pipeline](#2-the-core-the-purchase-pipeline)
3. [The other components](#3-the-other-components)
4. [The runs](#4-the-runs)
5. [Fairness](#5-fairness)
6. [What is proved](#6-what-is-proved)
7. [Where code and documents disagree](#7-where-code-and-documents-disagree)
8. [What is only model-checked, what is not modelled](#8-what-is-only-model-checked-what-is-not-modelled)
9. [What is left](#9-what-is-left)

`tlc -config SeckillOrder_races.cfg MCSeckillOrder.tla` checks a run and
`tlapm SeckillOrder_proofs.tla` a module of proofs.  `PROJECT.json` lists the
components, runs, hazards and theorems, a plausible slip of the code that makes
each property fail, and the lines of source behind every definition.

## 1. The system

All Java paths are below `src/src/main/java/com/hmdp`, scripts below
`src/src/main/resources`.

| component | state | operations | correct when |
|---|---|---|---|
| **Redis reservation** `service/OrderReservationService`, `seckill.lua`, `reservation_*.lua` | stock, set of qualified users, owner hash user→token, one hash per reservation, zset of pending reservations | reserve, bind, isBound, release, complete, overdue, read, defer | each unit is held by one reservation; a slot can always be found again from a record or an order |
| **Purchase request** `service/impl/VoucherOrderServiceImpl`, `service/OrderCompensationService` | the thread's position, the token, the order id | reserve → number → bind → publish → wait for the confirm; compensate on failure | a buyer with an order id has an order, a cancellation, or a reservation that will become one |
| **Message transport** `service/OrderPublisher`, `config/OrderRabbitConfig` | main, dead-letter and parking queue, unacknowledged deliveries | publish with mandatory + correlated confirm, retry interceptor (3 attempts), reject, dead-letter | at least one delivery or a recovery record |
| **Listeners and transactions** `listener/OrderListener`, `service/OrderTransactionService` | `tb_order_delivery` (OPEN, CREATED, CANCELLED), `tb_voucher_order`, `tb_seckill_voucher.stock` | create, cancel, under the row lock of the delivery | created and cancelled exclude each other for ever |
| **Recovery task** `task/OrderReservationRecoveryTask` | — | every 10 s: up to 100 records older than 5 min, cancel each, defer those that fail | no slot is held for ever |
| **Order lifecycle and close task** `service/OrderLifecycleService`, `task/OrderCloseTask`, `service/OrderStockReleaseService`, `order_close_release.lua` | status, version, expire_time, `tb_order_stock_release`, closed marker in Redis, scan cursor | simulatePay, expiredAfter, close, retryPending | an order is paid or closed, its stock returns once, in both stores |
| **Voucher creation and preheat** `service/impl/VoucherServiceImpl`, `service/SeckillPreheatService`, `seckill_preheat.lua` | meta hash, initial stock and buyers in Redis | addSeckillVoucher (+ after-commit preheat), run at start-up | Redis never starts with more stock or fewer buyers than MySQL |
| **Shop cache** `service/ShopCacheService`, `service/impl/ShopServiceImpl` | L1 (Caffeine), Redis entry with logical expiry, read/write guard per id, rebuild queue and the set of ids being rebuilt, rebuild lock | query, asynchronous rebuild, update with invalidation after commit | no value older than the last committed update is served after it, up to the documented TTLs |
| **Social interactions** `service/Social*Service`, `social_projection.lua` | likes and follows in MySQL; their projections in Redis with a TTL; lock per projection | like, follow, read, rebuild | the projection follows the last commit, or is absent, or expires |
| **Feed** `service/impl/BlogServiceImpl`, `info.html` | inbox zset per user, the page's cursor and list | publish, scroll (max score, offset) | scrolling shows every entry, and each once |
| **Rate limiting** `aspect/RateLimitAspect`, `rate_limit.lua` | zset of request times per key | allow | at most *limit* in any window |
| **Login and sign-in** `service/impl/UserServiceImpl`, `interceptor/*` | code, session hash with TTL, bitmap per month, thread-local user | sendCode, login, refresh, logout, sign, signCount | no session without end, none after logout; the streak is the streak |
| **Shop list by distance** `service/impl/ShopServiceImpl`, `shop-list.html` | GEO index, the page's list | queryShopByType, next page | the pages tile the list |
| **Simple Redis lock** `utils/SimpleRedisLock`, `unlock.lua` | lock key with owner and TTL | tryLock, unlock | who is within his lease owns the lock |
| **Id generator** `utils/RedisIdWorker` | counter per day | nextId | ids are unique |
| **Shop type list** `service/impl/ShopTypeServiceImpl` | Redis list | getTypeList | no answer is cut |
| **The rest** comments, uploads, controllers, configuration, the other pages, deployment | — | CRUD, files, wiring | — |

How they interact.  The request thread, the listener threads, the scheduler and
the operators' clients share three stores and no memory (the only exceptions are
the shop cache's L1, its guards and the close task's cursor).  No transaction
spans two stores, and each store can fail, or answer into a closed connection.
So the correctness of the sale rests on a protocol:

    request          Redis               RabbitMQ            MySQL
      | reserve ------>|  slot + unbound record
      | bind --------->|  record bound to the order id
      | publish ---------------------------->| main queue
      |<------------------------- confirm ---|
      |                |                     |--> create: lock the delivery row,
      |                |<-- isBound: 2 reads ------  check the reservation,
      |                |                     |     insert order, stock - 1, CREATED
      |                |<-- complete: drop the record
      |                |            dlq <----| after 3 failures
      |                |             |---------->  cancel: lock, CANCELLED
      |                |<-- release: give the slot back
      |       every 10 s: recovery task --------->  cancel
      |                |<-- release
      |       every 10 s: close task ------------>  PENDING -> CLOSED, stock + 1, job
      |                |<-- close release: give the slot back, leave a marker
      |                              ------------>  job done

What is hard in it: a request may be overtaken by the recovery task, a message by
its own cancellation, a listener by a redelivery of the message it still works
on, a payment by the deadline, a release by a new purchase of the same user; every
compensation may itself fail half way, and every reply may be lost after the
effect.  `PROJECT.json` lists these hazards, each at the line where it bites, with
the properties that watch it.

## 2. The core: the purchase pipeline

### Modules

| module | what it is |
|---|---|
| `SeckillSale` | what the sale of one voucher promises: each purchase attempt is in one of six phases, slots are limited and one per user |
| `SeckillOrder` | the detailed pipeline: all of the code in the figure, its properties, the inductive invariant, the refinement mappings to `SeckillSale` and to `OrderLife` |
| `MCSeckillOrder` | small instances for TLC |
| `SeckillOrder_proofs` | the inductive invariant and the safety theorems, with and without a Redis that forgets |
| `SeckillRefinement_proofs` | `SeckillOrder` implements `SeckillSale`, and `OrderLife` for each order |

### State

| variable | in the code |
|---|---|
| `stock`, `qualified`, `owner` | the keys `seckill:stock:`, `seckill:order:`, `seckill:owner:` of the voucher |
| `record` | `seckill:reservation:{token}` together with its entry in the pending zset (every script writes or removes both); unbound without an order id, bound with one |
| `closedMark` | `seckill:closed:{orderId}` |
| `dbStock`, `order`, `releaseJob` | `tb_seckill_voucher.stock`, `tb_voucher_order.status`, `tb_order_stock_release` |
| `delivery` | the committed `tb_order_delivery.state`; a row that is OPEN is only ever seen by the transaction that goes on to change it, so OPEN and "no row" are one value |
| `queue` | where the message is until it is acknowledged |
| `pc`, `job` | what each thread does next, and for which reservation |
| `tries`, `live` | the retry interceptor's count; whether an acknowledgement would still count |

One element of `Reservations` is one HTTP request, with its token, its order id and
its message: each of these is generated once per request and none is reused.
`EXPIRED` is a PENDING order past `expire_time`; the database clock decides, in
the update's own condition.

### Actions

Each Lua script, each database transaction, each publish and each acknowledgement is one
step.  The thread that calls it goes on at the next label, or at the label
its `catch` leads to:

* `Fails(t)` — the call did not take effect (store unreachable, message
  unroutable or refused);
* `Answer(t, label)` — it took effect, and the reply arrives or is lost: in the
  second case the caller sees an exception, as in the first;
* `Throw(t)` — what an exception does at this point: the request's nested
  `catch` blocks (`RequestCatch`), another attempt of the listener (`WorkerRetry`), its
  rejection and the broker's forwarding (`WorkerReject`), the task's log and
  next item (`SchedulerCatch`).

Not one step but several are:

* **the create transaction.**  It holds the row lock on the delivery row while
  `isBound` reads Redis twice; others go on between the reads and before the
  commit.  `CreateLock`, `CheckOwner`, `CheckBinding`, `Insert` are its steps and
  `Locked` keeps the other create and cancel transactions of the same order out.
  Everything it writes becomes visible at `Insert`, its commit.
* **publish and confirm.**  After `Publish` the message may be consumed before the
  request thread sees the confirm, or never sees it.

The cancel transaction is one step: its reads come after the row lock and
are made under it.  The close transaction is one step although it selects the order before it
updates it: the update repeats the status, the version and the deadline, and every
change of status increments the version.  Create locks the stock row and
then the order's unique key, close the order and then the stock row; they can only wait
for each other when the same user has a live order and another one being inserted, which
`ActiveOwned` and `AcceptedOrderFits` exclude (and the transaction MySQL would then abort
is one that `Fails`).

`Deliver` gives a message to any idle listener as long as no live delivery of it
exists; after `ConnectionLost` the first listener still works on it while
another one gets it.  `DeadLetterLost` is the unconfirmed forwarding to the
dead-letter exchange.  The parking queue has no consumer.
`RecoverRead` takes up any record at any time: a request that takes longer than the
five minutes is met between any two of its steps.  `Crash` stops every
thread; the stores and the queue stay.

### Properties

Safety:

* `RedisConservation`, `DbConservation` — stock plus holders is the initial stock, in
  each store; `RedisNeverAhead` relates the two.
* `ActiveOwned` — a live order keeps its slot; `SlotsTraced` — every slot has a
  record or an order that leads back to it.
* `CancelledIsFinal` — no order after a committed cancellation.
* `AcceptedOrderFits` — create never fails on stock or on the unique key once the
  reservation was found bound.  This is the reason the Redis side exists.
* `ClosedReturnedOnce` — the slot of a closed order is returned exactly once,
  although a release may be repeated after the user has bought again.
* `AcceptedIsTraced` — the order id in a successful answer leads somewhere.
* `OneActiveOrderPerUser` — checked in a model in which Redis forgets a buyer, as
  `OrderMessagingIT` (lines 199-216) does: the unique key of the table holds on its own.
* `ImplementsSale` — every step is a step of `SeckillSale`, or none.
* `Life(r)!Spec` — the order of `r` is paid in time or closed late, one of the two and once, and
  the unit of stock is marked to return by the step that closes it and by no other.  It is proved
  (`OrderLives`) and no run checks it.
* `NeverOversold`, `FinalStands` of `SeckillSale` — what the refinement is for: no more live
  attempts than slots, one per user; a paid attempt, and one whose slot is back in stock, stays
  so.  They are proved of the sale's steps and of the pipeline (`PromisesKept`); no run checks them.

Liveness: `HeldSettles`, `AcceptedIsDecided`, `EventuallyReconciled`.

## 3. The other components

Each has a module of its own.  Redis, MySQL and locks are variables; a script, a
transaction, a call of Redis is one step, made by a thread that goes on at its next
label; between any two of them other threads, expiries, faults and crashes may come.
"Slip" in a module marks a definition that is not the code's: a plausible
mistake, used to make sure that a property notices it.

### Payment and closing: `OrderLife`, `OrderLifecycle`

`OrderLifecycle` follows `OrderLifecycleService` for one order: `Read` (the select in
`simulatePay`, the page of `expiredAfter`), then `Pay` or `Close`, whose update repeats
status and version (`Unchanged`) and compares `expire_time` with the database clock
(`InTime`), or `Missed` when the update finds no row.  `Close` changes status, stock and
release job in one transaction.  `CallFails` rolls back, `ReplyLost` commits and throws.
Any number of payers and of close tasks (one per instance).  `OrderLife` is what this
promises: pending until paid before the deadline or closed after it, and the
unit comes back with the closing.  `ImplementsLife` says that the detailed module
implements it; `LifeInv` that version, stock and release job agree with the status and
that a buyer who was told "paid" has a paid order; `OrderDecided` that the order is
paid or closed in the end.

### The scans: `CloseScan`, `RetryScan`

`CloseScan` is the cursor of `OrderCloseTask.scan`: the pending orders as a sequence by
id, the cursor as the number of orders it has passed, a page at a time (`Scan`), the cursor
moved before each attempt, reset to 0 by an empty page.  Orders arrive (also among the
others: the id is made by the request, the row is inserted when the message is consumed),
expire, are paid; closing fails once (`MaxFaults`) or always (`Broken`); the process
restarts and the cursor, which is in memory, is lost.  `PageAhead` (in `ScansInv`): the
cursor never passes an order of the page that was not tried.  `ExpiredClosed`: every
expired order that can be closed is closed in the end.

`RetryScan` is the pending zset under `overdue`, `cancel`, `defer`: the records in the
order of their score, a prefix of them overdue, a page of the oldest, a record that fails
put behind the others.  `retryPending` treats `tb_order_stock_release` alike.  Records
arrive without end.  `NothingResurrected`: deferring never brings back a record that its
listener has settled (`ZADD XX`).  `HealthySettled`: records that always fail do not
starve the others, even when they would fill a page.

### Creation and preheat: `VoucherPreheat`

`Create` is the transaction of `addSeckillVoucher`, `AfterCommit` its hook, `HookFails`
the hook's `catch` that only logs; `RunnerReads` and `RunnerScript` are `initialize` at
start-up, which reads buyers and stock and then runs the script; `Preheat` is
`seckill_preheat.lua`.  Beside them run purchases (in two steps), payments, closings and
releases, the latter including orders from before the reservations.  Initial states
are a voucher still to be created, and one from before the metadata whose set of buyers
may be incomplete or missing.  `StockAgrees` (in `PreheatInv`): stock in Redis, plus
reservations without an order, plus releases to come, is the stock in MySQL.
`BuyersKept`: once a voucher is on sale no buyer of a live order can buy again.

### Shop cache: `ShopCache`

One shop in one instance: `db`, `redis`, `l1`, the fair read-write guard (`readers`,
`writer`, the queue `waiting`), the Redisson lock with its watchdog, the set of ids being
rebuilt, and the threads: queries, updates and the one rebuild task.  A shop is its
version.  Faults: calls that throw before or after they take effect, a lock whose reply
is lost, a failing unlock or watchdog, a commit whose reply is lost (its hook never
runs), a crash.  `floor` remembers what MySQL held when an invalidation last went through;
`CacheInv` says that nothing older is in Redis, in L1, or in the hands of a thread
(`NeverOlderThanInvalidated`); that on every path, errors included, the guard is given back by
whoever held it, and its queue is exactly those who wait (`GuardAccounted`); and that the guard
never jams: the first in its queue may enter, or somebody inside has a step (`NobodyJammed`).
`EveryCallEnds` (in `AllCallsEnd`): queries and updates end although a query waits for
the lock inside the guard and an update waits outside, and an id does not stay in
the set when the pool refuses the task.  `EventuallyFresh`: when updates stop, both caches
agree with MySQL, whatever failed (the time to live is the last resort).

### Social interactions: `SocialProjection`

The likes of one blog: rows, count, the row lock of the transaction; the snapshot in
Redis with its age; the Redisson lock around transaction and projection; requests that
like, unlike or toggle (the script changes a complete snapshot, else it is rebuilt, else
deleted), and queries that rebuild a missing one.  `CountMatches`: the count is that of
the rows plus the likes from before the identities were stored, even when a lock's lease
is lost.  `ProjectionExact` (in `ProjectionInv`): the snapshot is the relation, missing, or
being brought up to date, unless a failure has been recorded in `disturbed`.
`EventuallyExact`: after a failure the snapshot becomes exact, since a change does not
extend its life.  `RequestEnds` is in `AllCallsEnd`.

### Feed: `FeedPaging`

The inbox of one follower, `queryBlogOfFollow` (page, offset of the next cursor) and the
page `info.html` (cursor, list, requests under way, answers that overlap, overtake or are
lost: `Send`, `Receive`, `Lose`).  Blogs with one millisecond, and blogs pushed with an
earlier time while the reader scrolls.  `Refresh(now)` asks for the first page up to the time
on the reader's clock when the request is sent, any member of `Clocks`, and `Refresh`
and `LoadMore` are sent whatever is under way, as `onScroll` does.  `FeedInv`: nothing that was
in the inbox at the first page, up to the time asked for, is skipped, as long as cursor and
list belong together; and while requests do not overlap a blog is shown twice only if another
one of the cursor's millisecond was pushed in front of it.  `EndReached`: a reader who scrolls on
comes to the end.

Two things `FeedInv` does not say, because the code does not do them.  A page asked
for before the list was replaced is taken for a page of the new list, and moves the cursor past
blogs that the list does not have; the history variable `mixed` (with `outdated`, the
requests older than the list) tells when that has happened, or when the clock was put back, and
the next answer from the top mends it.  A blog with a time above the one asked for, pushed on
the request's way to the server or within the lag of the reader's clock, is not in the list until
the next return to the top.  Section 7 has the counterexamples.

### Shops by distance, shop types: `GeoPaging`, `ShopTypeList`

`GeoPaging` is `queryShopByType` with coordinates and `shop-list.html`, which counts its
pages up before the answer: `GeoInv` says that the pages tile the list.  `ShopTypeList` is
`getTypeList` call by call: `TypesInv` says that no answer stops in the middle of the
types.

### Login: `Session`, `SignIn`

`Session`: the session hashes, the two calls of `login`, both interceptors, `UserHolder`
of each pooled thread, expiry, logout, failing calls, restarts.  `LoginInv`: a request
acts as the user of its token or as nobody, guarded handlers find a user, and a session
without an expiry is one whose token nobody was given.  A renewal that fails in `preHandle`
leaves the user in the `UserHolder` of the pooled thread (`RenewFails`), and the next request on
that thread may act as him; `left` remembers these threads, and `LoginInv` exempts each of them until
that next request finds its own session or ends.  So it says how far the damage
goes, not that there is none (section 7).  `EndedStaysEnded`: a session that ended is not
revived by requests that read it before.

`SignIn`: `sign` and `signCount` over the bitmap of the month, each request with the
clock it has read.  `CountIsStreak`: `BITFIELD` with the width of the day and the shifts
that follow compute the run of signed days that ends on the day of the request, across
short months and midnight.  A reply of `SETBIT` that is lost is not modelled: the bit is set or it
is not, and setting it again changes nothing.

### Rate limit, lock, ids: `RateLimit`, `RedisLock`, `IdWorker`

`RateLimit` is `rate_limit.lua` on one bucket with its caller: the key expires as a whole,
entries are removed one by one, replies are lost.  `RateInv`: no window, wherever it ends, lets
more requests pass than the limit; the wait a refusal names is exact, and its seconds
are rounded up.  `RedisLock` is `SimpleRedisLock` with expiry, restarts and thread
numbers that repeat in every process; `LockInv`: who is within his lease owns the key.
Nothing in the application calls this class; it is a utility beside the Redisson locks in use.
`IdWorker` is `nextId`: the clock may jump, the counter belongs to the day that was
read; `IInv`: no id is given twice.

### How they are composed

The pipeline, the closing of orders and the preheat do interact: `SeckillOrder` contains
the stores, queue, tasks and listeners together, and `VoucherPreheat` contains the sale it
runs beside.  The components of this section share no variables with each other.  The MC modules
`MCCaches`, `MCOrderTasks`, `MCPages`, `MCRequests` put several of them side by side for
TLC.  A behaviour exercises the component named by `part`, while the others stay in one
initial state: since no component reads or writes another's variables, what is
true of one alone is true of it whatever steps of the others come in between.
Invariants that belong together are conjoined there under one name.  The constants of the
components are constants of the MC modules, so that what the runs check for small values
can be proved for all: the modules of proofs of these components extend the MC modules.

## 4. The runs

| run | instance | checks | shows |
|---|---|---|---|
| `seckill_races` | 2 attempts of one buyer, stock 2, one consumer, one dead-letter listener, two scheduler threads, 1 fault | `RedisConservation`, `DbConservation`, `RedisNeverAhead`, `ActiveOwned`, `SlotsTraced`, `ClosedReturnedOnce`, `AcceptedIsTraced`, `CancelledIsFinal` | every interleaving of request, listeners, recovery and close, with one fault anywhere; the buyer can purchase again while his first order is being cancelled or closed |
| `seckill_faults` | 2 attempts, stock 1, one scheduler, 2 attempts of a listener, 2 faults | `IInv`, which contains the type invariant and implies `AcceptedOrderFits` | the inductive invariant, with a retry and with a failure during the compensation of a failure |
| `seckill_redelivery` | 1 attempt, two consumers, 4 faults | `IInv` | a message redelivered to a second consumer while the first still works; the row lock is needed |
| `seckill_scarce` | 3 attempts of 2 buyers for 1 unit, no fault | `ImplementsSale` | the last unit, and a unit that comes back |
| `seckill_live` | 1 attempt, two schedulers, 3 faults | the three liveness properties | every slot is settled and the stores agree in the end |
| `seckill_stale_cache` | 2 attempts, stock 2, 2 faults, Redis may forget the buyer | `OneActiveOrderPerUser`, `DbConservation` | MySQL is the last line of defence |
| `order_tasks` | 2 payers, 2 close tasks, 2 faults; pages of 2 with up to 5 orders, one of them broken, one fault; 4 records, two of them broken, one fault; 2 users, stock 2, 2 faults | `LifeInv`, `ScansInv`, `PreheatInv`, `ImplementsLife`, `OrderDecided`, `ExpiredClosed`, `NothingResurrected`, `HealthySettled` | what runs around the pipeline |
| `caches` | a query, the task, an updater, 2 versions, 2 faults; 2 users, 2 requests, one old like, 1 fault | `CacheInv`, `ProjectionInv`, `CountMatches`, `AllCallsEnd`, `EventuallyFresh`, `EventuallyExact` | the two caches follow MySQL, and nobody waits for good |
| `pages` | 4 blogs, three of one millisecond and one pushed while reading, then or a millisecond later; a reader's clock that lags behind the later time or leads, at each request; 2 requests under way, 1 fault; up to 7 shops, pages of 3; 3 types, 3 threads | `FeedInv`, `GeoInv`, `TypesInv`, `EndReached` | what the pages show |
| `requests` | ids: 2 threads, days of 2 seconds, 2 ids a day; 2 users, 2 tokens, 2 threads, 1 fault; months of 3, 1, 3 days; limit 2, window 3, 6 requests; 2 processes with 2 threads, 3 starts | `IInv`, `LoginInv`, `RateInv`, `LockInv`, `EndedStaysEnded`, `CountIsStreak` | what requests pass and use |
| `close_scan_endless`, `preheat_again` | see section 7 | `ExpiredClosed`, `ClosedMayBuyAgain` | expected to be violated |

Bounds and why they are enough to be interesting:

* *Two attempts of one buyer* are what all hazards about ownership need: an old
  release against a new slot.  Two buyers matter only for the stock: `seckill_scarce`.
* *MaxFaults* counts lost replies, failed calls, disconnections, lost dead letters
  and crashes together.  A failed compensation takes two, a redelivery overtaken by its
  original three.  The theorems hold for any number.
* *MaxAttempts* is 3 in the code, 1 or 2 in the runs; 2 exercises both the retry and the
  rejection, 1 the rejection alone.  Again the theorems hold for any number.
* *Two scheduler threads* stand for two application instances; one instance runs its
  tasks one after the other.
* *Pages of two* instead of a hundred: two records that always fail fill a page, which is
  the case in which the others could starve; five orders make three pages.
* *One reader, the task and one updater* are the three kinds of threads that use the
  guard and the lock of the shop; a second reader would only wait where the task does.
  `CacheInv` is proved for any number.
* *One millisecond* for the blogs in the inbox at the start (`Inboxes`, `OneMillisecond`): more than a
  page of them is what the offset is for; pushes bring the other time.  The theorems hold
  for any inbox.
* *Times* are abstracted to "may expire now" except where a property counts them: ticks in
  `RateLimit` (window 3, clock to 7: two windows that overlap and one that does not),
  the age of a snapshot, the days of the calendar.
* `Symmetry` permutes consumers and schedulers, which no property names, and is
  used only in runs without liveness.

Deadlock is checked in `order_tasks`.  Elsewhere the system may come to rest because what
comes in is bounded (purchase attempts, versions, pages, requests, the clock); in
`caches` a thread that waited for ever would be reported by `AllCallsEnd`.

## 5. Fairness

`SeckillOrder.FairSpec` adds weak fairness of `Work(t)` for each thread and of `Expire(r)`:

* a request or listener that is in the middle of its work goes on: the JVM schedules its threads;
* an idle listener receives a queued message: RabbitMQ delivers while a consumer is connected, and Spring reconnects;
* a scheduled task runs again and again: `@Scheduled(fixedDelay)`, whose body
  catches every runtime exception;
* the database clock passes `expire_time`.

`Reserve` and `Pay` are not fair: nobody has to buy, and nobody has to pay.  No
fault is fair either, and there are at most `MaxFaults` of them: with
an endless outage nothing need ever be settled.  Weak fairness of a scheduler's
disjunction is enough there because there is one reservation and a taken-up item is
removed or completed; that a page of items is scanned fairly is the subject of
`CloseScan` and `RetryScan`, with weak fairness of the scan and of the work on a page.

`OrderLifecycle`: the threads work, the close task begins again, the deadline comes.
`ShopCache`, `SocialProjection`: threads in the middle of their work go on; a lease that
nobody renews ends, and what has a time to live expires.  `Begin` of a social transaction is
strongly fair: InnoDB queues those who wait for a row lock.  In `ShopCache` a thread that
waits for the guard needs no more than weak fairness, because the queue of the fair lock
is part of the model.  `FeedPaging`: requests are answered, and the reader scrolls on
(strong fairness of `LoadMore`, since the bound `MaxFlight` may forbid it for a while).
`Refresh` is not fair: nobody has to return to the top.

## 6. What is proved

### The core

`SeckillOrder_proofs` (for `Spec`, any set of buyers, any finite set of attempts,
any stock, any number of consumers, dead-letter listeners, schedulers, retries and faults):

| theorem | statement |
|---|---|
| `Invariance` | `Spec => []IInv` |
| `TypeCorrect` | `Spec => []TypeOK` |
| `RedisConserved`, `DbConserved`, `NeverAhead` | the three stock properties |
| `LiveOrdersOwned`, `NoSlotForgotten` | `ActiveOwned`, `SlotsTraced` |
| `AcceptedFits`, `ClosedReturned`, `AcceptedTraced` | the three properties of those names |
| `CancellationFinal` | `Spec => CancelledIsFinal`, an action property |

`SeckillRefinement_proofs` (the same assumptions):

| theorem | statement |
|---|---|
| `Refinement` | `Spec => ImplementsSale` |
| `PromisesKept` | `Spec => []Sale!NeverOversold /\ Sale!FinalStands` |
| `OrderLives` | `StaleCacheSpec => Life(r)!Spec`, for every attempt `r` |
| `PipelineLives` | `Spec => Life(r)!Spec`, its special case |

`PromisesKept` argues about `SeckillSale` only: `NeverOversold` is inductive over the sale's
steps once the number of slots is a natural number, and `Refinement` carries it over.  `Life(r)`
is the abstract life that `OrderLifecycle` implements with its snapshots and conditional
updates (section 3); the pipeline keeps to it even when Redis forgets buyers, since only rows of
MySQL take part.  Its own invariant `LivesInv` is about the close task, which returns the unit
of stock in a later transaction than the one that closes: a task at that step has found the
release job (`ReleaseFound`), and no step takes a release job back.

The assumptions are those `SeckillOrder` declares: `StockAssumption`,
`BuyersAssumption` (finitely many attempts, each with one buyer; `None` is no attempt)
and `ThreadsAssumption` (the kinds of threads are disjoint).

**Why an invariant stronger than the properties.**  None of the properties is inductive.  That
a release does not take the slot of a live order, for instance, depends on the
releasing thread having committed a cancellation, and that depends on no
create transaction being past its check at that moment, and that on the row lock.
`IInv` says what makes the argument close:

* `OwnersOK` — owner entries and the qualified set are the same set of users;
* `ReservationOK(r)` — how Redis, MySQL, the queue and the request agree about one
  reservation.  Its first conjunct carries most: *until the order exists the slot
  is held exactly while the recovery record is there*;
* `ThreadOK(t)` — what a thread may still rely on at its label.  A create transaction that
  has found the owner and the binding may rely on both until it commits, because
  whoever would remove them must first commit a cancellation, which the lock excludes;
* `OneCreator` — the lock itself;
* the two conservation equations.

**How the proof goes.**  Nearly all actions change one reservation and one thread, and
the frame lemmas (`FrameReservation`, `FrameThread`, `StepAgreement`) say so
once: what remains for an action is its own reservation and the threads that work on it.
Actions that change no store need only `ControlStep` or `QuietStep`.  The counting
lemmas (`SlotTaken`, `SlotReturned`, `OrderAdded`, `OrderRemoved`) turn an update of `owner` or
`order` into a change of a cardinality; `SlotsCoverOrders` injects live orders into
held slots, which gives `RedisNeverAhead`, and `RoomForOrder` gives room
in the database for an order that is about to be inserted.  `NextIInv` puts one lemma per
action together, and the theorems follow from `Invariance`.

The refinement reuses the invariant: `LiveIsHeld` identifies the abstract live
attempts with the Redis owners, so that the guard `stock > 0` of `seckill.lua` is the
abstract `Cardinality(Live) < Stock0`, and `user not in qualified` the abstract
"one slot per user".

### The other modules of proofs

| module | theorems | the argument |
|---|---|---|
| `SeckillOrder_proofs`, last part | `StaleInvariance`; `OneOrder`: `StaleCacheSpec => []OneActiveOrderPerUser`; `StaleDbConserved` | when Redis may forget buyers nothing of `IInv` about Redis remains.  What does remain is small: a busy thread has a reservation, and only `Insert`, `CloseOrder`, `Expire` and `Pay` touch orders.  `Insert` repeats the unique key and the stock in its guard, as the table does |
| `OrderLifecycle_proofs` | `LifeInvariance`: `Spec => []LifeInv`; `LifeRefinement`: `Spec => ImplementsLife` | `MovedOnce` (the version counts the one change of status) makes the invariant inductive: a snapshot whose version is still that of the row is a snapshot of a pending order |
| `OrderTasks_proofs` | `PreheatCorrect`, `CursorBehindPage`, `QueueInOrder`, `SettledStaysSettled`; `TasksHold`: all safety properties of `order_tasks` | see below |
| `ShopCache_proofs` | `CacheInvariance`: `Spec => []CacheInv` | `CacheInd` and `QueueOK`, see below |
| `Caches_proofs` | `CountCorrect`, `ProjectionCorrect`; `CachesHold`: all invariants of `caches` | `ProjectionInd`: until a failure is recorded, whoever relies on the lock holds it, so that a pending change is the only difference between snapshot and relation, and a relation that was read to be written is still current |
| `Pages_proofs` | `FeedInOrder`, `PagesTileTheShops`, `TypesAreWhole`; `PagesHold`: all invariants of `pages` | see below |
| `Requests_proofs` | `Invariance`, `DistinctIds`, `LeaseHoldersOwn`, `RequestsActAsThemselves`, `EndedForGood`, `TrailingOnesCount`, `SignCountIsStreak`, `RateLimitHolds`; `LoginHolds`, `RequestsHold`: all properties of `requests` | see below |

The theorems are about each component's own specification (`Feed!Spec`, `Rate!Spec`, ...);
`TasksHold`, `CachesHold`, `PagesHold`, `LoginHolds` and `RequestsHold` carry them over to the specifications
that the runs check, in which every step is one of a component and leaves the others alone.

**Assumptions.**  All are named `ASSUME`s of the modules that declare the constants, and TLC evaluates
them in the runs: users, blogs and threads are finitely many (`SiteAssumption`,
`TaskAssumption`, `BlogAssumption`, `TypesAssumption`), the pages of the site, limits and windows
hold something (`PageAssumption`; `RateAssumption`: aspect and script reject others), every month has a
day (`CalendarAssumption`), and `None` is no user, token, thread, cursor or answer.  The bounds
on faults, orders, shops, requests and the clock are any numbers.

**`OrderTasks_proofs`.**  `PreheatInd` is `StockAgrees` and `BuyersKept`, with what the creation
and the start-up preheat have read and still rely on (`CreatingOK`, `RunnerOK`): the runner's
script writes only if there is no metadata yet, and until then nobody has bought through Redis.
`ClosingInd` says that the line of orders has no duplicates and that the rest of the page is in the order of
the line and lies behind the cursor (`BatchOrdered`); an order that is inserted below the
cursor moves both.  Its lemmas say what insertion and removal
do to the places in a sequence, and that the query's scan of the line is the page
(`ExpiredAfterIsPage`).  `RetryInd`: the queue is without duplicates and the overdue
records are a prefix.

**`Pages_proofs`.**  The feed's inbox is a function from blogs to times, its order is that of times
and, for equal times, of members.  `Rank` is the place of an entry among those up to a time.
`FirstRanks` says that ranks are 1, 2, 3, ... without a gap; `OffsetIsPlace` that the
offset `queryBlogOfFollow` computes (the entries of the page with the time of its last one, plus the old offset if
that time is the cursor's) is the rank of the page's last entry among those up to its time; and so `NextIsBehind`
that behind the next cursor lies what lay behind the old one except for the page.
`RestAfterPush`: a push takes nothing from behind a cursor, and puts at most one
other entry there, and only if it has the cursor's time.  The state machine needs more than
`NothingSkipped`: what holds for the page's cursor must hold for the cursor of each request and each
answer under way (`CursorOK`, `RequestOK`, `AnswerOK`), with the list that the answer will bring.
Requests in `outdated` belong to an older list, and nothing is asked of them; all others keep
`NothingSkipped` if their answer is the next one, whatever overtakes them.  The clock is
any number at each refresh, and there need be no last time of a push.
`NoPageTwice` counts, and counts in advance (`Again`): blogs twice in the list, plus those in
the list that lie behind the cursor and will come again, are no more than the pushes that
count as late, and the same for the answer under way.

**`Requests_proofs`.**  `IInv`: ids of different seconds differ in the high bits; ids of one second
come from one day's counter, which only grows and stays below the low bits' width.
`LimitInv`: the bucket contains every passed request that is still within the window; the key as a
whole expires only when its last entry is too old to count.  `RefusalOK` is what a refusal
said, carried along until the wait it named has passed.  `SessionInv`: what a thread has in its `UserHolder` is the
user of the token it works for, since `afterCompletion` empties it; unless the thread is in `left`, whose
renewal failed and whose next request has not ended.  Renewals may fail at any time.
`SignCountIsStreak` rests on two recursive functions, the number `BITFIELD` returns and
the loop that shifts it.  `Doubling` and `Halving` are their equations; that a function
satisfies them, and what it computes, follows from a smallest counterexample
(`SmallestMember`, from the well-foundedness of `<` on the naturals), which needs no theorem with
an operator for a parameter.

**The shop cache.**  `CacheInd` of the shop cache has five parts.  `ControlOK`: which threads can be at which
labels.  `GuardOK`: who is at a label inside the guard does hold it, loads and
invalidations exclude each other, and only a load inside the guard has a version in hand, so
that no invalidation can come between its read and its writes.  `RebuildOK`: the task is
submitted at most once.  `ValuesOK`: nothing older than `floor` is in a cache or in a hand.
`LockOK` is the types of the rest.  `QueueOK` is the other half of `GuardOK`: who holds the guard is
inside, and a thread is in the queue, once, just when it is at a label where it waits.  Most
steps stay within one of three places (inside as a load, inside as an invalidation, waiting), which
`StepQueue` dismisses at once; the others join the queue (`JoinQueue`), enter from
its head (`EnterQueue`) or leave (`ExitQueue`).  `Unjammed` is the part of "no deadlock" that a proof can reach
for any number of threads; that the steps it speaks of are in the end taken is
`AllCallsEnd`, which TLC checks.  The argument about versions rests on the guard; the
distributed lock alone would not do: it excludes other loads, but no update takes it.
That a load in a *second* instance is not excluded by this instance's guard is the
documented limit of the design, and outside the module.

## 7. Where code and documents disagree

Two disagreements are runs that TLC is expected to fail.

* **`close_scan_endless`** (`ExpiredClosed`).  `OrderCloseTask.java:34` says that the scan starts
  again when it has reached the end.  The cursor goes back to 0 only after an empty
  page (line 26), so as long as at least one newer order expires in each
  interval the scan never starts again, although every page is far from full.  An order
  behind the cursor, inserted late or skipped because closing it failed once, stays PENDING
  for as long as the traffic lasts.  The orders that arrive without end are the run's
  `Endless`; in `order_tasks` they do end, and `ExpiredClosed` holds.
* **`preheat_again`** (`ClosedMayBuyAgain`).  `README.md:199` says that a user may buy again after
  closing.  `initialize` reads the buyers of live orders and runs its script afterwards.
  An order that is closed and released in Redis in between has its buyer added
  again, and nothing removes him any more.  It takes data from before the metadata; the
  close task runs from the start of the application.

Seven more have a configuration that can be run by hand.  They are
not among the runs: the code behaves as its authors may accept, or the statement
comes from a comment that promises little.  Each refutes one property; the properties the
runs check say what does hold.

| configuration | module | property | what TLC shows |
|---|---|---|---|
| `ShopCache_orphan.cfg` | `ShopCache` | `OrphanEnds` | a lock whose reply was lost is renewed by the watchdog of a thread that does not know of it, until the process ends; readers answer "try again", nobody hangs (`EveryCallEnds`) |
| `SocialProjection_missing.cfg` | `SocialProjection` | `MissingIsRebuilt` | a snapshot that expires after the rebuild and before it is read is answered as "nobody likes it" |
| `FeedPaging_refresh.cfg` | `FeedPaging` | `NeverSkipped` | a page of the old cursor that arrives after a refresh is taken for the new one, and the blogs between are skipped: `FeedInv` without its condition |
| `FeedPaging_clock.cfg` | `FeedPaging` | `FromTheNewest` | `info.html:134` asks up to the client's time when the request is sent: a newer blog that is in the inbox when the request is served is not in the answer |
| `GeoPaging_end.cfg` | `GeoPaging` | `NoMoreIsNoError` | asking for the page behind the last one, when the number of shops is a multiple of the page size, ends in an error instead of an empty page |
| `Session_leak.cfg` | `Session` | `AlwaysItself` | when the renewal of the session throws, the interceptor has already filled the thread's `UserHolder` and `afterCompletion` is not called; the next request on this pooled thread, if it has no token or none with a session, acts as that user: `ActsAsItself` without its exemption |
| `ShopTypeList_twice.cfg` | `ShopTypeList` | `EachTypeOnce` | two first readers both push: the list in Redis contains each type twice, for good |

## 8. What is only model-checked, what is not modelled

**Only model-checked.**  Liveness (`HeldSettles`, `AcceptedIsDecided`, `EventuallyReconciled`,
`OrderDecided`, `ExpiredClosed`, `HealthySettled`, `AllCallsEnd`, `EventuallyFresh`,
`EventuallyExact`, `EndReached`): its proof needs fairness and `ENABLED`, which the prover does not
handle.  Every invariant and action property of the runs, and both refinements, are proved.
The two violations of section 7 are TLC's counterexamples.

**Abstracted**, and why:

* one voucher, one shop, one blog, one bucket, one reader's inbox: no operation touches
  two (the push of a blog to all followers does, see below);
* times: where no property counts them, a deadline may pass at any moment, and retry
  back-off and confirm time-out are "eventually or never";
* JSON, headers, log lines, HTTP;
* in `SeckillOrder` the scans take any item next; their cursor, page and order are the
  subject of `CloseScan` and `RetryScan`.  The `version` column is in `OrderLifecycle`, and
  `SeckillOrder` contains the exclusive transitions it brings about;
* orders from before the reservations, the other branch of `order_close_release.lua`, are in
  `VoucherPreheat` only;
* faults are bounded in the runs, and unbounded in the theorems.

**Left out of modelled components:**

* corrupt data: Redis keys of a wrong type (the scripts' `TYPE` checks), a message whose
  identity conflicts with its stored delivery, a CREATED delivery without its order
  (create throws then; `ReservationOK` shows that the state is not reached);
* loss of Redis data as a whole, which `SeckillPreheatService` documents as a manual operation;
  its batches of 100 buyers, which only bound the size of a call;
* the second instance of the shop cache (its L1 expires after the documented time), and the
  Caffeine eviction by size, which looks like an expiry;
* the follows' projection takes the same steps as that of the likes, over two sets instead of one; the
  intersection of follows and the order in which likers are shown are reads;
* the push of a blog to all followers, which stops at the first failure and is not
  repeated; the other queries of blogs;
* sorting in the shop list: `sortAndQuery` (`shop-list.html:137-140`) asks for the current page again
  without emptying the list, to which the answer is appended, so the shops of that page are shown
  a second time; `GeoInv` is about a reader who scrolls and does not sort.  The list without
  coordinates, which is one query of MySQL;
* the time a task of the rebuild pool waits in the pool's queue: `ShopCache.Submit` puts the task
  where it asks for the guard, and the wait for the guard stands for both;
* `sendCode` and the insertion of a first user: one write each, whose races MySQL's unique key
  decides;
* the key of a rate-limit bucket (method, user, client address): text processing;
* an empty table of shop types, for which `rightPushAll` throws: the schema fills it.

**Not modelled:** comments, uploads, user info, the controllers, configuration and exception
advice (wiring, and CRUD without a protocol); deployment, migrations and measurements; the
pages other than `info.html` and `shop-list.html`, whose scripts render what they
receive, among them `formatPrice` of `common.js`.  `frontend/js/vue.js` and
`frontend/js/element.js` are copies of Vue and Element: most of the JavaScript in the
repository by size, and none of it the application's.

## 9. What is left

* a second instance of the shop cache, and the follows' projection with its two sets;
* `SeckillOrder` with `OrderLifecycle` in the place of its atomic payment and closing.  Today both
  are proved to implement the same `OrderLife`, each on its own.
