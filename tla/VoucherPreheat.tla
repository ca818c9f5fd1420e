----------------------------- MODULE VoucherPreheat -----------------------------
(***************************************************************************)
(* How one seckill voucher comes on sale: its creation and the preheat     *)
(* after the commit (VoucherServiceImpl), the preheat at start-up          *)
(* (SeckillPreheatService.run) of vouchers that were sold before their     *)
(* Redis keys had metadata, and, beside it, the sale, and the closing of   *)
(* orders that have no reservation (order_close_release.lua).              *)
(*                                                                         *)
(* A purchase is two steps here, qualification and order; SeckillOrder has *)
(* the rest.  The scheduled close task starts with the application, the    *)
(* start-up preheat runs beside it.                                        *)
(***************************************************************************)
EXTENDS Integers, FiniteSets

CONSTANTS
    Users,
    Stock0,         \* stock of a new voucher
    MaxFaults,      \* bound on failed preheats
    None

VARIABLES
    dbStock,        \* tb_seckill_voucher.stock, None before the voucher is saved
    order,          \* status of each user's last order
    job,            \* closed orders still to be released in Redis, as user and owner
    stock,          \* seckill:stock:{voucher}, None without the key
    qualified,      \* seckill:order:{voucher}, None without the key
    meta,           \* seckill:meta:{voucher} exists
    owners,         \* users in seckill:owner:{voucher}: their purchase has a reservation
    reserved,       \* users with a reservation and no order yet
    hook,           \* the creating request: before, in or after its preheat
    runner,         \* the start-up preheat: not started, running its script, done
    buyers,         \* the buyers it has read
    amount,         \* the stock it has read
    faults

dbVars    == <<dbStock, order, job>>
redisVars == <<stock, qualified, meta>>
readVars  == <<runner, buyers, amount>>
vars == <<dbVars, redisVars, owners, reserved, hook, readVars, faults>>

Active == {u \in Users : order[u] \in {"PENDING", "PAID"}}

\* A voucher still to be created, or one from before the metadata: its stock key, if it
\* has one, agrees with MySQL; its set holds some of its buyers, if it was written at all.
Init ==
    /\ \/ /\ dbStock = None /\ order = [u \in Users |-> "none"]
          /\ stock = None /\ qualified = None
          /\ hook = "before"
       \/ /\ dbStock \in 0..Stock0
          /\ order \in [Users -> {"none", "PENDING", "PAID"}]
          /\ stock \in {dbStock, None}
          /\ qualified \in {None} \cup SUBSET Active
          /\ hook = "after"
    /\ job = {}
    /\ meta = FALSE /\ owners = {}
    /\ reserved = {}
    /\ runner = "start" /\ buyers = {} /\ amount = None
    /\ faults = 0

Fault == faults < MaxFaults /\ faults' = faults + 1

--------------------------------------------------------------------------------
\* Slip: the script takes the caller's stock for every voucher.
AnyVoucher(new) == TRUE

\* seckill_preheat.lua: only a new voucher may be given a stock key.
Fresh(new) == stock = None /\ new

\* Slip: the check of the missing stock key is dropped.
NeverRefused(new) == FALSE

\* An old voucher whose stock key is missing is refused.
Refused(new) == stock = None /\ ~new

\* The script leaves a voucher with metadata alone.
Preheat(new, units, users) ==
    IF meta \/ Refused(new)
    THEN UNCHANGED redisVars
    ELSE /\ stock' = IF Fresh(new) THEN units ELSE stock
         /\ qualified' = (IF qualified = None THEN {} ELSE qualified) \cup users
         /\ meta' = TRUE

\* addSeckillVoucher commits; its hook is still to run.
Create ==
    /\ hook = "before"
    /\ dbStock' = Stock0
    /\ hook' = "hook"
    /\ UNCHANGED <<order, job, redisVars, owners, reserved, readVars, faults>>

AfterCommit ==
    /\ hook = "hook"
    /\ Preheat(TRUE, Stock0, {})
    /\ hook' = "after"
    /\ UNCHANGED <<dbVars, owners, reserved, readVars, faults>>

\* The call of the script fails: that is logged and nothing else (catch in afterCommit).
HookFails ==
    /\ hook = "hook" /\ Fault
    /\ hook' = "after"
    /\ UNCHANGED <<dbVars, redisVars, owners, reserved, readVars>>

\* Slip: only unpaid orders count as purchases.
Unpaid == {u \in Users : order[u] = "PENDING"}

\* The buyers of the orders that are not closed.
Buyers == Active

\* run: nothing to do for a voucher with metadata; for another one its buyers are read.
RunnerReads ==
    /\ runner = "start"
    /\ IF meta \/ dbStock = None
       THEN runner' = "done" /\ UNCHANGED <<buyers, amount>>
       ELSE runner' = "script" /\ buyers' = Buyers /\ amount' = dbStock
    /\ UNCHANGED <<dbVars, redisVars, owners, reserved, hook, faults>>

RunnerScript ==
    /\ runner = "script"
    /\ Preheat(FALSE, amount, buyers)
    /\ runner' = "done" /\ buyers' = {} /\ amount' = None
    /\ UNCHANGED <<dbVars, owners, reserved, hook, faults>>

\* The process is restarted; a hook that has not run is forgotten.
Restart ==
    /\ runner' = "start" /\ buyers' = {} /\ amount' = None
    /\ hook' = IF hook = "hook" THEN "after" ELSE hook
    /\ UNCHANGED <<dbVars, redisVars, owners, reserved, faults>>

--------------------------------------------------------------------------------
(* The sale and the closing of orders.                                     *)

\* seckill.lua needs stock, buyers and metadata.
Reserve(u) ==
    /\ meta /\ stock # None /\ qualified # None
    /\ stock > 0 /\ u \notin qualified
    /\ stock' = stock - 1
    /\ qualified' = qualified \cup {u} /\ owners' = owners \cup {u}
    /\ reserved' = reserved \cup {u}
    /\ UNCHANGED <<meta, dbVars, hook, readVars, faults>>

Order(u) ==
    /\ u \in reserved
    /\ reserved' = reserved \ {u}
    /\ order' = [order EXCEPT ![u] = "PENDING"]
    /\ dbStock' = dbStock - 1
    /\ UNCHANGED <<job, redisVars, owners, hook, readVars, faults>>

Pay(u) ==
    /\ order[u] = "PENDING"
    /\ order' = [order EXCEPT ![u] = "PAID"]
    /\ UNCHANGED <<dbStock, job, redisVars, owners, reserved, hook, readVars, faults>>

\* An order from before the reservations is released without an owner.
Owner(u) == IF u \in owners THEN "reservation" ELSE "nobody"

Close(u) ==
    /\ order[u] = "PENDING"
    /\ order' = [order EXCEPT ![u] = "CLOSED"]
    /\ dbStock' = dbStock + 1
    /\ job' = job \cup {<<u, Owner(u)>>}
    /\ UNCHANGED <<redisVars, owners, reserved, hook, readVars, faults>>

\* order_close_release.lua: without the keys, the user in the set and the order's
\* owner in place, the release is tried later.
Release(u) ==
    /\ <<u, Owner(u)>> \in job
    /\ stock # None /\ qualified # None /\ u \in qualified
    /\ stock' = stock + 1
    /\ qualified' = qualified \ {u} /\ owners' = owners \ {u}
    /\ job' = job \ {<<u, Owner(u)>>}
    /\ UNCHANGED <<meta, dbStock, order, reserved, hook, readVars, faults>>

Next ==
    \/ Create \/ AfterCommit \/ HookFails
    \/ RunnerReads \/ RunnerScript \/ Restart
    \/ \E u \in Users : Reserve(u) \/ Order(u) \/ Pay(u) \/ Close(u) \/ Release(u)

Spec == Init /\ [][Next]_vars

--------------------------------------------------------------------------------
\* Every variable has its type; a voucher with metadata has its stock and its set of
\* buyers (seckill.lua answers "inconsistent" without them).
TypeOK ==
    /\ amount \in Nat \cup {None}
    /\ meta => stock # None /\ qualified # None
    /\ dbStock \in Nat \cup {None} /\ stock \in Nat \cup {None}
    /\ order \in [Users -> {"none", "PENDING", "PAID", "CLOSED"}]
    /\ job \subseteq Users \X {"reservation", "nobody"}
    /\ owners \subseteq Users /\ reserved \subseteq Users /\ buyers \subseteq Users
    /\ qualified \in (SUBSET Users) \cup {None}
    /\ meta \in BOOLEAN
    /\ hook \in {"before", "hook", "after"} /\ runner \in {"start", "script", "done"}
    /\ faults \in 0..MaxFaults

\* Redis never offers a unit that MySQL has not, whichever preheat ran, how often and
\* beside which purchases ("never overwrite live stock", seckill_preheat.lua).
StockAgrees ==
    stock # None => stock + Cardinality(reserved) + Cardinality(job) = dbStock

\* Once the voucher is on sale, no buyer of a live order can buy again.
BuyersKept == meta => Active \cup reserved \subseteq qualified

\* "After closing the user may buy again" (README, orders): whoever is kept
\* from buying has a purchase, or one whose release is still to come.
ClosedMayBuyAgain ==
    meta => qualified \subseteq Active \cup reserved \cup {entry[1] : entry \in job}
================================================================================
