------------------------------ MODULE SeckillSale ------------------------------
(***************************************************************************)
(* What the flash sale of one voucher promises, with neither Redis nor     *)
(* RabbitMQ nor MySQL in sight.  Every purchase attempt (one HTTP request, *)
(* one reservation token, one order id) is in one phase:                   *)
(*                                                                         *)
(*   new      not yet asked                                                *)
(*   held     a slot is taken for it, the order is not yet in the database *)
(*   ordered  the order is in the database and not yet paid                *)
(*   paid     the order is paid                                            *)
(*   closed   the order timed out and its slot is still to be given back   *)
(*   gone     it holds no slot and never will                              *)
(***************************************************************************)
EXTENDS Integers, FiniteSets

CONSTANTS
    Users,          \* the buyers
    Reservations,   \* the purchase attempts
    UserOf,         \* the buyer of each attempt
    Stock0          \* the stock the voucher was put on sale with

VARIABLE phase

Phases == {"new", "held", "ordered", "paid", "closed", "gone"}

Live == {r \in Reservations : phase[r] \in {"held", "ordered", "paid", "closed"}}

Init == phase = [r \in Reservations |-> "new"]

Become(r, from, to) == phase[r] \in from /\ phase' = [phase EXCEPT ![r] = to]

\* A slot is given only while one is left, and only to a user who has none.
Hold(r) ==
    /\ Cardinality(Live) < Stock0
    /\ \A r2 \in Live : UserOf[r2] # UserOf[r]
    /\ Become(r, {"new"}, "held")

Refuse(r)   == Become(r, {"new"}, "gone")
Order(r)    == Become(r, {"held"}, "ordered")
Pay(r)      == Become(r, {"ordered"}, "paid")
Close(r)    == Become(r, {"ordered"}, "closed")
GiveBack(r) == Become(r, {"held", "closed"}, "gone")

Next ==
    \E r \in Reservations :
        Hold(r) \/ Refuse(r) \/ Order(r) \/ Pay(r) \/ Close(r) \/ GiveBack(r)

Spec == Init /\ [][Next]_phase

--------------------------------------------------------------------------------
\* Never more slots than there was stock, and never two of one buyer.
NeverOversold ==
    /\ Cardinality(Live) <= Stock0
    /\ \A r1, r2 \in Live : UserOf[r1] = UserOf[r2] => r1 = r2

\* A payment stands, and who has given his slot back does not get it again.
FinalStands ==
    [][\A r \in Reservations : phase[r] \in {"paid", "gone"} => phase'[r] = phase[r]]_phase
================================================================================
