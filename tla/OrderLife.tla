-------------------------------- MODULE OrderLife --------------------------------
(***************************************************************************)
(* What the life of one order promises: until its deadline it may be paid, *)
(* after it it may be closed, one of the two and once; its unit of stock   *)
(* returns with the closing.                                               *)
(***************************************************************************)
VARIABLES
    state,          \* "PENDING", "PAID" or "CLOSED"
    late,           \* the deadline has passed
    returned        \* the unit of stock has been given back

lifeVars == <<state, late, returned>>

Init == state = "PENDING" /\ late \in BOOLEAN /\ returned = FALSE

Deadline == ~late /\ late' = TRUE /\ UNCHANGED <<state, returned>>

Pay ==
    /\ state = "PENDING" /\ ~late
    /\ state' = "PAID"
    /\ UNCHANGED <<late, returned>>

Close ==
    /\ state = "PENDING" /\ late
    /\ state' = "CLOSED"
    /\ returned' = TRUE
    /\ UNCHANGED late

Spec == Init /\ [][Deadline \/ Pay \/ Close]_lifeVars
================================================================================
