----------------------------- MODULE MCSeckillOrder -----------------------------
(* Small instances of SeckillOrder for TLC. *)
EXTENDS SeckillOrder, TLC

CONSTANTS r1, r2, r3, u1, u2

\* A single attempt.
OneAttempt == r1 :> u1

\* Two attempts of one buyer.
SameBuyer == r1 :> u1 @@ r2 :> u1

\* Two attempts of two buyers.
TwoBuyers == r1 :> u1 @@ r2 :> u2

\* One buyer who tries twice and another one.
ThreeAttempts == r1 :> u1 @@ r2 :> u1 @@ r3 :> u2

Symmetry == Permutations(Consumers) \cup Permutations(Schedulers)
================================================================================
