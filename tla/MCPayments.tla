------------------------------ MODULE MCPayments ------------------------------
(* Small instances of Payments: one reservation, a deposit of two at Stripe or
   Redsys and a payment of one. *)
EXTENDS Payments, TLC

CONSTANTS c1, c2, r1, deposit, rental

OneReservation == [l \in Link |-> r1]
DepositOfTwo == [l \in Link |-> IF l = deposit THEN 2 ELSE 1]
Clerks == Permutations(Clerk)
OwesTwo == [r \in Reservation |-> 2]

=============================================================================
