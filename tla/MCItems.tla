------------------------------- MODULE MCItems -------------------------------
(* A small instance of Items for TLC. *)
EXTENDS Items

CONSTANTS ring

Trades == <<[id |-> ring, buy |-> 2, sell |-> 2]>>
Crafts == <<[id |-> ring, needs |-> <<[id |-> Gold, amount |-> 2]>>]>>
Appears == <<{[id |-> ring, amount |-> 2]}>>
\* What was lost only makes less: nothing new follows from there.
Few == /\ \A i \in Item : Lost(i) = 0
       /\ Total(Gold) <= 2 /\ Total(Gold) + Total(ring) <= 3

Bounds == [i \in Item |-> IF i = Gold THEN 4 ELSE 3]
=============================================================================
