----------------------------- MODULE MCDelivery -----------------------------
(* Instances of Delivery for TLC. *)
EXTENDS Delivery, TLC

CONSTANTS r1, m1, m2, u1, w1, w2

OneMessage == r1 :> {m1}
TwoMessages == r1 :> {m1, m2}
OneUser == [m \in Messages |-> u1]
ByAddress == [m \in Messages |-> "valid"]
ByUser == [m \in Messages |-> "none"]

\* The messages of one request are interchangeable.
Symmetry == Permutations(Messages)
=============================================================================
