------------------------------ MODULE MCGobble ------------------------------
(* Instances of Gobble for TLC. *)
EXTENDS Gobble, TLC

CONSTANTS i1, i2, w1, w2

TwoHosts == (w1 :> i1) @@ (w2 :> i2)
=============================================================================
