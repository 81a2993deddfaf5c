----------------------------- MODULE MCTemplates -----------------------------
(* Instances of Templates for TLC. *)
EXTENDS Templates

CONSTANTS i1, i2, v1, v2, p1, p2, p3, t1
=============================================================================
