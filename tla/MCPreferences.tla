--------------------------- MODULE MCPreferences ---------------------------
(* Instances of Preferences for TLC. *)
EXTENDS Preferences, TLC

CONSTANTS k1, k2, c1, p1, p2, r1

OneClient == [k \in Kinds |-> c1]

\* Both kinds and the global setting on, or the global setting off, with one
\* kind or none.
SomeAsks == {f \in Ask : IF f[Global] = "on" THEN f[k1] # "none" /\ f[k2] # "none"
                         ELSE "none" \in {f[k1], f[k2]} /\ "on" \notin {f[k1], f[k2]}}

Symmetry == Permutations(Updates) \cup Permutations(Kinds)
=============================================================================
