----------------------------- MODULE MCDispatch -----------------------------
(* Instances of Dispatch for TLC. *)
EXTENDS Dispatch, TLC

CONSTANTS p1, p2, p3

\* Two requests that may share a client, and one of any other kind.
SomeRoutes ==
    p1 :> {"scope"} @@ p2 :> {"scope", "everyone"}
        @@ p3 :> {"user", "organization", "space", "worker"}
=============================================================================
