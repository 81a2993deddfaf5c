------------------------------ MODULE JobQueue ------------------------------
(***************************************************************************)
(* What a client of gobble may rely on: a job that was enqueued stays      *)
(* queued until a callback has ended without asking for a retry, and a     *)
(* removed job never returns.  Callbacks may run more than once.           *)
(***************************************************************************)
EXTENDS Integers

CONSTANT MaxJobs

VARIABLES
    state,    \* JobID -> "absent" | "queued" | "gone"
    finished  \* jobs some callback has finished

JobIDs == 1 .. MaxJobs

Init ==
    /\ state = [j \in JobIDs |-> "absent"]
    /\ finished = {}

\* The job is stored.
Submit(j) ==
    /\ state[j] = "absent"
    /\ state' = [state EXCEPT ![j] = "queued"]
    /\ UNCHANGED finished

\* A callback ends without a retry.  One that was handed the job before
\* another finished it may end after the job is gone.
Finish(j) ==
    /\ state[j] # "absent"
    /\ finished' = finished \cup {j}
    /\ UNCHANGED state

\* A finished job is removed.
Retire(j) ==
    /\ state[j] = "queued"
    /\ j \in finished
    /\ state' = [state EXCEPT ![j] = "gone"]
    /\ UNCHANGED finished

Next == \E j \in JobIDs : Submit(j) \/ Finish(j) \/ Retire(j)

Spec == Init /\ [][Next]_<<state, finished>>
=============================================================================
