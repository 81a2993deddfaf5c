--------------------------- MODULE GobbleTheorems ---------------------------
(***************************************************************************)
(* The properties of Gobble, from its inductive invariant.  The attempts   *)
(* need a budget of their own: the number of workers with a job in hand    *)
(* enters it, and with it the finiteness of their set.                     *)
(***************************************************************************)
EXTENDS GobbleInvariant, FiniteSetTheorems

\* The copies of Reserved, spelled out.
LEMMA ReservedCopies ==
    ASSUME NEW w \in Workers, NEW c \in Reserved(w)
    PROVE  \/ FHolds(w) /\ c = fetch[w].job
           \/ PHolds(w) /\ c = perf[w].job
  BY Zenon DEF Reserved, FHolds, PHolds

\* At most one worker holds a job at the version of its row, so only one can
\* still requeue or delete it (OneCurrentHolder), however many boots unlocked
\* the row in between.
THEOREM OneHolder == Spec => []OneCurrentHolder
<1>1. IndInv => OneCurrentHolder
  <2> SUFFICES ASSUME IndInv, NEW v \in Workers, NEW w \in Workers,
                      NEW c \in Reserved(v), NEW d \in Reserved(w),
                      v # w, c.id = d.id, Current(c), Current(d)
               PROVE  FALSE
    BY Zenon DEF OneCurrentHolder
  <2>1. c.version = d.version
    BY Zenon DEF Current
  <2> QED
    BY <2>1, ReservedCopies DEF IndInv, DistinctInv
<1> QED
  BY <1>1, IndInvCorrect, PTL

\* A locked row has a worker that still holds it, unless that worker's process
\* is down or its queue was closed (LockedRowHasHolder).
THEOREM LockedHeld == Spec => []LockedRowHasHolder
<1>1. IndInv => LockedRowHasHolder
  <2> SUFFICES ASSUME IndInv, NEW j \in JobID, jobs[j].worker # Free
               PROVE  LET w == jobs[j].worker IN
                      \/ \E c \in Reserved(w) : c.id = j /\ Current(c)
                      \/ inst[Host[w]] = "down"
                      \/ closed[Host[w]]
    BY Zenon DEF LockedRowHasHolder
  <2> DEFINE w == jobs[j].worker
  <2>1. w \in Workers
    BY Fields, Zenon DEF IndInv
  <2>2. CASE FHolds(w) /\ fetch[w].job.id = j /\ Current(fetch[w].job)
    <3>1. fetch[w].job \in Reserved(w)
      BY <2>2, Zenon DEF Reserved, FHolds
    <3> QED
      BY <2>2, <3>1, Zenon
  <2>3. CASE PHolds(w) /\ perf[w].job.id = j /\ Current(perf[w].job)
    <3>1. perf[w].job \in Reserved(w)
      BY <2>3, Zenon DEF Reserved, PHolds
    <3> QED
      BY <2>3, <3>1, Zenon
  <2>4. CASE inst[Host[w]] = "down" \/ closed[Host[w]]
    BY <2>4, Zenon
  <2> QED
    BY <2>1, <2>2, <2>3, <2>4, Zenon DEF IndInv, LockInv
<1> QED
  BY <1>1, IndInvCorrect, PTL

-----------------------------------------------------------------------------
(* No stale copy overwrites a reservation.                                 *)

\* Rows are locked only once their active_at has passed.
LockedActive ==
    \A j \in JobID : jobs[j].worker # Free => jobs[j].active_at = "past"

\* findJob selects active rows only, and a reservation writes active_at back
\* as it was read: a locked row is never waiting for its retry.
THEOREM LockedRowsActive == Spec => []LockedActive
<1>1. Init => LockedActive
  BY DEF Init, LockedActive, NoRow
<1>2. IndInv /\ LockedActive /\ [Next]_vars => LockedActive'
  <2> SUFFICES ASSUME IndInv, LockedActive, [Next]_vars,
                      NEW j \in JobID, jobs'[j].worker # Free
               PROVE  jobs'[j].active_at = "past"
    BY Zenon DEF LockedActive
  <2>1. CASE jobs' = jobs
    BY <2>1, Zenon DEF LockedActive
  <2>2. ASSUME NEW i \in Instances, Boot(i) PROVE FALSE
    BY <2>2, Zenon DEF Boot, IndInv, TypeOK, Row
  <2>3. ASSUME NEW i \in Instances, Enqueue(i) PROVE jobs'[j].active_at = "past"
    BY <2>3, Zenon DEF Enqueue, IndInv, TypeOK, LockedActive
  <2>4. ASSUME NEW k \in JobID, Elapse(k) PROVE jobs'[j].active_at = "past"
    BY <2>4 DEF Elapse, IndInv, TypeOK, Row, LockedActive
  <2>5. ASSUME NEW w \in Workers, updateJob(w) PROVE jobs'[j].active_at = "past"
    BY <2>5 DEF updateJob, Write, IndInv, TypeOK, LockedActive
  <2>6. ASSUME NEW w \in Workers, release(w) PROVE jobs'[j].active_at = "past"
    BY <2>6 DEF release, Write, IndInv, TypeOK, LockedActive
  <2>7. ASSUME NEW w \in Workers, Requeue(w) PROVE jobs'[j].active_at = "past"
    BY <2>7 DEF Requeue, Write, IndInv, TypeOK, LockedActive
  <2>8. ASSUME NEW w \in Workers, Dequeue(w) PROVE jobs'[j].active_at = "past"
    BY <2>8 DEF Dequeue, NoRow, IndInv, TypeOK, LockedActive
  <2> QED
    BY <2>1, <2>2, <2>3, <2>4, <2>5, <2>6, <2>7, <2>8, Zenon
       DEF Next, WorkerStep, StartWorkers, Crash, Close, findJob, checkClosed, Perform,
           Receive, Halt, CallbackRetries, CallbackCompletes, queueVars, vars
<1> QED
  BY <1>1, <1>2, IndInvCorrect, PTL DEF Spec

\* A row whose holder is still current changes only by a step of that holder
\* or by the Unlock of a boot (ReservationRespected).
THEOREM ReservationKept == Spec => ReservationRespected
<1> DEFINE Kept(w, j) ==
      (/\ jobs[j].worker = w
       /\ \E c \in Reserved(w) : c.id = j /\ Current(c)
       /\ jobs'[j] # jobs[j])
      => boots' # boots \/ fetch'[w] # fetch[w] \/ perf'[w] # perf[w]
<1>1. IndInv /\ LockedActive /\ [Next]_vars
        => \A w \in Workers, j \in JobID : Kept(w, j)
  <2> SUFFICES ASSUME IndInv, LockedActive, [Next]_vars,
                      NEW w \in Workers, NEW j \in JobID,
                      jobs[j].worker = w,
                      NEW c \in Reserved(w), c.id = j, Current(c),
                      jobs'[j] # jobs[j], boots' = boots,
                      fetch'[w] = fetch[w], perf'[w] = perf[w]
               PROVE  FALSE
    BY Zenon
  <2>1. w # Free
    BY GobbleAssumption, Zenon
  <2>2. /\ (FHolds(w) /\ c = fetch[w].job) \/ (PHolds(w) /\ c = perf[w].job)
        /\ j <= lastID
    <3>1. (FHolds(w) /\ c = fetch[w].job) \/ (PHolds(w) /\ c = perf[w].job)
      BY ReservedCopies, Zenon
    <3> QED
      BY <3>1, Fields DEF IndInv, CopyInv, FReads, NotNewer
  <2>3. ASSUME NEW i \in Instances, Boot(i) PROVE FALSE
    BY <2>3, GobbleAssumption DEF Boot, IndInv, TypeOK
  <2>4. ASSUME NEW i \in Instances, Enqueue(i) PROVE FALSE
    BY <2>4, <2>2, Fields DEF Enqueue, IndInv, TypeOK
  <2>5. ASSUME NEW k \in JobID, Elapse(k) PROVE FALSE
    BY <2>5, <2>1, Zenon DEF Elapse, IndInv, TypeOK, LockedActive
  <2>6. ASSUME NEW v \in Workers, updateJob(v) PROVE FALSE
    <3>1. fetch[v].pc = "update" /\ fetch'[v].pc # "update"
      BY <2>6, FetchEffect DEF updateJob, IndInv
    <3>2. fetch[v].job.id = j /\ Current(fetch[v].job)
      BY <2>6, Fields, Zenon DEF updateJob, Write, IndInv, TypeOK
    <3> QED
      BY <2>1, <3>1, <3>2, Zenon DEF IndInv, FindInv
  <2>7. ASSUME NEW v \in Workers, release(v) PROVE FALSE
    <3>1. v # w /\ FHolds(v)
      BY <2>7, FetchEffect DEF release, IndInv, FHolds
    <3>2. fetch[v].job.id = j /\ Current(fetch[v].job)
      BY <2>7, Fields, Zenon DEF release, Write, IndInv, TypeOK
    <3> QED
      BY <2>2, <3>1, <3>2 DEF IndInv, DistinctInv, Current
  <2>8. ASSUME NEW v \in Workers, Requeue(v) PROVE FALSE
    <3>1. perf[v].job.id = j /\ Current(perf[v].job)
      BY <2>8, Fields, Zenon DEF Requeue, Write, IndInv, TypeOK
    <3>2. v # w /\ PHolds(v)
      BY <2>8, <3>1, PerfEffect DEF Requeue, IndInv, PHolds
    <3> QED
      BY <2>2, <3>1, <3>2 DEF IndInv, DistinctInv, Current
  <2>9. ASSUME NEW v \in Workers, Dequeue(v) PROVE FALSE
    <3>1. perf[v].job.id = j /\ Current(perf[v].job)
      BY <2>9, Fields, Zenon DEF Dequeue, IndInv, TypeOK
    <3>2. v # w /\ PHolds(v)
      BY <2>9, <3>1, PerfEffect DEF Dequeue, IndInv, PHolds
    <3> QED
      BY <2>2, <3>1, <3>2 DEF IndInv, DistinctInv, Current
  <2> QED
    BY <2>3, <2>4, <2>5, <2>6, <2>7, <2>8, <2>9, Zenon
       DEF Next, WorkerStep, StartWorkers, Crash, Close, findJob, checkClosed, Perform,
           Receive, Halt, CallbackRetries, CallbackCompletes, queueVars, vars
<1> QED
  BY <1>1, IndInvCorrect, LockedRowsActive, PTL DEF Spec, ReservationRespected

-----------------------------------------------------------------------------
(* gobble implements the abstract queue.                                   *)

\* A step that keeps the existence of rows keeps the abstract state.
LEMMA SameState ==
    ASSUME lastID' = lastID,
           \A j \in JobID : (Exists(j))' <=> Exists(j)
    PROVE  JobState' = JobState
<1>1. JobID' = JobID
  BY Zenon DEF JobID
<1> QED
  BY <1>1, Zenon DEF JobState

\* Every behaviour of the table, the workers and their processes is one of the
\* at-least-once queue of module JobQueue (ImplementsJobQueue).
THEOREM Refinement == Spec => ImplementsJobQueue
<1>1. Init => Abstract!Init
  BY GobbleAssumption DEF Init, Abstract!Init, Abstract!JobIDs, JobState, JobID
<1>2. IndInv /\ [Next]_vars => [Abstract!Next]_<<JobState, completed>>
  <2> SUFFICES ASSUME IndInv, [Next]_vars
               PROVE  Abstract!Next \/ (JobState' = JobState /\ completed' = completed)
    BY Zenon
  <2> USE Fields, GobbleAssumption DEF IndInv
  <2>1. CASE jobs' = jobs /\ lastID' = lastID /\ completed' = completed
    BY <2>1, SameState, Zenon DEF Exists
  <2>2. ASSUME NEW i \in Instances, Boot(i)
        PROVE  JobState' = JobState /\ completed' = completed
    <3>1. \A j \in JobID : jobs'[j].version = jobs[j].version
      BY <2>2 DEF Boot, TypeOK, Row
    <3> QED
      BY <2>2, <3>1, SameState, Zenon DEF Boot, Exists, history
  <2>3. ASSUME NEW i \in Instances, Enqueue(i) PROVE Abstract!Next
    <3>1. lastID + 1 \in JobID
      BY <2>3 DEF Enqueue, JobID
    <3>2. /\ jobs'[lastID + 1].version = 1 /\ lastID' = lastID + 1
          /\ \A j \in JobID : j # lastID + 1 => jobs'[j] = jobs[j]
          /\ completed' = completed
      BY <2>3, <3>1, Zenon DEF Enqueue, TypeOK, history
    <3>3. JobState[lastID + 1] = "absent"
      BY <3>1 DEF JobState
    <3>4. JobState' = [JobState EXCEPT ![lastID + 1] = "queued"]
      <4>1. \A j \in JobID :
               (IF j > lastID' THEN "absent" ELSE IF (Exists(j))' THEN "queued" ELSE "gone")
                  = IF j = lastID + 1 THEN "queued" ELSE JobState[j]
        BY <3>1, <3>2 DEF JobState, Exists, JobID
      <4>2. JobState' = [j \in JobID |-> IF j = lastID + 1 THEN "queued" ELSE JobState[j]]
        BY <4>1, Zenon DEF JobState, JobID
      <4> QED
        BY <4>2, Zenon DEF JobState
    <3> QED
      BY <3>1, <3>2, <3>3, <3>4, Zenon DEF Abstract!Next, Abstract!Submit, Abstract!JobIDs, JobID
  <2>4. ASSUME NEW k \in JobID, Elapse(k)
        PROVE  JobState' = JobState /\ completed' = completed
    <3>1. \A j \in JobID : jobs'[j].version = jobs[j].version
      BY <2>4 DEF Elapse, TypeOK, Row
    <3> QED
      BY <2>4, <3>1, SameState, Zenon DEF Elapse, Exists, history
  <2>5. ASSUME NEW w \in Workers, updateJob(w)
        PROVE  JobState' = JobState /\ completed' = completed
    <3>1. \A j \in JobID : Exists(j)' <=> Exists(j)
      <4> DEFINE c == fetch[w].job
      <4>1. c \in Copy /\ c.id \in JobID /\ NotNewer(c)
        BY <2>5, CopiesInTable, ReadTypes, Zenon DEF updateJob, CopyInv, FReads
      <4>2. CASE jobs' = jobs
        BY <4>2, Zenon DEF Exists
      <4>3. CASE jobs' # jobs
        <5>1. lastID' = lastID /\ Current(c) /\ \E u, n, at : jobs' = Write(c, u, n, at)
          BY <2>5, <4>3, Zenon DEF updateJob, history
        <5>2. PICK u, n, at : jobs' = Write(c, u, n, at)
          BY <5>1, Zenon
        <5>3. /\ jobs'[c.id].version = c.version + 1
              /\ \A j \in JobID : j # c.id => jobs'[j] = jobs[j]
          BY <4>1, <5>2, WriteEffect, Zenon
        <5> QED
          BY <4>1, <5>1, <5>3, RowsAge, Zenon
      <4> QED
        BY <4>2, <4>3, Zenon
    <3> QED
      BY <2>5, <3>1, SameState, Zenon DEF updateJob, Exists, history
  <2>6. ASSUME NEW w \in Workers, release(w)
        PROVE  JobState' = JobState /\ completed' = completed
    <3>1. \A j \in JobID : Exists(j)' <=> Exists(j)
      <4> DEFINE c == fetch[w].job
      <4>1. c \in Copy /\ c.id \in JobID /\ NotNewer(c)
        BY <2>6, CopiesInTable, ReadTypes, Zenon DEF release, CopyInv, FReads, FHolds
      <4>2. CASE jobs' = jobs
        BY <4>2, Zenon DEF Exists
      <4>3. CASE jobs' # jobs
        <5>1. lastID' = lastID /\ Current(c) /\ \E u, n, at : jobs' = Write(c, u, n, at)
          BY <2>6, <4>3, Zenon DEF release, history
        <5>2. PICK u, n, at : jobs' = Write(c, u, n, at)
          BY <5>1, Zenon
        <5>3. /\ jobs'[c.id].version = c.version + 1
              /\ \A j \in JobID : j # c.id => jobs'[j] = jobs[j]
          BY <4>1, <5>2, WriteEffect, Zenon
        <5> QED
          BY <4>1, <5>1, <5>3, RowsAge, Zenon
      <4> QED
        BY <4>2, <4>3, Zenon
    <3> QED
      BY <2>6, <3>1, SameState, Zenon DEF release, Exists, history
  <2>7. ASSUME NEW w \in Workers, Requeue(w)
        PROVE  JobState' = JobState /\ completed' = completed
    <3>1. \A j \in JobID : Exists(j)' <=> Exists(j)
      <4> DEFINE c == perf[w].job
      <4>1. c \in Copy /\ c.id \in JobID /\ NotNewer(c)
        BY <2>7, CopiesInTable, ReadTypes, Zenon DEF Requeue, CopyInv, PHolds
      <4>2. CASE jobs' = jobs
        BY <4>2, Zenon DEF Exists
      <4>3. CASE jobs' # jobs
        <5>1. lastID' = lastID /\ Current(c) /\ \E u, n, at : jobs' = Write(c, u, n, at)
          BY <2>7, <4>3, Zenon DEF Requeue, history
        <5>2. PICK u, n, at : jobs' = Write(c, u, n, at)
          BY <5>1, Zenon
        <5>3. /\ jobs'[c.id].version = c.version + 1
              /\ \A j \in JobID : j # c.id => jobs'[j] = jobs[j]
          BY <4>1, <5>2, WriteEffect, Zenon
        <5> QED
          BY <4>1, <5>1, <5>3, RowsAge, Zenon
      <4> QED
        BY <4>2, <4>3, Zenon
    <3> QED
      BY <2>7, <3>1, SameState, Zenon DEF Requeue, Exists, history
  <2>8. ASSUME NEW w \in Workers, CallbackCompletes(w) PROVE Abstract!Next
    <3> DEFINE k == perf[w].job.id
    <3>1. k \in JobID /\ k <= lastID
      BY <2>8 DEF CallbackCompletes, CopyInv, PHolds, NotNewer, JobID
    <3>2. JobState[k] # "absent"
      BY <3>1 DEF JobState
    <3>3. completed' = completed \cup {k} /\ JobState' = JobState
      BY <2>8, SameState, Zenon DEF CallbackCompletes, queueVars, Exists
    <3> QED
      BY <3>1, <3>2, <3>3, Zenon DEF Abstract!Next, Abstract!Finish, Abstract!JobIDs, JobID
  <2>9. ASSUME NEW w \in Workers, Dequeue(w)
        PROVE  Abstract!Next \/ (JobState' = JobState /\ completed' = completed)
    <3> DEFINE k == perf[w].job.id
    <3>1. CASE Current(perf[w].job)
      <4>1. k \in JobID /\ k <= lastID /\ Exists(k) /\ k \in completed
        BY <2>9, <3>1, SMTT(30)
           DEF Dequeue, CopyInv, PHolds, NotNewer, JobID, Exists, Current, DoneInv
      <4>2. /\ jobs'[k].version = 0 /\ lastID' = lastID /\ completed' = completed
            /\ \A j \in JobID : j # k => jobs'[j] = jobs[j]
        BY <2>9, <3>1, <4>1 DEF Dequeue, TypeOK, NoRow, history
      <4>3. JobState[k] = "queued"
        BY <4>1 DEF JobState
      <4>4. JobState' = [JobState EXCEPT ![k] = "gone"]
        <5>1. \A j \in JobID :
                 (IF j > lastID' THEN "absent" ELSE IF (Exists(j))' THEN "queued" ELSE "gone")
                    = IF j = k THEN "gone" ELSE JobState[j]
          BY <4>1, <4>2 DEF JobState, Exists, JobID
        <5>2. JobState' = [j \in JobID |-> IF j = k THEN "gone" ELSE JobState[j]]
          BY <5>1, Zenon DEF JobState, JobID
        <5> QED
          BY <5>2, Zenon DEF JobState
      <4> QED
        BY <4>1, <4>2, <4>3, <4>4, Zenon DEF Abstract!Next, Abstract!Retire, Abstract!JobIDs, JobID
    <3>2. CASE ~Current(perf[w].job)
      BY <2>9, <3>2, SameState, Zenon DEF Dequeue, Exists, history
    <3> QED
      BY <3>1, <3>2, Zenon
  <2> QED
    BY <2>1, <2>2, <2>3, <2>4, <2>5, <2>6, <2>7, <2>8, <2>9, Zenon
       DEF Next, WorkerStep, StartWorkers, Crash, Close, findJob, checkClosed, Perform,
           Receive, Halt, CallbackRetries, queueVars, history, vars
<1> QED
  BY <1>1, <1>2, IndInvCorrect, PTL DEF Spec, ImplementsJobQueue, Abstract!Spec

-----------------------------------------------------------------------------
(* The instance that booted last.                                          *)

\* Every reserved copy of the instance that booted last is current and its row
\* is still locked by its holder.
LatestInv ==
    \A w \in Workers : Host[w] \in latest =>
        /\ FHolds(w) => Current(fetch[w].job) /\ jobs[fetch[w].job.id].worker = w
        /\ PHolds(w) => Current(perf[w].job) /\ jobs[perf[w].job.id].worker = w

\* Worker w writes at most row x, of which no other worker of the instance that
\* booted last has a copy, and then has the row if it has a copy of one.
OwnRow(w, x) ==
    /\ \A v \in Workers : (v # w /\ Host[v] \in latest) =>
          (FHolds(v) => fetch[v].job.id # x) /\ (PHolds(v) => perf[v].job.id # x)
    /\ latest' = latest
    /\ \A j \in JobID : j # x => jobs'[j] = jobs[j]
    /\ \A v \in Workers : v # w => fetch'[v] = fetch[v] /\ perf'[v] = perf[v]
    /\ FHolds(w)' => Current(fetch[w].job)' /\ jobs'[fetch'[w].job.id].worker = w
    /\ ~PHolds(w)'

\* The copies of the other workers are of other rows, and stay current.
LEMMA OwnRowKeeps ==
    ASSUME TypeOK, CopyInv, LatestInv, NEW w \in Workers, NEW x, OwnRow(w, x)
    PROVE  LatestInv'
<1>1. ASSUME NEW v \in Workers, v # w, Host[v] \in latest', FHolds(v)'
      PROVE  Current(fetch[v].job)' /\ jobs'[fetch'[v].job.id].worker = v
  <2>1. fetch'[v] = fetch[v] /\ FHolds(v) /\ Host[v] \in latest
    BY <1>1, Zenon DEF OwnRow, FHolds
  <2>2. /\ fetch[v].job.id \in JobID /\ jobs[fetch[v].job.id].worker = v
        /\ Current(fetch[v].job)
    BY <2>1, CopiesInTable, Zenon DEF LatestInv, FReads
  <2>3. jobs'[fetch[v].job.id] = jobs[fetch[v].job.id]
    <3>1. fetch[v].job.id # x
      BY <1>1, <2>1, Zenon DEF OwnRow
    <3> QED
      BY <2>2, <3>1, Zenon DEF OwnRow
  <2> QED
    BY <2>1, <2>2, <2>3, Zenon DEF Current
<1>2. ASSUME NEW v \in Workers, v # w, Host[v] \in latest', PHolds(v)'
      PROVE  Current(perf[v].job)' /\ jobs'[perf'[v].job.id].worker = v
  <2>1. perf'[v] = perf[v] /\ PHolds(v) /\ Host[v] \in latest
    BY <1>2, Zenon DEF OwnRow, PHolds
  <2>2. /\ perf[v].job.id \in JobID /\ jobs[perf[v].job.id].worker = v
        /\ Current(perf[v].job)
    BY <2>1, CopiesInTable, Zenon DEF LatestInv
  <2>3. jobs'[perf[v].job.id] = jobs[perf[v].job.id]
    <3>1. perf[v].job.id # x
      BY <1>2, <2>1, Zenon DEF OwnRow
    <3> QED
      BY <2>2, <3>1, Zenon DEF OwnRow
  <2> QED
    BY <2>1, <2>2, <2>3, Zenon DEF Current
<1> QED
  BY <1>1, <1>2, Zenon DEF LatestInv, OwnRow

\* A boot unlocks rows only while none of its own workers runs, and gorp's
\* version check keeps the stale copies of older instances away from the rows
\* they reserve afterwards: the instance that booted last never panics on the
\* lock error of Requeue or Dequeue (HolderIsCurrent).
THEOREM LatestNeverStale == Spec => []HolderIsCurrent
<1>1. Init => LatestInv
  BY DEF Init, LatestInv, FHolds, PHolds, Off
<1>2. IndInv /\ LatestInv /\ [Next]_vars => LatestInv'
  <2> SUFFICES ASSUME IndInv, LatestInv, [Next]_vars
               PROVE  LatestInv'
    BY Zenon
  <2> USE Fields, GobbleAssumption DEF IndInv, FHolds, PHolds
  <2>1. ASSUME NEW i \in Instances, Boot(i) PROVE LatestInv'
    <3>1. \A w \in Workers : Host[w] = i => fetch[w].pc = "off" /\ perf[w].pc = "off"
      BY <2>1, Zenon DEF Boot, ProcInv
    <3> QED
      BY <2>1, <3>1, Zenon DEF Boot, LatestInv
  <2>2. ASSUME NEW i \in Instances, StartWorkers(i) PROVE LatestInv'
    BY <2>2, Zenon DEF StartWorkers, LatestInv, Current, TypeOK, queueVars, history
  <2>3. ASSUME NEW i \in Instances, Crash(i) PROVE LatestInv'
    BY <2>3, DieEffect, SMTT(30) DEF Crash, LatestInv, Current, queueVars, history
  <2>4. ASSUME NEW i \in Instances, Close(i) PROVE LatestInv'
    BY <2>4, Zenon DEF Close, LatestInv, Current, queueVars, history
  <2>5. ASSUME NEW i \in Instances, Enqueue(i) PROVE LatestInv'
    BY <2>5, SMTT(30) DEF Enqueue, LatestInv, Current, CopyInv, FReads, NotNewer, TypeOK, JobID, history
  <2>6. ASSUME NEW k \in JobID, Elapse(k) PROVE LatestInv'
    <3>1. \A j \in JobID : /\ jobs'[j].version = jobs[j].version
                           /\ jobs'[j].worker = jobs[j].worker
      BY <2>6 DEF Elapse, TypeOK, Row
    <3> QED
      BY <2>6, <3>1, SMTT(30) DEF Elapse, LatestInv, Current, CopyInv, FReads, NotNewer, JobID, history
  <2>7. ASSUME NEW w \in Workers, findJob(w) PROVE LatestInv'
    BY <2>7, FetchEffect, SMTT(30) DEF findJob, LatestInv, Current, queueVars, history
  <2>8. ASSUME NEW w \in Workers, updateJob(w) PROVE LatestInv'
    <3>1. fetch[w].job.id \in JobID
      BY <2>8 DEF updateJob, CopyInv, FReads, NotNewer, JobID
    <3>2. CASE Current(fetch[w].job)
      <4>1. /\ fetch[w].pc = "update" /\ fetch'[w].pc = "check"
            /\ fetch'[w].job.id = fetch[w].job.id
            /\ fetch'[w].job.version = fetch[w].job.version + 1
            /\ \A v \in Workers : v # w => fetch'[v] = fetch[v]
            /\ perf' = perf /\ latest' = latest
        BY <2>8, <3>2, FetchEffect, ReadTypes DEF updateJob, Copy, history
      <4>2. /\ jobs'[fetch[w].job.id].worker = w
            /\ jobs'[fetch[w].job.id].version = fetch[w].job.version + 1
            /\ \A j \in JobID : j # fetch[w].job.id => jobs'[j] = jobs[j]
        <5>1. jobs' = Write(fetch[w].job, w, fetch[w].job.retries, "past")
          BY <2>8, <3>2, Zenon DEF updateJob
        <5> QED
          BY <3>1, <5>1, WriteEffect, Zenon
      <4>3. jobs[fetch[w].job.id].worker = Free
        BY <3>2, <4>1, Zenon DEF FindInv
      <4>4. PHolds(w) = FALSE
        BY <4>1, SMTT(30) DEF ProcInv
      <4>5. Current(fetch[w].job)' /\ jobs'[fetch'[w].job.id].worker = w
        BY <4>1, <4>2, Zenon DEF Current
      <4>6. ASSUME NEW v \in Workers, v # w, Host[v] \in latest
            PROVE  /\ FHolds(v) => fetch[v].job.id # fetch[w].job.id
                   /\ PHolds(v) => perf[v].job.id # fetch[w].job.id
        BY <4>3, <4>6, SMTT(30) DEF LatestInv
      <4>7. OwnRow(w, fetch[w].job.id)
        BY <4>1, <4>2, <4>4, <4>5, <4>6, Zenon DEF OwnRow
      <4> QED
        BY <4>7, OwnRowKeeps, Zenon
    <3>3. CASE ~Current(fetch[w].job)
      <4>1. SetFetch(w, "find", NoJob) /\ jobs' = jobs /\ perf' = perf /\ latest' = latest
        BY <2>8, <3>3, Zenon DEF updateJob, history
      <4>2. fetch'[w].pc = "find" /\ \A v \in Workers : v # w => fetch'[v] = fetch[v]
        BY <4>1, FetchEffect, Zenon
      <4> QED
        BY <4>1, <4>2, Zenon DEF LatestInv, Current
    <3> QED
      BY <3>2, <3>3, Zenon
  <2>9. ASSUME NEW w \in Workers, checkClosed(w) PROVE LatestInv'
    BY <2>9, FetchEffect, SMTT(30) DEF checkClosed, LatestInv, Current, queueVars, history
  <2>10. ASSUME NEW w \in Workers, release(w) PROVE LatestInv'
    <3>1. /\ FHolds(w) /\ fetch'[w].pc = "off"
          /\ \A v \in Workers : v # w => fetch'[v] = fetch[v]
          /\ perf' = perf /\ latest' = latest
      BY <2>10, FetchEffect, Zenon DEF release, history
    <3>2. fetch[w].job.id \in JobID
      BY <3>1, SMTT(30) DEF CopyInv, FReads, NotNewer, JobID
    <3>3. \A j \in JobID : j # fetch[w].job.id => jobs'[j] = jobs[j]
      BY <2>10, <3>2, WriteEffect, SMTT(30) DEF release
    <3>4. ~PHolds(w)
      BY <3>1, Zenon DEF ProcInv
    <3>5. CASE Current(fetch[w].job)
      <4>1. ASSUME NEW v \in Workers, v # w, Host[v] \in latest
            PROVE  /\ FHolds(v) => fetch[v].job.id # fetch[w].job.id
                   /\ PHolds(v) => perf[v].job.id # fetch[w].job.id
        BY <3>1, <3>5, <4>1, SMTT(30) DEF LatestInv, DistinctInv, Current
      <4>2. OwnRow(w, fetch[w].job.id)
        BY <3>1, <3>3, <3>4, <4>1, Zenon DEF OwnRow
      <4> QED
        BY <4>2, OwnRowKeeps, Zenon
    <3>6. CASE ~Current(fetch[w].job)
      <4>1. jobs' = jobs
        BY <2>10, <3>6, Zenon DEF release
      <4> QED
        BY <3>1, <4>1, SMTT(30) DEF LatestInv, Current
    <3> QED
      BY <3>5, <3>6, Zenon
  <2>11. ASSUME NEW w \in Workers, Perform(w) PROVE LatestInv'
    BY <2>11, FetchEffect, PerfEffect, SMTT(30) DEF Perform, LatestInv, Current, queueVars, history
  <2>12. ASSUME NEW w \in Workers, Receive(w) PROVE LatestInv'
    BY <2>12, FetchEffect, PerfEffect, SMTT(30) DEF Receive, LatestInv, Current, queueVars
  <2>13. ASSUME NEW w \in Workers, CallbackRetries(w) PROVE LatestInv'
    BY <2>13, PerfEffect, ReadTypes, SMTT(30) DEF CallbackRetries, LatestInv, Current, queueVars, history, Copy
  <2>14. ASSUME NEW w \in Workers, CallbackCompletes(w) PROVE LatestInv'
    BY <2>14, PerfEffect, SMTT(30) DEF CallbackCompletes, LatestInv, Current, queueVars
  <2>15. ASSUME NEW w \in Workers, Requeue(w) \/ Dequeue(w) PROVE LatestInv'
    <3>1. PHolds(w) /\ latest' = latest
      BY <2>15, Zenon DEF Requeue, Dequeue, history
    <3>2. CASE Current(perf[w].job)
      <4>1. perf[w].job.id \in JobID
        BY <3>1, SMTT(30) DEF CopyInv, NotNewer, JobID
      <4>2. \A j \in JobID : j # perf[w].job.id => jobs'[j] = jobs[j]
        BY <2>15, <3>2, <4>1, WriteEffect, SMTT(30) DEF Requeue, Dequeue, TypeOK
      <4>3. /\ perf'[w].pc = "loop"
            /\ \A v \in Workers : v # w => perf'[v] = perf[v]
            /\ fetch' = fetch
        BY <2>15, <3>2, PerfEffect, Zenon DEF Requeue, Dequeue
      <4>4. ~FHolds(w)
        BY <3>1, Zenon DEF ProcInv
      <4>5. ASSUME NEW v \in Workers, v # w, Host[v] \in latest
            PROVE  /\ FHolds(v) => fetch[v].job.id # perf[w].job.id
                   /\ PHolds(v) => perf[v].job.id # perf[w].job.id
        BY <3>1, <3>2, <4>5, SMTT(30) DEF LatestInv, DistinctInv, Current
      <4>6. OwnRow(w, perf[w].job.id)
        BY <3>1, <4>2, <4>3, <4>4, <4>5, Zenon DEF OwnRow
      <4> QED
        BY <4>6, OwnRowKeeps, Zenon
    <3>3. CASE ~Current(perf[w].job)
      <4>1. Die(Host[w]) /\ jobs' = jobs
        BY <2>15, <3>3, Zenon DEF Requeue, Dequeue
      <4> QED
        BY <3>1, <4>1, DieEffect, SMTT(30) DEF LatestInv, Current
    <3> QED
      BY <3>2, <3>3, Zenon
  <2>16. ASSUME NEW w \in Workers, Halt(w) PROVE LatestInv'
    BY <2>16, PerfEffect, SMTT(30) DEF Halt, LatestInv, Current, queueVars, history
  <2>17. CASE UNCHANGED vars
    BY <2>17, Zenon DEF LatestInv, Current, vars
  <2> QED
    BY <2>1, <2>2, <2>3, <2>4, <2>5, <2>6, <2>7, <2>8, <2>9, <2>10, <2>11, <2>12, <2>13,
       <2>14, <2>15, <2>16, <2>17, Zenon DEF Next, WorkerStep
<1>3. LatestInv => HolderIsCurrent
  BY ReservedCopies, Zenon DEF LatestInv, HolderIsCurrent
<1> QED
  BY <1>1, <1>2, <1>3, IndInvCorrect, PTL DEF Spec

-----------------------------------------------------------------------------
(* Attempts.                                                               *)

\* The workers whose reserving goroutine has job j in its hands.
Holds(w, j) == FHolds(w) /\ fetch[w].job.id = j
Holding(j) == {w \in Workers : Holds(w, j)}

\* The attempts of job j that may still come without a retry or a boot: one by
\* each of those workers, and one if the row is free to be reserved.
Open(j) == IF Exists(j) /\ jobs[j].worker = Free THEN 1 ELSE 0

\* The retries it was granted, or may have been when its row is gone.
Granted(j) == IF Exists(j) THEN jobs[j].retries ELSE MaxRetries

BudgetInv ==
    \A j \in JobID :
        IF j > lastID THEN attempts[j] = 0
        ELSE attempts[j] + Cardinality(Holding(j)) + Open(j) <= boots + Granted(j)

AttemptsInv == BudgetInv /\ BootedInv /\ RetriesInv

-----------------------------------------------------------------------------
(* Counting workers.                                                       *)

LEMMA NoWorkers == Cardinality({}) = 0
  BY FS_EmptySet, Zenon

\* How the size of a set of workers A compares to that of a set B which has at
\* most w besides A.
LEMMA Counting ==
    ASSUME NEW A \in SUBSET Workers, NEW B \in SUBSET Workers, NEW w, B \subseteq A \cup {w}
    PROVE  /\ Cardinality(A) \in Nat /\ Cardinality(B) \in Nat
           /\ Cardinality(B) <= Cardinality(A) + 1
           /\ B \subseteq A => Cardinality(B) <= Cardinality(A)
           /\ (w \in A /\ w \notin B) => Cardinality(B) + 1 <= Cardinality(A)
<1>1. /\ IsFiniteSet(A) /\ Cardinality(A) \in Nat
      /\ IsFiniteSet(B) /\ Cardinality(B) \in Nat
  BY WorkersFinite, FS_Subset, FS_CardinalityType, Zenon
<1>2. Cardinality(B) <= Cardinality(A) + 1
  <2>1. B \in SUBSET (A \cup {w})
    BY Zenon
  <2>2. IsFiniteSet(A \cup {w}) /\ Cardinality(A \cup {w}) =
            IF w \in A THEN Cardinality(A) ELSE Cardinality(A) + 1
    BY <1>1, FS_AddElement, Zenon
  <2>3. Cardinality(B) <= Cardinality(A \cup {w})
    BY <2>1, <2>2, FS_Subset, Zenon
  <2> QED
    BY <1>1, <2>2, <2>3
<1>3. ASSUME B \subseteq A PROVE Cardinality(B) <= Cardinality(A)
  BY <1>1, <1>3, FS_Subset, Zenon
<1>4. ASSUME w \in A, w \notin B PROVE Cardinality(B) + 1 <= Cardinality(A)
  <2>1. B \in SUBSET (A \ {w})
    BY <1>4, Zenon
  <2>2. IsFiniteSet(A \ {w}) /\ Cardinality(A \ {w}) =
            IF w \in A THEN Cardinality(A) - 1 ELSE Cardinality(A)
    BY <1>1, FS_RemoveElement, Zenon
  <2>3. Cardinality(B) <= Cardinality(A \ {w})
    BY <2>1, <2>2, FS_Subset, Zenon
  <2> QED
    BY <1>1, <1>4, <2>2, <2>3
<1> QED
  BY <1>1, <1>2, <1>3, <1>4, Zenon

-----------------------------------------------------------------------------
(* What the steps do to the budget.                                        *)

LEMMA HoldingTypes ==
    ASSUME NEW j
    PROVE  Holding(j) \in SUBSET Workers /\ Holding(j)' \in SUBSET Workers
  BY Zenon DEF Holding

\* How the number of workers with job j in their hands moves when all but at
\* most worker w keep their hands still or let go.
LEMMA Hands ==
    ASSUME NEW j, NEW w \in Workers,
           \A v \in Workers : v # w => (Holds(v, j)' => Holds(v, j))
    PROVE  LET n == Cardinality(Holding(j)) IN
           /\ n' <= n + 1
           /\ (Holds(w, j) /\ ~Holds(w, j)') => n' + 1 <= n
<1>1. Holding(j)' \subseteq Holding(j) \cup {w}
  BY Zenon DEF Holding
<1>2. (Holds(w, j) /\ ~Holds(w, j)') => w \in Holding(j) /\ w \notin Holding(j)'
  BY Zenon DEF Holding
<1> QED
  BY <1>1, <1>2, HoldingTypes, Counting, Zenon

\* A step by which everybody at most lets go.
LEMMA StillHands ==
    ASSUME NEW j, \A v \in Workers : Holds(v, j)' => Holds(v, j)
    PROVE  Cardinality(Holding(j))' <= Cardinality(Holding(j))
<1>1. Holding(j)' \subseteq Holding(j)
  BY Zenon DEF Holding
<1>2. Holding(j)' \subseteq Holding(j) \cup {j}
  BY <1>1, Zenon
<1> QED
  BY <1>1, <1>2, HoldingTypes, Counting, Zenon

LEMMA BudgetTypes ==
    ASSUME NEW j \in JobID
    PROVE  /\ TypeOK => /\ attempts[j] \in Nat /\ Cardinality(Holding(j)) \in Nat
                        /\ Open(j) \in Nat /\ Open(j) <= 1 /\ boots \in Nat /\ Granted(j) \in Nat
           /\ TypeOK' => /\ attempts'[j] \in Nat /\ Cardinality(Holding(j))' \in Nat
                         /\ Open(j)' \in Nat /\ Open(j)' <= 1 /\ boots' \in Nat /\ Granted(j)' \in Nat
<1>1. Open(j) \in Nat /\ Open(j) <= 1 /\ Open(j)' \in Nat /\ Open(j)' <= 1
  <2>1. Open(j) \in {0, 1} /\ Open(j)' \in {0, 1}
    BY Zenon DEF Open
  <2> QED
    BY <2>1
<1>2. \A A \in SUBSET Workers : Cardinality(A) \in Nat
  <2>1. \A A : A \subseteq A \cup {j}
    BY Zenon
  <2> QED
    BY <2>1, Counting, Zenon
<1>3. Cardinality(Holding(j)) \in Nat /\ Cardinality(Holding(j))' \in Nat
  BY <1>2, HoldingTypes, Zenon
<1>4. ASSUME TypeOK PROVE attempts[j] \in Nat /\ boots \in Nat /\ Granted(j) \in Nat
  <2>1. boots \in Nat /\ MaxRetries \in Nat /\ attempts[j] \in Nat
    BY <1>4, GobbleAssumption DEF TypeOK
  <2>2. jobs[j].retries \in Nat
    BY <1>4, Fields, Zenon
  <2> QED
    BY <2>1, <2>2, Zenon DEF Granted
<1>5. ASSUME TypeOK' PROVE attempts'[j] \in Nat /\ boots' \in Nat /\ Granted(j)' \in Nat
  <2>1. boots' \in Nat /\ MaxRetries \in Nat
    BY <1>5, GobbleAssumption DEF TypeOK
  <2>2. jobs' \in [JobID -> Row] /\ attempts' \in [JobID -> Nat]
    BY <1>5, Zenon DEF TypeOK
  <2>3. jobs'[j].retries \in Nat /\ attempts'[j] \in Nat
    BY <2>2, Zenon DEF Row
  <2> QED
    BY <2>1, <2>3, Zenon DEF Granted
<1> QED
  BY <1>1, <1>3, <1>4, <1>5, Zenon

\* Boots and retries pay for the attempts of job j.
Paid(j) ==
    attempts'[j] + Cardinality(Holding(j))' + Open(j)' + boots + Granted(j)
      <= attempts[j] + Cardinality(Holding(j)) + Open(j) + boots' + Granted(j)'

LEMMA Balance ==
    ASSUME NEW x \in Nat, NEW b \in Nat, NEW g \in Nat,
           NEW x1 \in Nat, NEW b1 \in Nat, NEW g1 \in Nat,
           x <= b + g, x1 + b + g <= x + b1 + g1
    PROVE  x1 <= b1 + g1
  OBVIOUS

LEMMA Pays ==
    ASSUME TypeOK, TypeOK', BudgetInv, lastID' = lastID,
           \A j \in JobID : IF j > lastID THEN attempts'[j] = attempts[j] ELSE Paid(j)
    PROVE  BudgetInv'
<1>1. ASSUME NEW j \in JobID, ~(j > lastID)
      PROVE  attempts'[j] + Cardinality(Holding(j))' + Open(j)' <= boots' + Granted(j)'
  <2> DEFINE x == attempts[j] + Cardinality(Holding(j)) + Open(j)
             x1 == attempts'[j] + Cardinality(Holding(j))' + Open(j)'
  <2>1. x \in Nat /\ x1 \in Nat
    <3>1. \A a, m, o \in Nat : a + m + o \in Nat
      OBVIOUS
    <3> QED
      BY <3>1, BudgetTypes, Zenon
  <2>2. x <= boots + Granted(j)
    BY <1>1, Zenon DEF BudgetInv
  <2>3. x1 + boots + Granted(j) <= x + boots' + Granted(j)'
    BY <1>1, Zenon DEF Paid
  <2>4. boots \in Nat /\ Granted(j) \in Nat /\ boots' \in Nat /\ Granted(j)' \in Nat
    BY BudgetTypes, Zenon
  <2> HIDE DEF x, x1
  <2>5. x1 <= boots' + Granted(j)'
    BY <2>1, <2>2, <2>3, <2>4, Balance
  <2> QED
    BY <2>5, Zenon DEF x1
<1> QED
  BY <1>1, Zenon DEF BudgetInv

\* A job that is left alone, but for workers that let go of it.
LEMMA Unaffected ==
    ASSUME TypeOK, TypeOK', NEW j \in JobID, attempts'[j] = attempts[j], boots' = boots,
           jobs'[j].worker = jobs[j].worker, jobs'[j].version = jobs[j].version,
           jobs'[j].retries = jobs[j].retries,
           \A v \in Workers : Holds(v, j)' => Holds(v, j)
    PROVE  Paid(j)
<1>1. Open(j)' = Open(j) /\ Granted(j)' = Granted(j)
  BY Zenon DEF Open, Granted, Exists
<1>2. Cardinality(Holding(j))' <= Cardinality(Holding(j))
  BY StillHands, Zenon
<1>3. ASSUME NEW a \in Nat, NEW m \in Nat, NEW o \in Nat, NEW b \in Nat, NEW g \in Nat,
             NEW m1 \in Nat, m1 <= m
      PROVE  a + m1 + o + b + g <= a + m + o + b + g
  BY <1>3
<1> QED
  BY <1>1, <1>2, <1>3, BudgetTypes, Zenon DEF Paid

\* A step that leaves rows and counts alone, and takes no job in hand.
LEMMA QuietBudget ==
    ASSUME TypeOK, TypeOK', BudgetInv, lastID' = lastID, attempts' = attempts, boots' = boots,
           \A j \in JobID : /\ jobs'[j].worker = jobs[j].worker
                            /\ jobs'[j].version = jobs[j].version
                            /\ jobs'[j].retries = jobs[j].retries,
           \A v \in Workers : fetch'[v].pc \in {"off", "find", "update"} \/ fetch'[v] = fetch[v]
    PROVE  BudgetInv'
<1>1. \A j \in JobID, v \in Workers : Holds(v, j)' => Holds(v, j)
  BY Zenon DEF Holds, FHolds
<1>2. \A j \in JobID : Paid(j)
  BY <1>1, Unaffected, Zenon
<1> QED
  BY <1>2, Pays, Zenon

\* Unlock may set a job free that is in somebody's hands: the boot pays.
LEMMA BootBudget ==
    ASSUME TypeOK, TypeOK', BudgetInv, NEW i \in Instances, Boot(i)
    PROVE  BudgetInv'
<1>1. /\ lastID' = lastID /\ attempts' = attempts /\ boots' = boots + 1 /\ fetch' = fetch
  BY Zenon DEF Boot
<1>2. \A j \in JobID : jobs'[j].version = jobs[j].version /\ jobs'[j].retries = jobs[j].retries
  BY DEF Boot, TypeOK, Row
<1>3. ASSUME NEW j \in JobID PROVE Paid(j)
  <2> DEFINE n == Cardinality(Holding(j))
  <2>1. Granted(j)' = Granted(j)
    BY <1>2, Zenon DEF Granted, Exists
  <2>2. n' <= n
    BY <1>1, StillHands, Zenon DEF Holds, FHolds
  <2>3. ASSUME NEW a \in Nat, NEW m \in Nat, NEW o \in Nat, NEW b \in Nat, NEW g \in Nat,
               NEW m1 \in Nat, NEW o1 \in Nat, m1 <= m, o1 <= 1
        PROVE  a + m1 + o1 + b + g <= a + m + o + (b + 1) + g
    BY <2>3
  <2> HIDE DEF n
  <2> QED
    BY <1>1, <2>1, <2>2, <2>3, BudgetTypes, Zenon DEF Paid, n
<1> QED
  BY <1>1, <1>3, Pays, Zenon
\* The row that a current copy is of exists before and after a write by it.
LEMMA CurrentRow ==
    ASSUME TypeOK, NEW c \in Copy, c.id \in JobID, NotNewer(c), Current(c),
           NEW u, NEW n, NEW at, jobs' = Write(c, u, n, at)
    PROVE  /\ Exists(c.id) /\ jobs'[c.id].version > 0
           /\ jobs'[c.id].worker = u /\ jobs'[c.id].retries = n
           /\ \A j \in JobID : j # c.id => jobs'[j] = jobs[j]
<1>1. c.version \in Nat /\ c.version > 0 /\ jobs[c.id].version = c.version
  BY Zenon DEF Copy, NotNewer, Current
<1>2. /\ jobs'[c.id].worker = u /\ jobs'[c.id].version = c.version + 1
      /\ jobs'[c.id].retries = n
      /\ \A j \in JobID : j # c.id => jobs'[j] = jobs[j]
  BY WriteEffect
<1>3. Exists(c.id) /\ jobs'[c.id].version > 0
  BY <1>1, <1>2 DEF Exists
<1> QED
  BY <1>2, <1>3, Zenon

\* The reserving goroutine takes the job that was free.
LEMMA UpdateBudget ==
    ASSUME IndInv, RetriesInv, TypeOK', BudgetInv, NEW w \in Workers, updateJob(w),
           NEW c \in Copy, c = fetch[w].job, Current(c)
    PROVE  BudgetInv'
<1>0. TypeOK /\ c.id \in JobID /\ NotNewer(c) /\ FReads(w) /\ fetch[w].pc = "update"
  BY CopiesInTable, Zenon DEF IndInv, CopyInv, FReads, updateJob
<1>1. /\ lastID' = lastID /\ attempts' = attempts /\ boots' = boots
      /\ jobs' = Write(c, w, c.retries, "past")
      /\ SetFetch(w, "check", [c EXCEPT !.version = c.version + 1])
  BY Zenon DEF updateJob, procVars, history
<1>2. /\ Exists(c.id) /\ Exists(c.id)' /\ jobs'[c.id].worker = w /\ jobs'[c.id].retries = c.retries
      /\ \A j \in JobID : j # c.id => jobs'[j] = jobs[j]
  <2>1. /\ Exists(c.id) /\ jobs'[c.id].version > 0
        /\ jobs'[c.id].worker = w /\ jobs'[c.id].retries = c.retries
        /\ \A j \in JobID : j # c.id => jobs'[j] = jobs[j]
    BY <1>0, <1>1, CurrentRow, Zenon
  <2> QED
    BY <2>1, Zenon DEF Exists
<1>3. /\ fetch'[w].job.id = c.id
      /\ \A v \in Workers : v # w => fetch'[v] = fetch[v]
  <2>1. /\ fetch'[w].job = [c EXCEPT !.version = c.version + 1]
        /\ \A v \in Workers : v # w => fetch'[v] = fetch[v]
    BY <1>0, <1>1, FetchEffect, Zenon
  <2>2. [c EXCEPT !.version = c.version + 1].id = c.id
    BY Zenon DEF Copy
  <2> QED
    BY <2>1, <2>2, Zenon
<1>4. ASSUME NEW j \in JobID, NEW v \in Workers, v # w PROVE Holds(v, j)' => Holds(v, j)
  BY <1>3, <1>4, Zenon DEF Holds, FHolds
<1>5. Paid(c.id)
  <2>1. Cardinality(Holding(c.id))' <= Cardinality(Holding(c.id)) + 1
    BY <1>0, <1>4, Hands, Zenon
  <2>2. jobs[c.id].worker = Free /\ jobs[c.id].retries = c.retries
    BY <1>0, Zenon DEF IndInv, FindInv, RetriesInv
  <2>3. Open(c.id) = 1 /\ Open(c.id)' = 0
    BY <1>2, <2>2, GobbleAssumption, Zenon DEF Open
  <2>4. Granted(c.id)' = Granted(c.id)
    BY <1>2, <2>2, Zenon DEF Granted
  <2>5. ASSUME NEW a \in Nat, NEW m \in Nat, NEW b \in Nat, NEW g \in Nat, NEW m1 \in Nat,
               m1 <= m + 1
        PROVE  a + m1 + 0 + b + g <= a + m + 1 + b + g
    BY <2>5
  <2> QED
    BY <1>0, <1>1, <2>1, <2>3, <2>4, <2>5, BudgetTypes, Zenon DEF Paid
<1>6. ASSUME NEW j \in JobID, j # c.id PROVE Paid(j)
  <2>1. \A v \in Workers : Holds(v, j)' => Holds(v, j)
    BY <1>3, <1>4, <1>6, Zenon DEF Holds
  <2> QED
    BY <1>0, <1>1, <1>2, <1>6, <2>1, Unaffected, Zenon
<1> QED
  BY <1>0, <1>1, <1>5, <1>6, Pays, Zenon
\* The goroutine of a closed queue lets go of the job, and frees its row.
LEMMA ReleaseBudget ==
    ASSUME IndInv, RetriesInv, TypeOK', BudgetInv, NEW w \in Workers, release(w),
           NEW c \in Copy, c = fetch[w].job, Current(c), jobs' = Write(c, Free, c.retries, "past")
    PROVE  BudgetInv'
<1>0. TypeOK /\ FHolds(w) /\ FReads(w)
  BY Zenon DEF IndInv, FReads, FHolds, release
<1>1. c.id \in JobID /\ NotNewer(c)
  BY <1>0, CopiesInTable, Zenon DEF IndInv, CopyInv
<1>2. /\ lastID' = lastID /\ attempts' = attempts /\ boots' = boots
      /\ SetFetch(w, "off", NoJob)
  BY Zenon DEF release, procVars, history
<1>3. /\ Exists(c.id) /\ Exists(c.id)' /\ jobs'[c.id].retries = c.retries
      /\ \A j \in JobID : j # c.id => jobs'[j] = jobs[j]
  <2>1. /\ Exists(c.id) /\ jobs'[c.id].version > 0
        /\ jobs'[c.id].worker = Free /\ jobs'[c.id].retries = c.retries
        /\ \A j \in JobID : j # c.id => jobs'[j] = jobs[j]
    BY <1>0, <1>1, CurrentRow, Zenon
  <2> QED
    BY <2>1, Zenon DEF Exists
<1>4. fetch'[w].pc = "off" /\ \A v \in Workers : v # w => fetch'[v] = fetch[v]
  BY <1>0, <1>2, FetchEffect, Zenon
<1>5. ASSUME NEW j \in JobID
      PROVE  /\ \A v \in Workers : v # w => (Holds(v, j)' => Holds(v, j))
             /\ ~Holds(w, j)'
  BY <1>4, Zenon DEF Holds, FHolds
<1>6. Paid(c.id)
  <2>1. Cardinality(Holding(c.id))' + 1 <= Cardinality(Holding(c.id))
    <3>1. Holds(w, c.id)
      BY <1>0, Zenon DEF Holds
    <3> QED
      BY <1>1, <1>5, <3>1, Hands, Zenon
  <2>2. jobs[c.id].retries = c.retries
    BY <1>0, Zenon DEF RetriesInv
  <2>3. Granted(c.id)' = Granted(c.id)
    BY <1>3, <2>2, Zenon DEF Granted
  <2>4. ASSUME NEW a \in Nat, NEW m \in Nat, NEW o \in Nat, NEW b \in Nat, NEW g \in Nat,
               NEW m1 \in Nat, NEW o1 \in Nat, m1 + 1 <= m, o1 <= 1
        PROVE  a + m1 + o1 + b + g <= a + m + o + b + g
    BY <2>4
  <2> QED
    BY <1>0, <1>1, <1>2, <2>1, <2>3, <2>4, BudgetTypes, Zenon DEF Paid
<1>7. ASSUME NEW j \in JobID, j # c.id PROVE Paid(j)
  <2>1. \A v \in Workers : Holds(v, j)' => Holds(v, j)
    BY <1>5, Zenon
  <2> QED
    BY <1>0, <1>2, <1>3, <1>7, <2>1, Unaffected, Zenon
<1> QED
  BY <1>0, <1>2, <1>6, <1>7, Pays, Zenon

\* The callback starts with the job that was in the goroutine's hands.
LEMMA ReceiveBudget ==
    ASSUME IndInv, TypeOK', BudgetInv, NEW w \in Workers, Receive(w),
           NEW c \in Copy, c = fetch[w].job
    PROVE  BudgetInv'
<1>0. TypeOK /\ FHolds(w) /\ FReads(w)
  BY Zenon DEF IndInv, FReads, FHolds, Receive
<1>1. c.id \in JobID /\ ~(c.id > lastID)
  BY <1>0, CopiesInTable, Fields, SMTT(30) DEF IndInv, CopyInv, NotNewer
<1>2. /\ lastID' = lastID /\ jobs' = jobs /\ boots' = boots
      /\ SetFetch(w, "off", NoJob) /\ attempts' = [attempts EXCEPT ![c.id] = @ + 1]
  BY Zenon DEF Receive, queueVars, procVars
<1>3. attempts'[c.id] = attempts[c.id] + 1 /\ \A j \in JobID : j # c.id => attempts'[j] = attempts[j]
  BY <1>0, <1>1, <1>2, Zenon DEF TypeOK
<1>4. fetch'[w].pc = "off" /\ \A v \in Workers : v # w => fetch'[v] = fetch[v]
  BY <1>0, <1>2, FetchEffect, Zenon
<1>5. ASSUME NEW j \in JobID
      PROVE  /\ \A v \in Workers : v # w => (Holds(v, j)' => Holds(v, j))
             /\ ~Holds(w, j)'
  BY <1>4, Zenon DEF Holds, FHolds
<1>6. Paid(c.id)
  <2>1. Cardinality(Holding(c.id))' + 1 <= Cardinality(Holding(c.id))
    <3>1. Holds(w, c.id)
      BY <1>0, Zenon DEF Holds
    <3> QED
      BY <1>1, <1>5, <3>1, Hands, Zenon
  <2>2. Granted(c.id)' = Granted(c.id) /\ Open(c.id)' = Open(c.id)
    BY <1>2, Zenon DEF Granted, Open, Exists
  <2>3. ASSUME NEW a \in Nat, NEW m \in Nat, NEW o \in Nat, NEW b \in Nat, NEW g \in Nat,
               NEW m1 \in Nat, m1 + 1 <= m
        PROVE  (a + 1) + m1 + o + b + g <= a + m + o + b + g
    BY <2>3
  <2> QED
    BY <1>0, <1>1, <1>2, <1>3, <2>1, <2>2, <2>3, BudgetTypes, Zenon DEF Paid
<1>7. ASSUME NEW j \in JobID, j # c.id PROVE Paid(j) /\ attempts'[j] = attempts[j]
  <2>1. \A v \in Workers : Holds(v, j)' => Holds(v, j)
    BY <1>5, Zenon
  <2> QED
    BY <1>0, <1>2, <1>3, <1>7, <2>1, Unaffected, Zenon
<1> QED
  BY <1>0, <1>1, <1>2, <1>6, <1>7, Pays, Zenon
\* Requeue frees the row, and the retry it records pays for that.
LEMMA RequeueBudget ==
    ASSUME IndInv, RetriesInv, TypeOK', BudgetInv, NEW w \in Workers, Requeue(w),
           NEW c \in Copy, c = perf[w].job, Current(c),
           jobs' = Write(c, Free, c.retries, "future"), fetch' = fetch
    PROVE  BudgetInv'
<1>0. TypeOK /\ PHolds(w) /\ perf[w].pc = "requeue"
  BY Zenon DEF IndInv, PHolds, Requeue
<1>1. c.id \in JobID /\ NotNewer(c)
  BY <1>0, CopiesInTable, Zenon DEF IndInv, CopyInv
<1>2. lastID' = lastID /\ attempts' = attempts /\ boots' = boots
  BY Zenon DEF Requeue, history
<1>3. /\ Exists(c.id) /\ Exists(c.id)' /\ jobs'[c.id].retries = c.retries
      /\ \A j \in JobID : j # c.id => jobs'[j] = jobs[j]
  <2>1. /\ Exists(c.id) /\ jobs'[c.id].version > 0
        /\ jobs'[c.id].worker = Free /\ jobs'[c.id].retries = c.retries
        /\ \A j \in JobID : j # c.id => jobs'[j] = jobs[j]
    BY <1>0, <1>1, CurrentRow, Zenon
  <2> QED
    BY <2>1, Zenon DEF Exists
<1>4. ASSUME NEW j \in JobID PROVE \A v \in Workers : Holds(v, j)' => Holds(v, j)
  BY Zenon DEF Holds, FHolds
<1>5. Paid(c.id)
  <2>1. Cardinality(Holding(c.id))' <= Cardinality(Holding(c.id))
    BY <1>1, <1>4, StillHands, Zenon
  <2>2. c.retries = jobs[c.id].retries + 1
    <3>1. Counted(w) = 1
      BY <1>0, Zenon DEF Counted
    <3> QED
      BY <1>0, <3>1, Zenon DEF RetriesInv
  <2>3. Granted(c.id)' = Granted(c.id) + 1
    BY <1>3, <2>2, Zenon DEF Granted
  <2>4. ASSUME NEW a \in Nat, NEW m \in Nat, NEW o \in Nat, NEW b \in Nat, NEW g \in Nat,
               NEW m1 \in Nat, NEW o1 \in Nat, m1 <= m, o1 <= 1
        PROVE  a + m1 + o1 + b + g <= a + m + o + b + (g + 1)
    BY <2>4
  <2>5. /\ attempts[c.id] \in Nat /\ Cardinality(Holding(c.id)) \in Nat
        /\ Open(c.id) \in Nat /\ boots \in Nat /\ Granted(c.id) \in Nat
        /\ Cardinality(Holding(c.id))' \in Nat /\ Open(c.id)' \in Nat /\ Open(c.id)' <= 1
    BY <1>0, <1>1, BudgetTypes, Zenon
  <2>6. attempts[c.id] + Cardinality(Holding(c.id))' + Open(c.id)' + boots + Granted(c.id)
          <= attempts[c.id] + Cardinality(Holding(c.id)) + Open(c.id) + boots + (Granted(c.id) + 1)
    BY <2>1, <2>4, <2>5, ZenonT(30)
  <2> QED
    BY <1>2, <2>3, <2>6, Zenon DEF Paid
<1>6. ASSUME NEW j \in JobID, j # c.id PROVE Paid(j)
  BY <1>0, <1>2, <1>3, <1>4, <1>6, Unaffected, Zenon
<1> QED
  BY <1>0, <1>2, <1>5, <1>6, Pays, Zenon

\* A row that is gone had no more than MaxRetries retries.
LEMMA DequeueBudget ==
    ASSUME IndInv, RetriesInv, TypeOK', BudgetInv, NEW w \in Workers, Dequeue(w),
           NEW c \in Copy, c = perf[w].job, Current(c),
           jobs' = [jobs EXCEPT ![c.id] = NoRow], fetch' = fetch
    PROVE  BudgetInv'
<1>0. TypeOK /\ PHolds(w)
  BY Zenon DEF IndInv, PHolds, Dequeue
<1>1. c.id \in JobID
  BY <1>0, CopiesInTable, Zenon DEF IndInv
<1>2. lastID' = lastID /\ attempts' = attempts /\ boots' = boots
  BY Zenon DEF Dequeue, history
<1>3. /\ jobs'[c.id].version = 0 /\ \A j \in JobID : j # c.id => jobs'[j] = jobs[j]
  BY <1>0, <1>1, Zenon DEF TypeOK, NoRow
<1>4. ASSUME NEW j \in JobID PROVE \A v \in Workers : Holds(v, j)' => Holds(v, j)
  BY Zenon DEF Holds, FHolds
<1>5. Paid(c.id)
  <2>1. Cardinality(Holding(c.id))' <= Cardinality(Holding(c.id))
    BY <1>1, <1>4, StillHands, Zenon
  <2>2. ~Exists(c.id)'
    BY <1>3 DEF Exists
  <2>3. Granted(c.id)' = MaxRetries /\ Open(c.id)' = 0
    BY <2>2, Zenon DEF Granted, Open
  <2>4. Granted(c.id) <= MaxRetries
    <3>1. jobs[c.id].retries <= MaxRetries
      BY <1>1, Zenon DEF RetriesInv
    <3>2. MaxRetries <= MaxRetries
      BY GobbleAssumption
    <3> QED
      BY <3>1, <3>2, Zenon DEF Granted
  <2>5. ASSUME NEW a \in Nat, NEW m \in Nat, NEW o \in Nat, NEW b \in Nat, NEW g \in Nat,
               NEW m1 \in Nat, NEW g1 \in Nat, m1 <= m, g <= g1
        PROVE  a + m1 + 0 + b + g <= a + m + o + b + g1
    BY <2>5
  <2> QED
    BY <1>0, <1>1, <1>2, <2>1, <2>3, <2>4, <2>5, BudgetTypes, Zenon DEF Paid
<1>6. ASSUME NEW j \in JobID, j # c.id PROVE Paid(j)
  BY <1>0, <1>2, <1>3, <1>4, <1>6, Unaffected, Zenon
<1> QED
  BY <1>0, <1>2, <1>5, <1>6, Pays, Zenon

\* The first attempt of a new job is paid for by the boot of who enqueues it.
LEMMA EnqueueBudget ==
    ASSUME IndInv, BootedInv, TypeOK', BudgetInv, NEW i \in Instances, Enqueue(i),
           NEW k, k = lastID + 1
    PROVE  BudgetInv'
<1>0. TypeOK /\ lastID \in Nat /\ k \in JobID /\ inst[i] = "up" /\ boots \in Nat
  BY Fields, GobbleAssumption DEF IndInv, Enqueue, JobID, TypeOK
<1>1. lastID' = k /\ attempts' = attempts /\ boots' = boots /\ fetch' = fetch
  BY Zenon DEF Enqueue, history, procVars
<1>2. /\ jobs'[k].retries = 0 /\ jobs'[k].version = 1
      /\ \A j \in JobID : j # k => jobs'[j] = jobs[j]
  <2>1. jobs' = [jobs EXCEPT ![k] =
                   [worker |-> Free, version |-> 1, retries |-> 0, active_at |-> "past"]]
    BY Zenon DEF Enqueue
  <2>2. jobs \in [JobID -> Row]
    BY <1>0, Zenon DEF TypeOK
  <2> QED
    BY <1>0, <2>1, <2>2, Zenon
<1>3. boots >= 1
  BY <1>0, Zenon DEF BootedInv
<1>4. attempts[k] = 0
  <2>1. k > lastID
    BY <1>0
  <2> QED
    BY <1>0, <2>1, Zenon DEF BudgetInv
<1>5. Cardinality(Holding(k))' = 0
  <2>1. ASSUME NEW v \in Workers, Holds(v, k) PROVE FALSE
    BY <1>0, <2>1, Fields DEF Holds, IndInv, CopyInv, FReads, NotNewer
  <2>2. Holding(k)' = {}
    BY <1>1, <2>1, Zenon DEF Holding, Holds, FHolds
  <2> QED
    BY <2>2, NoWorkers, Zenon
<1>6. Granted(k)' = 0
  <2>1. Exists(k)'
    BY <1>2 DEF Exists
  <2> QED
    BY <1>2, <2>1, Zenon DEF Granted
<1>7. attempts'[k] + Cardinality(Holding(k))' + Open(k)' <= boots' + Granted(k)'
  <2>1. ASSUME NEW o \in Nat, o <= 1, NEW b \in Nat, b >= 1 PROVE 0 + 0 + o <= b + 0
    BY <2>1
  <2> QED
    BY <1>0, <1>1, <1>3, <1>4, <1>5, <1>6, <2>1, BudgetTypes, Zenon
<1>8. ASSUME NEW j \in JobID, j # k
      PROVE  IF j > k THEN attempts'[j] = 0
             ELSE attempts'[j] + Cardinality(Holding(j))' + Open(j)' <= boots' + Granted(j)'
  <2>1. Open(j)' = Open(j) /\ Granted(j)' = Granted(j)
    BY <1>2, <1>8, Zenon DEF Open, Granted, Exists
  <2>2. Cardinality(Holding(j))' = Cardinality(Holding(j))
    BY <1>1, Zenon DEF Holding, Holds, FHolds
  <2>3. j > k <=> j > lastID
    BY <1>0, <1>8 DEF JobID
  <2> QED
    BY <1>1, <2>1, <2>2, <2>3, Zenon DEF BudgetInv
<1>9. ~(k > k)
  BY <1>0 DEF JobID
<1> QED
  BY <1>0, <1>1, <1>7, <1>8, <1>9, Zenon DEF BudgetInv
LEMMA DieBudget ==
    ASSUME TypeOK, TypeOK', BudgetInv, NEW i \in Instances, Die(i),
           lastID' = lastID, attempts' = attempts, boots' = boots, jobs' = jobs
    PROVE  BudgetInv'
<1>1. \A v \in Workers : fetch'[v].pc \in {"off", "find", "update"} \/ fetch'[v] = fetch[v]
  BY DieEffect, Zenon
<1> QED
  BY <1>1, QuietBudget, Zenon

LEMMA BudgetStep ==
    ASSUME IndInv, AttemptsInv, TypeOK', [Next]_vars
    PROVE  BudgetInv'
<1>0. TypeOK /\ BudgetInv /\ RetriesInv /\ BootedInv
  BY Zenon DEF IndInv, AttemptsInv
<1>1. ASSUME NEW i \in Instances, StartWorkers(i) \/ Close(i) PROVE BudgetInv'
  <2>1. /\ lastID' = lastID /\ attempts' = attempts /\ boots' = boots /\ jobs' = jobs
        /\ fetch' = fetch
    BY <1>1, Zenon DEF StartWorkers, Close, queueVars, history
  <2> QED
    BY <1>0, <2>1, QuietBudget, Zenon
<1>2. ASSUME NEW i \in Instances, Crash(i) PROVE BudgetInv'
  BY <1>0, <1>2, DieBudget, Zenon DEF Crash, queueVars, history
<1>3. ASSUME NEW j \in JobID, Elapse(j) PROVE BudgetInv'
  <2>1. lastID' = lastID /\ attempts' = attempts /\ boots' = boots /\ fetch' = fetch
    BY <1>3, Zenon DEF Elapse, procVars, history
  <2>2. \A k \in JobID : /\ jobs'[k].worker = jobs[k].worker
                         /\ jobs'[k].version = jobs[k].version
                         /\ jobs'[k].retries = jobs[k].retries
    BY <1>0, <1>3 DEF Elapse, TypeOK, Row
  <2> QED
    BY <1>0, <2>1, <2>2, QuietBudget, Zenon
<1>4. ASSUME NEW w \in Workers, findJob(w) \/ Perform(w) PROVE BudgetInv'
  <2>1. /\ lastID' = lastID /\ attempts' = attempts /\ boots' = boots /\ jobs' = jobs
        /\ \E c : SetFetch(w, "update", c) \/ SetFetch(w, "find", c)
    BY <1>4, Zenon DEF findJob, Perform, queueVars, procVars, history
  <2>2. \A v \in Workers : fetch'[v].pc \in {"off", "find", "update"} \/ fetch'[v] = fetch[v]
    BY <1>0, <2>1, FetchEffect, Zenon
  <2> QED
    BY <1>0, <2>1, <2>2, QuietBudget, Zenon
<1>5. ASSUME NEW w \in Workers, Halt(w) \/ CallbackRetries(w) \/ CallbackCompletes(w)
      PROVE  BudgetInv'
  <2>1. /\ lastID' = lastID /\ attempts' = attempts /\ boots' = boots /\ jobs' = jobs
        /\ fetch' = fetch
    BY <1>5, Zenon DEF Halt, CallbackRetries, CallbackCompletes, queueVars, procVars, history
  <2> QED
    BY <1>0, <2>1, QuietBudget, Zenon
<1>6. ASSUME NEW w \in Workers, checkClosed(w) PROVE BudgetInv'
  <2>1. /\ lastID' = lastID /\ attempts' = attempts /\ boots' = boots /\ jobs' = jobs
        /\ fetch'[w].job = fetch[w].job /\ fetch[w].pc = "check"
        /\ \A v \in Workers : v # w => fetch'[v] = fetch[v]
    BY <1>0, <1>6, FetchEffect, Zenon DEF checkClosed, queueVars, procVars, history
  <2>2. FHolds(w)
    BY <2>1, Zenon DEF FHolds
  <2>3. ASSUME NEW j \in JobID PROVE \A v \in Workers : Holds(v, j)' => Holds(v, j)
    BY <2>1, <2>2, Zenon DEF Holds, FHolds
  <2>4. \A j \in JobID : Paid(j)
    BY <1>0, <2>1, <2>3, Unaffected, Zenon
  <2> QED
    BY <1>0, <2>1, <2>4, Pays, Zenon
<1>7. ASSUME NEW w \in Workers, updateJob(w) PROVE BudgetInv'
  <2>1. CASE Current(fetch[w].job)
    BY <1>0, <1>7, <2>1, ReadTypes, UpdateBudget, Zenon
  <2>2. CASE ~Current(fetch[w].job)
    <3>1. /\ lastID' = lastID /\ attempts' = attempts /\ boots' = boots /\ jobs' = jobs
          /\ SetFetch(w, "find", NoJob)
      BY <1>7, <2>2, Zenon DEF updateJob, procVars, history
    <3>2. \A v \in Workers : fetch'[v].pc \in {"off", "find", "update"} \/ fetch'[v] = fetch[v]
      BY <1>0, <3>1, FetchEffect, Zenon
    <3> QED
      BY <1>0, <3>1, <3>2, QuietBudget, Zenon
  <2> QED
    BY <2>1, <2>2, Zenon
<1>8. ASSUME NEW w \in Workers, release(w) PROVE BudgetInv'
  <2>1. CASE Current(fetch[w].job) /\ jobs' = Write(fetch[w].job, Free, fetch[w].job.retries, "past")
    BY <1>0, <1>8, <2>1, ReadTypes, ReleaseBudget, Zenon
  <2>2. CASE jobs' = jobs
    <3>1. /\ lastID' = lastID /\ attempts' = attempts /\ boots' = boots
          /\ SetFetch(w, "off", NoJob)
      BY <1>8, Zenon DEF release, procVars, history
    <3>2. \A v \in Workers : fetch'[v].pc \in {"off", "find", "update"} \/ fetch'[v] = fetch[v]
      BY <1>0, <3>1, FetchEffect, Zenon
    <3> QED
      BY <1>0, <2>2, <3>1, <3>2, QuietBudget, Zenon
  <2> QED
    BY <1>8, <2>1, <2>2, Zenon DEF release
<1>9. ASSUME NEW w \in Workers, Receive(w) PROVE BudgetInv'
  BY <1>0, <1>9, ReadTypes, ReceiveBudget, Zenon
<1>10. ASSUME NEW w \in Workers, Requeue(w) PROVE BudgetInv'
  <2>0. perf[w].job \in Copy /\ Host[w] \in Instances
    BY <1>0, ReadTypes, GobbleAssumption, Zenon
  <2>1. CASE /\ Current(perf[w].job) /\ fetch' = fetch
             /\ jobs' = Write(perf[w].job, Free, perf[w].job.retries, "future")
    BY <1>0, <1>10, <2>0, <2>1, RequeueBudget, Zenon
  <2>2. CASE Die(Host[w]) /\ jobs' = jobs
    BY <1>0, <1>10, <2>0, <2>2, DieBudget, Zenon DEF Requeue, history
  <2> QED
    BY <1>10, <2>1, <2>2, Zenon DEF Requeue
<1>11. ASSUME NEW w \in Workers, Dequeue(w) PROVE BudgetInv'
  <2>0. perf[w].job \in Copy /\ Host[w] \in Instances
    BY <1>0, ReadTypes, GobbleAssumption, Zenon
  <2>1. CASE /\ Current(perf[w].job) /\ fetch' = fetch
             /\ jobs' = [jobs EXCEPT ![perf[w].job.id] = NoRow]
    BY <1>0, <1>11, <2>0, <2>1, DequeueBudget, Zenon
  <2>2. CASE Die(Host[w]) /\ jobs' = jobs
    BY <1>0, <1>11, <2>0, <2>2, DieBudget, Zenon DEF Dequeue, history
  <2> QED
    BY <1>11, <2>1, <2>2, Zenon DEF Dequeue
<1>12. CASE UNCHANGED vars
  <2>1. /\ lastID' = lastID /\ attempts' = attempts /\ boots' = boots /\ jobs' = jobs
        /\ fetch' = fetch
    BY <1>12, Zenon DEF vars
  <2> QED
    BY <1>0, <2>1, QuietBudget, Zenon
<1>13. ASSUME NEW i \in Instances, Boot(i) PROVE BudgetInv'
  BY <1>0, <1>13, BootBudget, Zenon
<1>14. ASSUME NEW i \in Instances, Enqueue(i) PROVE BudgetInv'
  BY <1>0, <1>14, EnqueueBudget, Zenon
<1> QED
  BY <1>1, <1>2, <1>3, <1>4, <1>5, <1>6, <1>7, <1>8, <1>9, <1>10, <1>11, <1>12, <1>13, <1>14,
     Zenon DEF Next, WorkerStep

\* A job is attempted once, once more for each retry its row records and once
\* more for each boot after the first, and for no other reason
\* (AttemptsAccounted), however reservations, releases, crashes and Unlocks
\* interleave.
THEOREM AttemptsPaid == Spec => []AttemptsAccounted
<1>1. Init => AttemptsInv
  <2> SUFFICES ASSUME Init PROVE AttemptsInv
    BY Zenon
  <2>1. BudgetInv
    BY DEF Init, BudgetInv, JobID
  <2>2. BootedInv
    BY Zenon DEF Init, BootedInv
  <2>3. \A j \in JobID : jobs[j].retries <= MaxRetries
    BY GobbleAssumption DEF Init, NoRow
  <2>4. \A w \in Workers : ~FReads(w) /\ ~PHolds(w)
    BY Zenon DEF Init, Off, FReads, FHolds, PHolds
  <2> QED
    BY <2>1, <2>2, <2>3, <2>4, Zenon DEF AttemptsInv, RetriesInv
<1>2. IndInv /\ AttemptsInv /\ TypeOK' /\ [Next]_vars => AttemptsInv'
  BY BudgetStep, BootedStep, RetriesStep, Zenon DEF AttemptsInv
<1>3. IndInv /\ AttemptsInv => AttemptsAccounted
  <2> SUFFICES ASSUME IndInv, AttemptsInv, NEW j \in JobID
               PROVE  attempts[j] <= boots + Granted(j)
    BY Zenon DEF AttemptsAccounted, Granted
  <2> DEFINE n == Cardinality(Holding(j))
  <2>1. /\ attempts[j] \in Nat /\ n \in Nat /\ Open(j) \in Nat /\ boots \in Nat
        /\ Granted(j) \in Nat
    BY BudgetTypes, Zenon DEF IndInv
  <2>2. attempts[j] = 0 \/ attempts[j] + n + Open(j) <= boots + Granted(j)
    BY Zenon DEF AttemptsInv, BudgetInv
  <2> HIDE DEF n
  <2> QED
    BY <2>1, <2>2
<1>4. IndInv => TypeOK
  BY Zenon DEF IndInv
<1> QED
  BY <1>1, <1>2, <1>3, <1>4, IndInvCorrect, PTL DEF Spec
=============================================================================
