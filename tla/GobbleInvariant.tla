-------------------------- MODULE GobbleInvariant ---------------------------
(***************************************************************************)
(* The inductive invariant of Gobble: type correctness, what actions do to *)
(* the fields the invariant talks about, and that every step keeps it, for *)
(* any number of instances, workers, jobs, retries and boots.  The retries *)
(* that copies carry, and which only the count of attempts needs, have an  *)
(* invariant of their own at the end.                                      *)
(***************************************************************************)
EXTENDS Gobble, TLAPS

\* The reserving goroutine of w has a reserved copy; it has any copy; the
\* callback of w has one.
FHolds(w) == fetch[w].pc \in {"check", "release", "send"}
FReads(w) == fetch[w].pc = "update" \/ FHolds(w)
PHolds(w) == perf[w].pc \in {"callback", "requeue", "dequeue"}

\* Rows exist only for the identifiers handed out so far.
RowsInv == \A j \in JobID : j > lastID => ~Exists(j)

\* A copy is of a job that was enqueued and is not newer than its row.
NotNewer(c) ==
    /\ c.id \in 1 .. lastID
    /\ c.version > 0
    /\ Exists(c.id) => c.version <= jobs[c.id].version

CopyInv ==
    \A w \in Workers :
        /\ FReads(w) => NotNewer(fetch[w].job)
        /\ PHolds(w) => NotNewer(perf[w].job)

\* What findJob read was unreserved, and still is if the version is.
FindInv ==
    \A w \in Workers :
        (fetch[w].pc = "update" /\ Current(fetch[w].job))
            => jobs[fetch[w].job.id].worker = Free

\* A process that is not up has no goroutine, and a worker's callback and its
\* reserving goroutine are never both at work.
ProcInv ==
    \A w \in Workers :
        /\ inst[Host[w]] # "up" => fetch[w].pc = "off" /\ perf[w].pc = "off"
        /\ perf[w].pc \notin {"select", "halted"} => fetch[w].pc = "off"
        /\ fetch[w].pc = "release" => closed[Host[w]]

\* Different workers hold a job at different versions.
DistinctInv ==
    \A v, w \in Workers : v # w =>
        /\ (FHolds(v) /\ FHolds(w) /\ fetch[v].job.id = fetch[w].job.id)
              => fetch[v].job.version # fetch[w].job.version
        /\ (PHolds(v) /\ PHolds(w) /\ perf[v].job.id = perf[w].job.id)
              => perf[v].job.version # perf[w].job.version
        /\ (FHolds(v) /\ PHolds(w) /\ fetch[v].job.id = perf[w].job.id)
              => fetch[v].job.version # perf[w].job.version

\* A job whose row is gone, or about to be deleted, was finished.
DoneInv ==
    /\ \A j \in JobID : (j <= lastID /\ ~Exists(j)) => j \in completed
    /\ \A w \in Workers : perf[w].pc = "dequeue" => perf[w].job.id \in completed

\* LockedRowHasHolder, with the two kinds of copies spelled out.
LockInv ==
    \A j \in JobID, w \in Workers : jobs[j].worker = w =>
        \/ FHolds(w) /\ fetch[w].job.id = j /\ Current(fetch[w].job)
        \/ PHolds(w) /\ perf[w].job.id = j /\ Current(perf[w].job)
        \/ inst[Host[w]] = "down"
        \/ closed[Host[w]]

IndInv ==
    /\ TypeOK
    /\ RowsInv
    /\ CopyInv
    /\ FindInv
    /\ ProcInv
    /\ DistinctInv
    /\ DoneInv
    /\ LockInv

-----------------------------------------------------------------------------
(* Types.                                                                  *)

FetchType == [Workers -> [pc: FetchPC, job: Copy]]
PerfType == [Workers -> [pc: PerfPC, job: Copy]]

\* The zero job, the copy of a row and an incremented copy are copies.
LEMMA CopyTypes ==
    ASSUME TypeOK
    PROVE  /\ NoJob \in Copy
           /\ \A j \in JobID : CopyOf(j) \in Copy
           /\ \A c \in Copy : [c EXCEPT !.version = c.version + 1] \in Copy
           /\ \A c \in Copy : [c EXCEPT !.retries = @ + 1] \in Copy
<1>1. NoJob \in Copy
  BY GobbleAssumption DEF NoJob, Copy
<1>2. \A j \in JobID : CopyOf(j) \in Copy
  BY GobbleAssumption DEF TypeOK, Copy, CopyOf, JobID, Row
<1>3. \A c \in Copy : [c EXCEPT !.version = c.version + 1] \in Copy
  BY DEF Copy
<1>4. \A c \in Copy : [c EXCEPT !.retries = @ + 1] \in Copy
  BY DEF Copy
<1> QED
  BY <1>1, <1>2, <1>3, <1>4, Zenon

\* What an action reads from its goroutines is a copy.
LEMMA ReadTypes ==
    ASSUME TypeOK, NEW w \in Workers
    PROVE  /\ fetch[w].job \in Copy /\ fetch[w].pc \in FetchPC
           /\ perf[w].job \in Copy /\ perf[w].pc \in PerfPC
  BY Zenon DEF TypeOK

\* gorp's UPDATE keeps the type of the table.
LEMMA WriteType ==
    ASSUME TypeOK, NEW c \in Copy, NEW w \in Workers \cup {Free}, NEW n \in Nat,
           NEW at \in {"past", "future"}
    PROVE  Write(c, w, n, at) \in [JobID -> Row]
<1>1. [worker |-> w, version |-> c.version + 1, retries |-> n, active_at |-> at] \in Row
  BY DEF Row, Copy
<1> QED
  BY <1>1, Zenon DEF Write, TypeOK

\* A step of a goroutine keeps the type of the goroutines.
LEMMA SetTypes ==
    ASSUME TypeOK, NEW w \in Workers, NEW c \in Copy
    PROVE  /\ \A p \in FetchPC : SetFetch(w, p, c) => fetch' \in FetchType
           /\ \A p \in PerfPC : SetPerf(w, p, c) => perf' \in PerfType
  BY SMTT(60) DEF TypeOK, SetFetch, SetPerf, FetchType, PerfType

\* So does the end of a process.
LEMMA DieType ==
    ASSUME TypeOK, NEW i \in Instances, Die(i)
    PROVE  /\ inst' \in [Instances -> {"down", "booting", "up"}]
           /\ fetch' \in FetchType
           /\ perf' \in PerfType
<1>1. Off \in [pc: FetchPC, job: Copy] /\ Off \in [pc: PerfPC, job: Copy]
  BY CopyTypes, Zenon DEF Off, FetchPC, PerfPC
<1> QED
  BY <1>1, Zenon DEF TypeOK, Die, FetchType, PerfType

\* Counting an attempt keeps the type of the counts.
LEMMA CountType ==
    ASSUME NEW f \in [JobID -> Nat], NEW k
    PROVE  [f EXCEPT ![k] = @ + 1] \in [JobID -> Nat]
<1>1. ASSUME NEW j \in JobID PROVE [f EXCEPT ![k] = @ + 1][j] \in Nat
  OBVIOUS
<1> QED
  BY <1>1, Zenon

\* The variables keep their types (TypeOK) under every action of the queue,
\* its workers and their processes.
THEOREM TypeCorrect == Spec => []TypeOK
<1>1. Init => TypeOK
  BY GobbleAssumption
     DEF Init, TypeOK, JobID, Row, NoRow, Copy, NoJob, Off, FetchPC, PerfPC
<1>2. TypeOK /\ [Next]_vars => TypeOK'
  <2> SUFFICES ASSUME TypeOK, [Next]_vars
               PROVE  TypeOK'
    BY Zenon
  <2>1. ASSUME NEW i \in Instances, Boot(i) PROVE TypeOK'
    <3>1. jobs' \in [JobID -> Row]
      BY <2>1, SMTT(30) DEF Boot, TypeOK, Row
    <3>2. boots' \in 0 .. MaxBoots
      BY <2>1, GobbleAssumption DEF Boot, TypeOK
    <3> QED
      BY <2>1, <3>1, <3>2, Zenon DEF Boot, TypeOK
  <2>2. ASSUME NEW i \in Instances, StartWorkers(i) PROVE TypeOK'
    <3>1. perf' \in PerfType
      BY <2>2, CopyTypes, Zenon DEF StartWorkers, TypeOK, PerfType, PerfPC
    <3> QED
      BY <2>2, <3>1, Zenon DEF StartWorkers, TypeOK, PerfType, queueVars, history
  <2>3. ASSUME NEW i \in Instances, Crash(i) PROVE TypeOK'
    BY <2>3, DieType, Zenon DEF Crash, TypeOK, FetchType, PerfType, queueVars, history
  <2>4. ASSUME NEW i \in Instances, Close(i) PROVE TypeOK'
    BY <2>4, Zenon DEF Close, TypeOK, queueVars, history
  <2>5. ASSUME NEW i \in Instances, Enqueue(i) PROVE TypeOK'
    <3>1. [worker |-> Free, version |-> 1, retries |-> 0, active_at |-> "past"] \in Row
      BY Zenon DEF Row
    <3>2. jobs' \in [JobID -> Row]
      BY <2>5, <3>1, Zenon DEF Enqueue, TypeOK
    <3>3. lastID' \in 0 .. MaxJobs
      BY <2>5, GobbleAssumption DEF Enqueue, TypeOK
    <3> QED
      BY <2>5, <3>2, <3>3, Zenon DEF Enqueue, TypeOK, procVars, history
  <2>6. ASSUME NEW j \in JobID, Elapse(j) PROVE TypeOK'
    <3>1. jobs' \in [JobID -> Row]
      BY <2>6, SMTT(30) DEF Elapse, TypeOK, Row
    <3> QED
      BY <2>6, <3>1, Zenon DEF Elapse, TypeOK, procVars, history
  <2>7. ASSUME NEW w \in Workers, findJob(w) PROVE TypeOK'
    <3>1. fetch' \in FetchType
      BY <2>7, CopyTypes, SetTypes, Zenon DEF findJob, FetchPC
    <3> QED
      BY <2>7, <3>1, Zenon DEF findJob, TypeOK, FetchType, queueVars, procVars, history
  <2>8. ASSUME NEW w \in Workers, updateJob(w) PROVE TypeOK'
    <3>1. fetch' \in FetchType
      BY <2>8, CopyTypes, ReadTypes, SetTypes, Zenon DEF updateJob, FetchPC
    <3>2. jobs' \in [JobID -> Row]
      <4>1. fetch[w].job.retries \in Nat
        BY ReadTypes, Zenon DEF Copy
      <4> QED
        BY <2>8, <4>1, ReadTypes, WriteType DEF updateJob, TypeOK
    <3> QED
      BY <2>8, <3>1, <3>2, Zenon DEF updateJob, TypeOK, FetchType, procVars, history
  <2>9. ASSUME NEW w \in Workers, checkClosed(w) PROVE TypeOK'
    <3>1. fetch' \in FetchType
      BY <2>9, ReadTypes, SetTypes, Zenon DEF checkClosed, FetchPC
    <3> QED
      BY <2>9, <3>1, Zenon DEF checkClosed, TypeOK, FetchType, queueVars, procVars, history
  <2>10. ASSUME NEW w \in Workers, release(w) PROVE TypeOK'
    <3>1. fetch' \in FetchType
      BY <2>10, CopyTypes, SetTypes, Zenon DEF release, FetchPC
    <3>2. jobs' \in [JobID -> Row]
      <4>1. fetch[w].job.retries \in Nat
        BY ReadTypes, Zenon DEF Copy
      <4>2. Write(fetch[w].job, Free, fetch[w].job.retries, "past") \in [JobID -> Row]
        BY <4>1, ReadTypes, WriteType, Zenon
      <4> QED
        BY <2>10, <4>2, Zenon DEF release, TypeOK
    <3> QED
      BY <2>10, <3>1, <3>2, Zenon DEF release, TypeOK, FetchType, procVars, history
  <2>11. ASSUME NEW w \in Workers, Perform(w) PROVE TypeOK'
    <3>1. fetch' \in FetchType /\ perf' \in PerfType
      BY <2>11, CopyTypes, SetTypes, Zenon DEF Perform, FetchPC, PerfPC
    <3> QED
      BY <2>11, <3>1, Zenon DEF Perform, TypeOK, FetchType, PerfType, queueVars, procVars, history
  <2>12. ASSUME NEW w \in Workers, Receive(w) PROVE TypeOK'
    <3>1. fetch' \in FetchType /\ perf' \in PerfType
      BY <2>12, CopyTypes, ReadTypes, SetTypes, Zenon DEF Receive, FetchPC, PerfPC
    <3>2. attempts' \in [JobID -> Nat]
      BY <2>12, CountType, Zenon DEF Receive, TypeOK
    <3> QED
      BY <2>12, <3>1, <3>2, Zenon DEF Receive, TypeOK, FetchType, PerfType, queueVars, procVars
  <2>13. ASSUME NEW w \in Workers, CallbackRetries(w) PROVE TypeOK'
    <3>1. perf' \in PerfType
      BY <2>13, CopyTypes, ReadTypes, SetTypes, Zenon DEF CallbackRetries, PerfPC
    <3> QED
      BY <2>13, <3>1, Zenon DEF CallbackRetries, TypeOK, PerfType, queueVars, procVars, history
  <2>14. ASSUME NEW w \in Workers, CallbackCompletes(w) PROVE TypeOK'
    <3>1. perf' \in PerfType
      BY <2>14, ReadTypes, SetTypes, Zenon DEF CallbackCompletes, PerfPC
    <3>2. perf[w].job.id \in 0 .. MaxJobs
      BY ReadTypes, Zenon DEF Copy
    <3> QED
      BY <2>14, <3>1, <3>2, Zenon DEF CallbackCompletes, TypeOK, PerfType, queueVars, procVars
  <2>15. ASSUME NEW w \in Workers, Requeue(w) PROVE TypeOK'
    <3>1. CASE Current(perf[w].job)
      <4>1. perf' \in PerfType
        BY <2>15, <3>1, CopyTypes, SetTypes, Zenon DEF Requeue, PerfPC
      <4>2. perf[w].job.retries \in Nat
        BY ReadTypes, Zenon DEF Copy
      <4>3. Write(perf[w].job, Free, perf[w].job.retries, "future") \in [JobID -> Row]
        BY <4>2, ReadTypes, WriteType, Zenon
      <4> QED
        BY <2>15, <3>1, <4>1, <4>3, Zenon DEF Requeue, TypeOK, PerfType, history
    <3>2. CASE ~Current(perf[w].job)
      BY <2>15, <3>2, DieType, GobbleAssumption, Zenon
         DEF Requeue, TypeOK, FetchType, PerfType, history
    <3> QED
      BY <3>1, <3>2, Zenon
  <2>16. ASSUME NEW w \in Workers, Dequeue(w) PROVE TypeOK'
    <3>1. CASE Current(perf[w].job)
      <4>1. perf' \in PerfType
        BY <2>16, <3>1, CopyTypes, SetTypes, Zenon DEF Dequeue, PerfPC
      <4>2. NoRow \in Row
        BY Zenon DEF NoRow, Row
      <4>3. jobs' \in [JobID -> Row]
        BY <2>16, <3>1, <4>2, Zenon DEF Dequeue, TypeOK
      <4> QED
        BY <2>16, <3>1, <4>1, <4>3, Zenon DEF Dequeue, TypeOK, PerfType, history
    <3>2. CASE ~Current(perf[w].job)
      BY <2>16, <3>2, DieType, GobbleAssumption, Zenon
         DEF Dequeue, TypeOK, FetchType, PerfType, history
    <3> QED
      BY <3>1, <3>2, Zenon
  <2>17. ASSUME NEW w \in Workers, Halt(w) PROVE TypeOK'
    <3>1. perf' \in PerfType
      BY <2>17, CopyTypes, SetTypes, Zenon DEF Halt, PerfPC
    <3> QED
      BY <2>17, <3>1, Zenon DEF Halt, TypeOK, PerfType, queueVars, procVars, history
  <2>18. CASE UNCHANGED vars
    BY <2>18, Zenon DEF TypeOK, vars
  <2> QED
    BY <2>1, <2>2, <2>3, <2>4, <2>5, <2>6, <2>7, <2>8, <2>9, <2>10, <2>11, <2>12, <2>13, <2>14, <2>15, <2>16, <2>17, <2>18, Zenon DEF Next, WorkerStep
<1> QED
  BY <1>1, <1>2, PTL DEF Spec
-----------------------------------------------------------------------------
(* What the actions do to the fields the invariant talks about.            *)

\* The fields of rows and copies, under their types.
LEMMA Fields ==
    ASSUME TypeOK
    PROVE  /\ \A j \in JobID : /\ jobs[j].version \in Nat
                               /\ jobs[j].retries \in Nat
                               /\ jobs[j].worker \in Workers \cup {Free}
           /\ \A w \in Workers :
                 /\ fetch[w].job.id \in Nat /\ fetch[w].job.version \in Nat
                 /\ perf[w].job.id \in Nat /\ perf[w].job.version \in Nat
                 /\ perf[w].job.retries \in Nat /\ fetch[w].job.retries \in Nat
                 /\ fetch[w].pc \in FetchPC /\ perf[w].pc \in PerfPC
           /\ lastID \in Nat /\ lastID <= MaxJobs
  BY GobbleAssumption DEF TypeOK, Row, Copy

\* One goroutine moves and the others stay.
LEMMA FetchEffect ==
    ASSUME TypeOK, NEW w \in Workers, NEW p, NEW c, SetFetch(w, p, c)
    PROVE  /\ fetch'[w].pc = p
           /\ fetch'[w].job = c
           /\ \A v \in Workers : v # w => fetch'[v] = fetch[v]
  BY Zenon DEF SetFetch, TypeOK

\* One worker's loop moves and the others stay.
LEMMA PerfEffect ==
    ASSUME TypeOK, NEW w \in Workers, NEW p, NEW c, SetPerf(w, p, c)
    PROVE  /\ perf'[w].pc = p
           /\ perf'[w].job = c
           /\ \A v \in Workers : v # w => perf'[v] = perf[v]
  BY Zenon DEF SetPerf, TypeOK

\* One row is written, with the next version, and the others stay.
LEMMA WriteEffect ==
    ASSUME TypeOK, NEW c, c.id \in JobID, NEW u, NEW n, NEW at,
           jobs' = Write(c, u, n, at)
    PROVE  /\ jobs'[c.id].worker = u
           /\ jobs'[c.id].version = c.version + 1
           /\ jobs'[c.id].retries = n
           /\ \A j \in JobID : j # c.id => jobs'[j] = jobs[j]
  BY Zenon DEF Write, TypeOK

\* The goroutines of one process end and the others stay.
LEMMA DieEffect ==
    ASSUME TypeOK, NEW i \in Instances, Die(i)
    PROVE  /\ inst'[i] = "down"
           /\ \A k \in Instances : k # i => inst'[k] = inst[k]
           /\ \A w \in Workers :
                 IF Host[w] = i THEN fetch'[w].pc = "off" /\ perf'[w].pc = "off"
                                ELSE fetch'[w] = fetch[w] /\ perf'[w] = perf[w]
  BY Zenon DEF Die, Off, TypeOK

\* A copy that somebody has in hand is of a row of the table.
LEMMA CopiesInTable ==
    ASSUME TypeOK, CopyInv
    PROVE  \A w \in Workers : /\ FReads(w) => fetch[w].job.id \in JobID
                              /\ PHolds(w) => perf[w].job.id \in JobID
<1>1. ASSUME NEW c, NotNewer(c) PROVE c.id \in JobID
  BY <1>1, Fields, GobbleAssumption DEF NotNewer, JobID
<1> QED
  BY <1>1, Zenon DEF CopyInv

\* A successful UPDATE makes no row appear or vanish, and no copy newer than
\* its row.
LEMMA RowsAge ==
    ASSUME TypeOK, NEW c \in Copy, c.id \in JobID, NotNewer(c), Current(c),
           lastID' = lastID, jobs'[c.id].version = c.version + 1,
           \A j \in JobID : j # c.id => jobs'[j] = jobs[j]
    PROVE  /\ \A j \in JobID : Exists(j)' <=> Exists(j)
           /\ \A d \in Copy : d.id \in JobID /\ NotNewer(d) => NotNewer(d)'
<1>1. c.version \in Nat /\ c.version > 0 /\ jobs[c.id].version = c.version
  BY Zenon DEF Copy, NotNewer, Current
<1>2. jobs[c.id].version > 0 /\ jobs'[c.id].version > 0
  BY <1>1
<1>3. \A j \in JobID : Exists(j)' <=> Exists(j)
  BY <1>2, Zenon DEF Exists
<1>4. ASSUME NEW d \in Copy, d.id \in JobID, NotNewer(d) PROVE NotNewer(d)'
  <2>1. d.version \in Nat /\ d.version > 0 /\ d.id \in 1 .. lastID'
    BY <1>4, Zenon DEF Copy, NotNewer
  <2>2. CASE d.id = c.id
    <3>1. d.version <= c.version
      BY <1>1, <1>2, <1>4, <2>2, Zenon DEF NotNewer, Exists
    <3>2. d.version <= c.version + 1
      BY <1>1, <2>1, <3>1
    <3> QED
      BY <2>1, <2>2, <3>2, Zenon DEF NotNewer
  <2>3. CASE d.id # c.id
    BY <1>4, <2>1, <2>3, Zenon DEF NotNewer, Exists
  <2> QED
    BY <2>2, <2>3, Zenon
<1> QED
  BY <1>3, <1>4, Zenon

-----------------------------------------------------------------------------
(* Steps of the processes and of the table.                                *)

\* Unlock frees rows and leaves their versions alone: copies stay as old as they
\* were, and no row is locked.
LEMMA BootKeeps ==
    ASSUME IndInv, TypeOK', NEW i \in Instances, Boot(i)
    PROVE  IndInv'
<1> USE Fields, GobbleAssumption
    DEF IndInv, FHolds, FReads, PHolds, NotNewer, Exists, Current, JobID
<1>1. /\ \A j \in JobID : jobs'[j].worker = Free /\ jobs'[j].version = jobs[j].version
      /\ inst[i] = "down" /\ inst'[i] = "booting" /\ ~closed'[i]
      /\ \A k \in Instances : k # i => inst'[k] = inst[k] /\ closed'[k] = closed[k]
      /\ lastID' = lastID /\ fetch' = fetch /\ perf' = perf /\ completed' = completed
  BY DEF Boot, TypeOK, Row, history
<1>2. RowsInv'
  BY <1>1, Zenon DEF RowsInv
<1>3. CopyInv'
  BY <1>1 DEF CopyInv
<1>4. FindInv'
  BY <1>1 DEF FindInv, CopyInv
<1>5. ProcInv'
  BY <1>1, Zenon DEF ProcInv
<1>6. DoneInv'
  BY <1>1, Zenon DEF DoneInv
<1>7. LockInv'
  BY <1>1 DEF LockInv
<1> QED
  BY <1>1, <1>2, <1>3, <1>4, <1>5, <1>6, <1>7, Zenon DEF DistinctInv

\* The loops start without a job in hand.
LEMMA StartWorkersKeeps ==
    ASSUME IndInv, TypeOK', NEW i \in Instances, StartWorkers(i)
    PROVE  IndInv'
<1> USE Fields, GobbleAssumption
    DEF IndInv, FHolds, FReads, PHolds, NotNewer, Exists, Current, JobID
<1>1. /\ inst[i] = "booting" /\ inst'[i] = "up"
      /\ \A k \in Instances : k # i => inst'[k] = inst[k]
      /\ \A w \in Workers : IF Host[w] = i THEN perf'[w].pc = "loop" ELSE perf'[w] = perf[w]
      /\ jobs' = jobs /\ lastID' = lastID /\ closed' = closed /\ fetch' = fetch
      /\ completed' = completed
  BY Zenon DEF StartWorkers, TypeOK, queueVars, history
<1>2. CopyInv'
  BY <1>1, Zenon DEF CopyInv
<1>3. ProcInv'
  BY <1>1, Zenon DEF ProcInv
<1>4. DistinctInv'
  BY <1>1 DEF DistinctInv
<1>5. DoneInv'
  BY <1>1, Zenon DEF DoneInv
<1>6. LockInv'
  BY <1>1 DEF LockInv, ProcInv
<1> QED
  BY <1>1, <1>2, <1>3, <1>4, <1>5, <1>6, Zenon DEF RowsInv, FindInv

\* A process that stops takes its copies with it and leaves its rows to a boot.
LEMMA CrashKeeps ==
    ASSUME IndInv, TypeOK', NEW i \in Instances, Crash(i)
    PROVE  IndInv'
<1> USE Fields, GobbleAssumption
    DEF IndInv, FHolds, FReads, PHolds, NotNewer, Exists, Current, JobID
<1>1. /\ inst'[i] = "down"
      /\ \A k \in Instances : k # i => inst'[k] = inst[k]
      /\ \A w \in Workers :
            IF Host[w] = i THEN fetch'[w].pc = "off" /\ perf'[w].pc = "off"
                           ELSE fetch'[w] = fetch[w] /\ perf'[w] = perf[w]
      /\ jobs' = jobs /\ lastID' = lastID /\ closed' = closed /\ completed' = completed
  BY DieEffect, Zenon DEF Crash, queueVars, history
<1>2. CopyInv'
  BY <1>1 DEF CopyInv
<1>3. FindInv'
  BY <1>1, Zenon DEF FindInv, CopyInv
<1>4. ProcInv'
  BY <1>1, Zenon DEF ProcInv
<1>5. DistinctInv'
  BY <1>1 DEF DistinctInv
<1>6. DoneInv'
  BY <1>1, Zenon DEF DoneInv
<1>7. LockInv'
  BY <1>1 DEF LockInv
<1> QED
  BY <1>1, <1>2, <1>3, <1>4, <1>5, <1>6, <1>7, Zenon DEF RowsInv

\* A closed queue excuses the rows its workers have locked.
LEMMA CloseKeeps ==
    ASSUME IndInv, TypeOK', NEW i \in Instances, Close(i)
    PROVE  IndInv'
<1> USE Fields, GobbleAssumption
    DEF IndInv, FHolds, FReads, PHolds, NotNewer, Exists, Current, JobID
<1>1. /\ closed'[i] /\ \A k \in Instances : k # i => closed'[k] = closed[k]
      /\ jobs' = jobs /\ lastID' = lastID /\ inst' = inst /\ fetch' = fetch
      /\ perf' = perf /\ completed' = completed
  BY Zenon DEF Close, TypeOK, queueVars, history
<1>2. ProcInv'
  BY <1>1, Zenon DEF ProcInv
<1>3. LockInv'
  BY <1>1 DEF LockInv
<1> QED
  BY <1>1, <1>2, <1>3, Zenon DEF RowsInv, CopyInv, FindInv, DistinctInv, DoneInv

\* The new row is the first of its identifier: nobody has a copy of it.
LEMMA EnqueueKeeps ==
    ASSUME IndInv, TypeOK', NEW i \in Instances, Enqueue(i)
    PROVE  IndInv'
<1> USE Fields, GobbleAssumption
    DEF IndInv, FHolds, FReads, PHolds, NotNewer, Exists, Current, JobID
<1>1. /\ lastID + 1 \in JobID /\ lastID' = lastID + 1
      /\ jobs'[lastID + 1].worker = Free /\ jobs'[lastID + 1].version = 1
      /\ \A j \in JobID : j # lastID + 1 => jobs'[j] = jobs[j]
      /\ inst' = inst /\ closed' = closed /\ fetch' = fetch /\ perf' = perf
      /\ completed' = completed
  BY DEF Enqueue, TypeOK, procVars, history
<1>2. RowsInv'
  BY <1>1 DEF RowsInv
<1>3. \A w \in Workers :
        /\ FReads(w) => /\ fetch[w].job.id \in JobID /\ fetch[w].job.id # lastID + 1
                       /\ jobs'[fetch[w].job.id] = jobs[fetch[w].job.id]
        /\ PHolds(w) => /\ perf[w].job.id \in JobID /\ perf[w].job.id # lastID + 1
                       /\ jobs'[perf[w].job.id] = jobs[perf[w].job.id]
  <2>1. \A w \in Workers : /\ FReads(w) => fetch[w].job.id # lastID + 1
                           /\ PHolds(w) => perf[w].job.id # lastID + 1
    BY DEF CopyInv
  <2> QED
    BY <1>1, <2>1, CopiesInTable, Zenon
<1>4. CopyInv'
  BY <1>1, <1>3, SMTT(30) DEF CopyInv
<1>5. FindInv'
  BY <1>1, <1>3, Zenon DEF FindInv
<1>6. DoneInv'
  <2>1. ASSUME NEW j \in JobID, j <= lastID', ~Exists(j)' PROVE j \in completed'
    <3>1. j # lastID + 1
      BY <1>1, <2>1
    <3>2. j <= lastID /\ ~Exists(j)
      BY <1>1, <2>1, <3>1
    <3> QED
      BY <1>1, <3>2, Zenon DEF DoneInv
  <2> QED
    BY <1>1, <2>1, Zenon DEF DoneInv
<1>7. LockInv'
  <2> SUFFICES ASSUME NEW j \in JobID, NEW w \in Workers, jobs'[j].worker = w
               PROVE  \/ FHolds(w) /\ fetch[w].job.id = j /\ jobs'[j].version = fetch[w].job.version
                      \/ PHolds(w) /\ perf[w].job.id = j /\ jobs'[j].version = perf[w].job.version
                      \/ inst[Host[w]] = "down"
                      \/ closed[Host[w]]
    BY <1>1 DEF LockInv
  <2>1. jobs'[j] = jobs[j]
    BY <1>1, Zenon
  <2> QED
    BY <2>1, Zenon DEF LockInv
<1> QED
  BY <1>1, <1>2, <1>4, <1>5, <1>6, <1>7 DEF ProcInv, DistinctInv

\* Time touches neither the version nor the worker of a row.
LEMMA ElapseKeeps ==
    ASSUME IndInv, TypeOK', NEW j \in JobID, Elapse(j)
    PROVE  IndInv'
<1> USE Fields, GobbleAssumption
    DEF IndInv, FHolds, FReads, PHolds, NotNewer, Exists, Current, JobID
<1>1. /\ \A k \in JobID : jobs'[k].worker = jobs[k].worker /\ jobs'[k].version = jobs[k].version
      /\ lastID' = lastID /\ inst' = inst /\ closed' = closed /\ fetch' = fetch
      /\ perf' = perf /\ completed' = completed
  BY SMTT(30) DEF Elapse, TypeOK, Row, procVars, history
<1>2. RowsInv'
  BY <1>1, Zenon DEF RowsInv
<1>3. CopyInv'
  BY <1>1, SMTT(30) DEF CopyInv
<1>4. FindInv'
  BY <1>1, SMTT(30) DEF FindInv, CopyInv
<1>5. DoneInv'
  BY <1>1, Zenon DEF DoneInv
<1>6. LockInv'
  BY <1>1 DEF LockInv
<1> QED
  BY <1>1, <1>2, <1>3, <1>4, <1>5, <1>6, ZenonT(30) DEF ProcInv, DistinctInv

\* findJob copies a free row.
LEMMA FindJobKeeps ==
    ASSUME IndInv, TypeOK', NEW w \in Workers, findJob(w)
    PROVE  IndInv'
<1> USE Fields, GobbleAssumption
    DEF IndInv, FHolds, FReads, PHolds, NotNewer, Exists, Current, JobID
<1>1. /\ fetch[w].pc = "find" /\ fetch'[w].pc = "update"
      /\ \E j \in JobID : /\ Exists(j) /\ jobs[j].worker = Free
                          /\ fetch'[w].job.id = j /\ fetch'[w].job.version = jobs[j].version
      /\ \A v \in Workers : v # w => fetch'[v] = fetch[v]
      /\ jobs' = jobs /\ lastID' = lastID /\ inst' = inst /\ closed' = closed
      /\ perf' = perf /\ completed' = completed
  BY FetchEffect DEF findJob, CopyOf, queueVars, procVars, history
<1>2. CopyInv'
  BY <1>1 DEF CopyInv, RowsInv
<1>3. FindInv'
  BY <1>1, Zenon DEF FindInv, CopyInv
<1>4. ProcInv'
  BY <1>1, Zenon DEF ProcInv
<1>5. DistinctInv'
  BY <1>1 DEF DistinctInv
<1>6. LockInv'
  BY <1>1 DEF LockInv
<1> QED
  BY <1>1, <1>2, <1>3, <1>4, <1>5, <1>6, Zenon DEF RowsInv, DoneInv

\* The look at `queue.closed` keeps the copy.
LEMMA CheckClosedKeeps ==
    ASSUME IndInv, TypeOK', NEW w \in Workers, checkClosed(w)
    PROVE  IndInv'
<1> USE Fields, GobbleAssumption
    DEF IndInv, FHolds, FReads, PHolds, NotNewer, Exists, Current, JobID
<1>1. /\ fetch[w].pc = "check" /\ fetch'[w].pc \in {"release", "send"}
      /\ fetch'[w].pc = "release" => closed[Host[w]]
      /\ fetch'[w].job = fetch[w].job
      /\ \A v \in Workers : v # w => fetch'[v] = fetch[v]
      /\ jobs' = jobs /\ lastID' = lastID /\ inst' = inst /\ closed' = closed
      /\ perf' = perf /\ completed' = completed
  BY FetchEffect DEF checkClosed, queueVars, procVars, history
<1>2. CopyInv'
  BY <1>1, Zenon DEF CopyInv
<1>3. FindInv'
  BY <1>1, Zenon DEF FindInv, CopyInv
<1>4. ProcInv'
  BY <1>1, Zenon DEF ProcInv
<1>5. DistinctInv'
  BY <1>1 DEF DistinctInv
<1>6. LockInv'
  BY <1>1 DEF LockInv
<1> QED
  BY <1>1, <1>2, <1>3, <1>4, <1>5, <1>6, Zenon DEF RowsInv, DoneInv

\* Perform starts a reserving goroutine with no copy.
LEMMA PerformKeeps ==
    ASSUME IndInv, TypeOK', NEW w \in Workers, Perform(w)
    PROVE  IndInv'
<1> USE Fields, GobbleAssumption
    DEF IndInv, FHolds, FReads, PHolds, NotNewer, Exists, Current, JobID
<1>1. /\ perf[w].pc = "loop" /\ perf'[w].pc = "select"
      /\ fetch'[w].pc = "find"
      /\ \A v \in Workers : v # w => fetch'[v] = fetch[v]
      /\ \A v \in Workers : v # w => perf'[v] = perf[v]
      /\ jobs' = jobs /\ lastID' = lastID /\ inst' = inst /\ closed' = closed
      /\ completed' = completed
  BY FetchEffect, PerfEffect, Zenon DEF Perform, queueVars, procVars, history
<1>2. CopyInv'
  BY <1>1, Zenon DEF CopyInv
<1>3. FindInv'
  BY <1>1, Zenon DEF FindInv, CopyInv
<1>4. ProcInv'
  BY <1>1 DEF ProcInv
<1>5. DistinctInv'
  BY <1>1 DEF DistinctInv, ProcInv
<1>6. DoneInv'
  BY <1>1, Zenon DEF DoneInv
<1>7. LockInv'
  BY <1>1 DEF LockInv, ProcInv
<1> QED
  BY <1>1, <1>2, <1>3, <1>4, <1>5, <1>6, <1>7, Zenon DEF RowsInv

\* The copy moves from the reserving goroutine to the callback.
LEMMA ReceiveKeeps ==
    ASSUME IndInv, TypeOK', NEW w \in Workers, Receive(w)
    PROVE  IndInv'
<1> USE Fields, GobbleAssumption
    DEF IndInv, FHolds, FReads, PHolds, NotNewer, Exists, Current, JobID
<1>1. /\ perf[w].pc = "select" /\ perf'[w].pc = "callback"
      /\ fetch[w].pc = "send" /\ fetch'[w].pc = "off"
      /\ perf'[w].job = fetch[w].job
      /\ \A v \in Workers : v # w => fetch'[v] = fetch[v]
      /\ \A v \in Workers : v # w => perf'[v] = perf[v]
      /\ jobs' = jobs /\ lastID' = lastID /\ inst' = inst /\ closed' = closed
      /\ completed' = completed
  BY FetchEffect, PerfEffect, SMTT(30) DEF Receive, queueVars, procVars
<1>2. CopyInv'
  BY <1>1, SMTT(30) DEF CopyInv
<1>3. FindInv'
  BY <1>1, Zenon DEF FindInv, CopyInv
<1>4. ProcInv'
  BY <1>1, ZenonT(30) DEF ProcInv
<1>5. DistinctInv'
  BY <1>1 DEF DistinctInv, ProcInv
<1>6. DoneInv'
  BY <1>1, Zenon DEF DoneInv
<1>7. LockInv'
  BY <1>1 DEF LockInv, ProcInv
<1> QED
  BY <1>1, <1>2, <1>3, <1>4, <1>5, <1>6, <1>7, Zenon DEF RowsInv

\* Counting a retry keeps the identifier and the version of the copy.
LEMMA CallbackRetriesKeeps ==
    ASSUME IndInv, TypeOK', NEW w \in Workers, CallbackRetries(w)
    PROVE  IndInv'
<1> USE Fields, GobbleAssumption
    DEF IndInv, FHolds, FReads, PHolds, NotNewer, Exists, Current, JobID
<1>1. /\ perf[w].pc = "callback" /\ perf'[w].pc = "requeue"
      /\ perf'[w].job.id = perf[w].job.id
      /\ perf'[w].job.version = perf[w].job.version
      /\ \A v \in Workers : v # w => perf'[v] = perf[v]
      /\ jobs' = jobs /\ lastID' = lastID /\ inst' = inst /\ closed' = closed
      /\ fetch' = fetch /\ completed' = completed
  BY PerfEffect, ReadTypes DEF CallbackRetries, Copy, queueVars, procVars, history
<1>2. CopyInv'
  BY <1>1, Zenon DEF CopyInv
<1>3. ProcInv'
  BY <1>1 DEF ProcInv
<1>4. DistinctInv'
  BY <1>1 DEF DistinctInv
<1>5. DoneInv'
  BY <1>1, Zenon DEF DoneInv
<1>6. LockInv'
  BY <1>1 DEF LockInv
<1> QED
  BY <1>1, <1>2, <1>3, <1>4, <1>5, <1>6, Zenon DEF RowsInv, FindInv

\* The job that is about to be deleted was finished.
LEMMA CallbackCompletesKeeps ==
    ASSUME IndInv, TypeOK', NEW w \in Workers, CallbackCompletes(w)
    PROVE  IndInv'
<1> USE Fields, GobbleAssumption
    DEF IndInv, FHolds, FReads, PHolds, NotNewer, Exists, Current, JobID
<1>1. /\ perf[w].pc = "callback" /\ perf'[w].pc = "dequeue"
      /\ perf'[w].job = perf[w].job
      /\ \A v \in Workers : v # w => perf'[v] = perf[v]
      /\ jobs' = jobs /\ lastID' = lastID /\ inst' = inst /\ closed' = closed
      /\ fetch' = fetch /\ completed' = completed \cup {perf[w].job.id}
  BY PerfEffect, Zenon DEF CallbackCompletes, queueVars, procVars
<1>2. CopyInv'
  BY <1>1, Zenon DEF CopyInv
<1>3. ProcInv'
  BY <1>1, Zenon DEF ProcInv
<1>4. DistinctInv'
  BY <1>1 DEF DistinctInv
<1>5. DoneInv'
  BY <1>1, Zenon DEF DoneInv
<1>6. LockInv'
  BY <1>1, SMTT(30) DEF LockInv
<1> QED
  BY <1>1, <1>2, <1>3, <1>4, <1>5, <1>6, Zenon DEF RowsInv, FindInv

\* A halted worker had no job in hand.
LEMMA HaltKeeps ==
    ASSUME IndInv, TypeOK', NEW w \in Workers, Halt(w)
    PROVE  IndInv'
<1> USE Fields, GobbleAssumption
    DEF IndInv, FHolds, FReads, PHolds, NotNewer, Exists, Current, JobID
<1>1. /\ perf[w].pc = "select" /\ perf'[w].pc = "halted"
      /\ \A v \in Workers : v # w => perf'[v] = perf[v]
      /\ jobs' = jobs /\ lastID' = lastID /\ inst' = inst /\ closed' = closed
      /\ fetch' = fetch /\ completed' = completed
  BY PerfEffect, Zenon DEF Halt, queueVars, procVars, history
<1>2. CopyInv'
  BY <1>1, Zenon DEF CopyInv
<1>3. ProcInv'
  BY <1>1 DEF ProcInv
<1>4. DistinctInv'
  BY <1>1 DEF DistinctInv
<1>5. DoneInv'
  BY <1>1, Zenon DEF DoneInv
<1>6. LockInv'
  BY <1>1, ZenonT(30) DEF LockInv
<1> QED
  BY <1>1, <1>2, <1>3, <1>4, <1>5, <1>6, Zenon DEF RowsInv, FindInv

\* A step that changes nothing keeps everything.
LEMMA StutterKeeps ==
    ASSUME IndInv, TypeOK', UNCHANGED vars
    PROVE  IndInv'
<1> USE Fields, GobbleAssumption
    DEF IndInv, FHolds, FReads, PHolds, NotNewer, Exists, Current, JobID
<1>1. RowsInv'
  BY Zenon DEF RowsInv, vars
<1>2. CopyInv'
  BY Zenon DEF CopyInv, vars
<1>3. FindInv'
  BY Zenon DEF FindInv, vars
<1>4. ProcInv'
  BY Zenon DEF ProcInv, vars
<1>5. DistinctInv'
  BY Zenon DEF DistinctInv, vars
<1>6. DoneInv'
  BY Zenon DEF DoneInv, vars
<1>7. LockInv'
  BY Zenon DEF LockInv, vars
<1> QED
  BY <1>1, <1>2, <1>3, <1>4, <1>5, <1>6, <1>7, Zenon

-----------------------------------------------------------------------------
(* The steps of a worker that write or delete a row.                       *)

\* updateJob moves row and copy to the next version, which no other copy has;
\* a stale copy is dropped.
LEMMA UpdateJobKeeps ==
    ASSUME IndInv, TypeOK', NEW w \in Workers, updateJob(w)
    PROVE  IndInv'
<1> USE Fields, GobbleAssumption
    DEF IndInv, FHolds, FReads, PHolds, NotNewer, Exists, Current, JobID
<1>1. CASE Current(fetch[w].job)
  <2>1. fetch[w].pc = "update" /\ fetch[w].job.id \in JobID
    <3>1. fetch[w].pc = "update"
      BY Zenon DEF updateJob
    <3> QED
      BY <3>1, CopiesInTable, Zenon
  <2>2. /\ fetch[w].pc = "update" /\ fetch'[w].pc = "check"
        /\ fetch'[w].job.id = fetch[w].job.id
        /\ fetch'[w].job.version = fetch[w].job.version + 1
        /\ \A v \in Workers : v # w => fetch'[v] = fetch[v]
        /\ jobs'[fetch[w].job.id].worker = w
        /\ jobs'[fetch[w].job.id].version = fetch[w].job.version + 1
        /\ \A j \in JobID : j # fetch[w].job.id => jobs'[j] = jobs[j]
        /\ lastID' = lastID /\ inst' = inst /\ closed' = closed
        /\ perf' = perf /\ completed' = completed
    <3> DEFINE c == fetch[w].job
               d == [c EXCEPT !.version = c.version + 1]
    <3>1. /\ SetFetch(w, "check", d)
          /\ jobs' = Write(c, w, c.retries, "past")
          /\ lastID' = lastID /\ inst' = inst /\ closed' = closed
          /\ perf' = perf /\ completed' = completed
      BY <1>1, Zenon DEF updateJob, procVars, history
    <3>2. d.id = c.id /\ d.version = c.version + 1
      BY ReadTypes, Zenon DEF Copy
    <3>3. /\ fetch'[w].pc = "check" /\ fetch'[w].job = d
          /\ \A v \in Workers : v # w => fetch'[v] = fetch[v]
      <4> HIDE DEF d
      <4> QED
        BY <3>1, FetchEffect, Zenon
    <3>4. /\ jobs'[c.id].worker = w
          /\ jobs'[c.id].version = c.version + 1
          /\ \A j \in JobID : j # c.id => jobs'[j] = jobs[j]
      BY <2>1, <3>1, WriteEffect, Zenon
    <3> HIDE DEF d
    <3> QED
      BY <2>1, <3>1, <3>2, <3>3, <3>4, Zenon
  <2>a. /\ NotNewer(fetch[w].job)
        /\ \A j \in JobID : Exists(j)' <=> Exists(j)
        /\ \A d \in Copy : d.id \in JobID /\ NotNewer(d) => NotNewer(d)'
    <3>1. NotNewer(fetch[w].job) /\ fetch[w].job \in Copy
      BY <2>1, ReadTypes, Zenon DEF CopyInv
    <3> QED
      BY <1>1, <2>1, <2>2, <3>1, RowsAge, Zenon
  <2>3. RowsInv'
    BY <2>2, <2>1, <1>1, Zenon DEF RowsInv, CopyInv
  <2>4. CopyInv'
    <3>1. \A d \in Copy : d.id \in JobID /\ NotNewer(d) => NotNewer(d)'
      BY <2>a, Zenon
    <3>2. ASSUME NEW v \in Workers, v # w, FReads(v)' PROVE NotNewer(fetch[v].job)'
      <4>1. fetch'[v] = fetch[v] /\ FReads(v)
        BY <2>2, <3>2, Zenon
      <4> QED
        BY <3>1, <4>1, CopiesInTable, ReadTypes, Zenon DEF CopyInv
    <3>3. ASSUME NEW v \in Workers, PHolds(v)' PROVE NotNewer(perf[v].job)'
      BY <2>2, <3>1, <3>3, CopiesInTable, ReadTypes, Zenon DEF CopyInv
    <3>4. NotNewer(fetch[w].job)'
      <4>1. fetch[w].job.version \in Nat /\ fetch[w].job.version > 0 /\ fetch[w].job.id \in 1 .. lastID
        BY <2>a, ReadTypes, Zenon DEF NotNewer, Copy
      <4>2. fetch[w].job.version + 1 > 0 /\ fetch[w].job.version + 1 <= fetch[w].job.version + 1
        BY <4>1
      <4> QED
        BY <2>2, <4>1, <4>2, Zenon DEF NotNewer
    <3> QED
      BY <3>2, <3>3, <3>4, Zenon DEF CopyInv
  <2>5. FindInv'
    <3> SUFFICES ASSUME NEW v \in Workers, fetch'[v].pc = "update",
                        jobs'[fetch'[v].job.id].version = fetch'[v].job.version
                 PROVE  jobs'[fetch'[v].job.id].worker = Free
      BY Zenon DEF FindInv
    <3>1. v # w /\ fetch'[v] = fetch[v]
      BY <2>2, Zenon
    <3>2. /\ fetch[v].job.id \in JobID
          /\ fetch[v].job.version <= jobs[fetch[v].job.id].version
      <4>1. fetch[v].job.id \in JobID /\ NotNewer(fetch[v].job)
        BY <3>1, CopiesInTable, Zenon DEF CopyInv
      <4>2. jobs[fetch[v].job.id].version > 0
        <5>1. jobs'[fetch[v].job.id].version > 0
          BY <3>1, <4>1, Zenon DEF NotNewer
        <5> QED
          BY <2>a, <4>1, <5>1, Zenon DEF Exists
      <4> QED
        BY <4>1, <4>2, Zenon DEF NotNewer, Exists
    <3>3. fetch[v].job.id # fetch[w].job.id
      BY <1>1, <2>2, <3>1, <3>2, SMTT(30)
    <3> QED
      BY <2>2, <3>1, <3>2, <3>3, SMTT(30) DEF FindInv
  <2>6. ProcInv'
    BY <2>2, <2>1, <1>1, SMTT(30) DEF ProcInv
  <2>7. DistinctInv'
    <3>1. ASSUME NEW v \in Workers, v # w
          PROVE  /\ (FHolds(v)' /\ fetch'[v].job.id = fetch[w].job.id)
                       => fetch'[v].job.version # fetch[w].job.version + 1
                 /\ (PHolds(v)' /\ perf'[v].job.id = fetch[w].job.id)
                       => perf'[v].job.version # fetch[w].job.version + 1
      <4>1. fetch'[v] = fetch[v] /\ perf'[v] = perf[v]
        BY <2>2, <3>1, Zenon
      <4>2. jobs[fetch[w].job.id].version > 0
        BY <1>1, <2>1, Zenon DEF CopyInv
      <4>3. /\ (FHolds(v) /\ fetch[v].job.id = fetch[w].job.id)
                  => fetch[v].job.version <= fetch[w].job.version
            /\ (PHolds(v) /\ perf[v].job.id = fetch[w].job.id)
                  => perf[v].job.version <= fetch[w].job.version
        BY <1>1, <4>2, Zenon DEF CopyInv
      <4> QED
        BY <4>1, <4>3, SMTT(30)
    <3>2. ~PHolds(w)'
      BY <2>1, <2>2, Zenon DEF ProcInv
    <3> QED
      BY <2>2, <3>1, <3>2, SMTT(30) DEF DistinctInv
  <2>8. DoneInv'
    BY <2>2, <2>a, Zenon DEF DoneInv
  <2>9. LockInv'
    <3> SUFFICES ASSUME NEW j \in JobID, NEW v \in Workers, jobs'[j].worker = v
                 PROVE  \/ FHolds(v)' /\ fetch'[v].job.id = j /\ Current(fetch[v].job)'
                        \/ PHolds(v)' /\ perf'[v].job.id = j /\ Current(perf[v].job)'
                        \/ inst'[Host[v]] = "down"
                        \/ closed'[Host[v]]
      BY Zenon DEF LockInv
    <3>1. CASE j = fetch[w].job.id
      BY <2>2, <3>1, Zenon
    <3>2. CASE j # fetch[w].job.id
      <4>1. jobs[j].worker = v
        BY <2>2, <3>2, Zenon
      <4>2. \/ FHolds(v) /\ fetch[v].job.id = j /\ Current(fetch[v].job)
            \/ PHolds(v) /\ perf[v].job.id = j /\ Current(perf[v].job)
            \/ inst[Host[v]] = "down"
            \/ closed[Host[v]]
        BY <4>1, Zenon DEF LockInv
      <4>3. FHolds(v) => v # w
        BY <2>1, Zenon
      <4>4. FHolds(v) => fetch'[v] = fetch[v]
        BY <2>2, <4>3, Zenon
      <4>5. jobs'[j] = jobs[j] /\ perf' = perf /\ inst' = inst /\ closed' = closed
        BY <2>2, <3>2, Zenon
      <4> QED
        BY <4>2, <4>4, <4>5, Zenon
    <3> QED
      BY <3>1, <3>2, Zenon
  <2> QED
    BY <2>3, <2>4, <2>5, <2>6, <2>7, <2>8, <2>9, Zenon
<1>2. CASE ~Current(fetch[w].job)
  <2>1. /\ fetch'[w].pc = "find"
        /\ \A v \in Workers : v # w => fetch'[v] = fetch[v]
        /\ fetch[w].pc = "update"
        /\ jobs' = jobs /\ lastID' = lastID /\ inst' = inst /\ closed' = closed
        /\ perf' = perf /\ completed' = completed
    BY <1>2, FetchEffect, Zenon DEF updateJob, procVars, history
  <2>2. CopyInv'
    BY <2>1, <1>2, Zenon DEF CopyInv
  <2>3. FindInv'
    BY <2>1, <1>2, ZenonT(30) DEF FindInv, CopyInv
  <2>4. ProcInv'
    BY <2>1, <1>2, Zenon DEF ProcInv
  <2>5. DistinctInv'
    BY <2>1, <1>2, SMTT(30) DEF DistinctInv
  <2>6. LockInv'
    BY <2>1, <1>2, ZenonT(30) DEF LockInv
  <2> QED
    BY <2>1, <2>2, <2>3, <2>4, <2>5, <2>6, Zenon DEF RowsInv, DoneInv
<1> QED
  BY <1>1, <1>2, Zenon

\* A closed queue frees the row, or fails to and drops its copy.
LEMMA ReleaseKeeps ==
    ASSUME IndInv, TypeOK', NEW w \in Workers, release(w)
    PROVE  IndInv'
<1> USE Fields, GobbleAssumption
    DEF IndInv, FHolds, FReads, PHolds, NotNewer, Exists, Current, JobID
<1>1. CASE jobs' # jobs
  <2>1. fetch[w].job.id \in JobID
    BY SMTT(30) DEF release, CopyInv
  <2>2. /\ fetch[w].pc = "release" /\ fetch'[w].pc = "off"
        /\ \A v \in Workers : v # w => fetch'[v] = fetch[v]
        /\ Current(fetch[w].job)
        /\ jobs'[fetch[w].job.id].worker = Free
        /\ jobs'[fetch[w].job.id].version = fetch[w].job.version + 1
        /\ \A j \in JobID : j # fetch[w].job.id => jobs'[j] = jobs[j]
        /\ lastID' = lastID /\ inst' = inst /\ closed' = closed
        /\ perf' = perf /\ completed' = completed
    <3>1. /\ SetFetch(w, "off", NoJob) /\ fetch[w].pc = "release" /\ Current(fetch[w].job)
          /\ jobs' = Write(fetch[w].job, Free, fetch[w].job.retries, "past")
          /\ lastID' = lastID /\ inst' = inst /\ closed' = closed
          /\ perf' = perf /\ completed' = completed
      BY <1>1, Zenon DEF release, procVars, history
    <3>2. fetch'[w].pc = "off" /\ \A v \in Workers : v # w => fetch'[v] = fetch[v]
      BY <3>1, FetchEffect, Zenon
    <3>3. /\ jobs'[fetch[w].job.id].worker = Free
          /\ jobs'[fetch[w].job.id].version = fetch[w].job.version + 1
          /\ \A j \in JobID : j # fetch[w].job.id => jobs'[j] = jobs[j]
      BY <2>1, <3>1, WriteEffect, Zenon
    <3> QED
      BY <3>1, <3>2, <3>3, Zenon
  <2>a. /\ NotNewer(fetch[w].job)
        /\ \A j \in JobID : Exists(j)' <=> Exists(j)
        /\ \A d \in Copy : d.id \in JobID /\ NotNewer(d) => NotNewer(d)'
    <3>1. NotNewer(fetch[w].job) /\ fetch[w].job \in Copy
      BY <2>2, ReadTypes, Zenon DEF CopyInv
    <3> QED
      BY <1>1, <2>1, <2>2, <3>1, RowsAge, Zenon
  <2>3. RowsInv'
    BY <2>2, <2>1, <1>1, Zenon DEF RowsInv, CopyInv
  <2>4. CopyInv'
    <3>1. \A d \in Copy : d.id \in JobID /\ NotNewer(d) => NotNewer(d)'
      BY <2>a, Zenon
    <3>2. ASSUME NEW v \in Workers, FReads(v)' PROVE NotNewer(fetch[v].job)'
      <4>1. fetch'[v] = fetch[v] /\ FReads(v)
        BY <2>2, <3>2, Zenon
      <4> QED
        BY <3>1, <4>1, CopiesInTable, ReadTypes, Zenon DEF CopyInv
    <3>3. ASSUME NEW v \in Workers, PHolds(v)' PROVE NotNewer(perf[v].job)'
      <4>1. perf'[v] = perf[v] /\ PHolds(v)
        BY <2>2, <3>3, Zenon
      <4> QED
        BY <3>1, <4>1, CopiesInTable, ReadTypes, Zenon DEF CopyInv
    <3> QED
      BY <3>2, <3>3, Zenon DEF CopyInv
  <2>5. FindInv'
    <3> SUFFICES ASSUME NEW v \in Workers, fetch'[v].pc = "update",
                        jobs'[fetch'[v].job.id].version = fetch'[v].job.version
                 PROVE  jobs'[fetch'[v].job.id].worker = Free
      BY Zenon DEF FindInv
    <3>1. v # w /\ fetch'[v] = fetch[v] /\ fetch[v].job.id \in JobID
      BY <2>2, CopiesInTable, Zenon
    <3>2. CASE fetch[v].job.id = fetch[w].job.id
      BY <2>2, <3>1, <3>2, Zenon
    <3>3. CASE fetch[v].job.id # fetch[w].job.id
      <4>1. /\ jobs'[fetch[v].job.id] = jobs[fetch[v].job.id] /\ fetch[v].pc = "update"
            /\ jobs[fetch[v].job.id].version = fetch[v].job.version
        BY <2>2, <3>1, <3>3, Zenon
      <4> QED
        BY <3>1, <4>1, Zenon DEF FindInv
    <3> QED
      BY <3>2, <3>3, Zenon
  <2>6. ProcInv'
    BY <2>2, <2>1, <1>1 DEF ProcInv
  <2>7. DistinctInv'
    BY <2>2, <2>1, <1>1, SMTT(30) DEF DistinctInv
  <2>8. DoneInv'
    BY <2>2, <2>a, Zenon DEF DoneInv
  <2>9. LockInv'
    <3> SUFFICES ASSUME NEW j \in JobID, NEW v \in Workers, jobs'[j].worker = v
                 PROVE  \/ FHolds(v)' /\ fetch'[v].job.id = j /\ Current(fetch[v].job)'
                        \/ PHolds(v)' /\ perf'[v].job.id = j /\ Current(perf[v].job)'
                        \/ inst'[Host[v]] = "down"
                        \/ closed'[Host[v]]
      BY Zenon DEF LockInv
    <3>1. j # fetch[w].job.id /\ jobs'[j] = jobs[j]
      BY <2>2, Zenon
    <3>2. \/ FHolds(v) /\ fetch[v].job.id = j /\ Current(fetch[v].job)
          \/ PHolds(v) /\ perf[v].job.id = j /\ Current(perf[v].job)
          \/ inst[Host[v]] = "down"
          \/ closed[Host[v]]
      BY <3>1, Zenon DEF LockInv
    <3>3. FHolds(v) /\ fetch[v].job.id = j => fetch'[v] = fetch[v]
      BY <2>2, <3>1, Zenon
    <3> QED
      BY <2>2, <3>1, <3>2, <3>3, SMTT(30)
  <2> QED
    BY <2>3, <2>4, <2>5, <2>6, <2>7, <2>8, <2>9, Zenon
<1>2. CASE jobs' = jobs
  <2>1. /\ fetch[w].pc = "release" /\ fetch'[w].pc = "off"
        /\ \A v \in Workers : v # w => fetch'[v] = fetch[v]
        /\ jobs' = jobs /\ lastID' = lastID /\ inst' = inst /\ closed' = closed
        /\ perf' = perf /\ completed' = completed
    BY <1>2, FetchEffect, Zenon DEF release, procVars, history
  <2>2. CopyInv'
    BY <2>1, <1>2, Zenon DEF CopyInv
  <2>3. FindInv'
    BY <2>1, <1>2, Zenon DEF FindInv, CopyInv
  <2>4. ProcInv'
    BY <2>1, <1>2, Zenon DEF ProcInv
  <2>5. DistinctInv'
    BY <2>1, <1>2 DEF DistinctInv
  <2>6. LockInv'
    BY <2>1, <1>2 DEF LockInv, ProcInv
  <2> QED
    BY <2>1, <2>2, <2>3, <2>4, <2>5, <2>6, Zenon DEF RowsInv, DoneInv
<1> QED
  BY <1>1, <1>2, Zenon

\* Requeue frees the row at its next version; a stale copy ends the process.
LEMMA RequeueKeeps ==
    ASSUME IndInv, TypeOK', NEW w \in Workers, Requeue(w)
    PROVE  IndInv'
<1> USE Fields, GobbleAssumption
    DEF IndInv, FHolds, FReads, PHolds, NotNewer, Exists, Current, JobID
<1>1. CASE Current(perf[w].job)
  <2>1. perf[w].pc = "requeue" /\ perf[w].job.id \in JobID
    <3>1. perf[w].pc = "requeue"
      BY Zenon DEF Requeue
    <3> QED
      BY <3>1, CopiesInTable, Zenon
  <2>2. /\ perf[w].pc = "requeue" /\ perf'[w].pc = "loop"
        /\ \A v \in Workers : v # w => perf'[v] = perf[v]
        /\ jobs'[perf[w].job.id].worker = Free
        /\ jobs'[perf[w].job.id].version = perf[w].job.version + 1
        /\ \A j \in JobID : j # perf[w].job.id => jobs'[j] = jobs[j]
        /\ lastID' = lastID /\ inst' = inst /\ closed' = closed
        /\ fetch' = fetch /\ completed' = completed
    <3>1. /\ SetPerf(w, "loop", NoJob)
          /\ jobs' = Write(perf[w].job, Free, perf[w].job.retries, "future")
          /\ lastID' = lastID /\ inst' = inst /\ closed' = closed
          /\ fetch' = fetch /\ completed' = completed
      BY <1>1, Zenon DEF Requeue, history
    <3>2. /\ perf'[w].pc = "loop"
          /\ \A v \in Workers : v # w => perf'[v] = perf[v]
      BY <3>1, PerfEffect, Zenon
    <3>3. /\ jobs'[perf[w].job.id].worker = Free
          /\ jobs'[perf[w].job.id].version = perf[w].job.version + 1
          /\ \A j \in JobID : j # perf[w].job.id => jobs'[j] = jobs[j]
      BY <2>1, <3>1, WriteEffect, Zenon
    <3> QED
      BY <2>1, <3>1, <3>2, <3>3, Zenon
  <2>a. /\ NotNewer(perf[w].job)
        /\ \A j \in JobID : Exists(j)' <=> Exists(j)
        /\ \A d \in Copy : d.id \in JobID /\ NotNewer(d) => NotNewer(d)'
    <3>1. NotNewer(perf[w].job) /\ perf[w].job \in Copy
      BY <2>1, ReadTypes, Zenon DEF CopyInv
    <3> QED
      BY <1>1, <2>1, <2>2, <3>1, RowsAge, Zenon
  <2>3. RowsInv'
    BY <2>2, <2>1, <1>1, Zenon DEF RowsInv, CopyInv
  <2>4. CopyInv'
    <3>1. \A d \in Copy : d.id \in JobID /\ NotNewer(d) => NotNewer(d)'
      BY <2>a, Zenon
    <3>2. ASSUME NEW v \in Workers, FReads(v)' PROVE NotNewer(fetch[v].job)'
      <4>1. fetch'[v] = fetch[v] /\ FReads(v)
        BY <2>2, <3>2, Zenon
      <4> QED
        BY <3>1, <4>1, CopiesInTable, ReadTypes, Zenon DEF CopyInv
    <3>3. ASSUME NEW v \in Workers, PHolds(v)' PROVE NotNewer(perf[v].job)'
      <4>1. perf'[v] = perf[v] /\ PHolds(v)
        BY <2>2, <3>3, Zenon
      <4> QED
        BY <3>1, <4>1, CopiesInTable, ReadTypes, Zenon DEF CopyInv
    <3> QED
      BY <3>2, <3>3, Zenon DEF CopyInv
  <2>5. FindInv'
    <3> SUFFICES ASSUME NEW v \in Workers, fetch[v].pc = "update",
                        jobs'[fetch[v].job.id].version = fetch[v].job.version
                 PROVE  jobs'[fetch[v].job.id].worker = Free
      BY <2>2, Zenon DEF FindInv
    <3>1. fetch[v].job.id \in JobID
      BY CopiesInTable, Zenon
    <3>2. CASE fetch[v].job.id = perf[w].job.id
      BY <2>2, <3>2, Zenon
    <3>3. CASE fetch[v].job.id # perf[w].job.id
      BY <2>2, <3>1, <3>3, Zenon DEF FindInv
    <3> QED
      BY <3>2, <3>3, Zenon
  <2>6. ProcInv'
    BY <2>2, <2>1, <1>1 DEF ProcInv
  <2>7. DistinctInv'
    BY <2>2, <2>1, <1>1, SMTT(30) DEF DistinctInv
  <2>8. DoneInv'
    <3>1. \A j \in JobID : jobs[j].version > 0 => jobs'[j].version > 0
      BY <2>2
    <3>2. \A v \in Workers : perf'[v].pc = "dequeue" => perf'[v] = perf[v]
      BY <2>2, Zenon
    <3> QED
      BY <2>2, <3>1, <3>2, Zenon DEF DoneInv
  <2>9. LockInv'
    <3> SUFFICES ASSUME NEW j \in JobID, NEW v \in Workers, jobs'[j].worker = v
                 PROVE  \/ FHolds(v)' /\ fetch'[v].job.id = j /\ Current(fetch[v].job)'
                        \/ PHolds(v)' /\ perf'[v].job.id = j /\ Current(perf[v].job)'
                        \/ inst'[Host[v]] = "down"
                        \/ closed'[Host[v]]
      BY Zenon DEF LockInv
    <3>1. j # perf[w].job.id /\ jobs'[j] = jobs[j]
      BY <2>2, Zenon
    <3>2. \/ FHolds(v) /\ fetch[v].job.id = j /\ Current(fetch[v].job)
          \/ PHolds(v) /\ perf[v].job.id = j /\ Current(perf[v].job)
          \/ inst[Host[v]] = "down"
          \/ closed[Host[v]]
      BY <3>1, Zenon DEF LockInv
    <3>3. PHolds(v) /\ perf[v].job.id = j => perf'[v] = perf[v]
      BY <2>2, <3>1, Zenon
    <3> QED
      BY <2>2, <3>1, <3>2, <3>3, SMTT(30)
  <2> QED
    BY <2>3, <2>4, <2>5, <2>6, <2>7, <2>8, <2>9, Zenon
<1>2. CASE ~Current(perf[w].job)
  <2>1. /\ inst'[Host[w]] = "down"
        /\ \A k \in Instances : k # Host[w] => inst'[k] = inst[k]
        /\ \A v \in Workers :
              IF Host[v] = Host[w] THEN fetch'[v].pc = "off" /\ perf'[v].pc = "off"
                             ELSE fetch'[v] = fetch[v] /\ perf'[v] = perf[v]
        /\ jobs' = jobs /\ lastID' = lastID /\ closed' = closed /\ completed' = completed
    BY <1>2, DieEffect, Zenon DEF Requeue, history
  <2>2. CopyInv'
    BY <2>1, <1>2, SMTT(30) DEF CopyInv
  <2>3. FindInv'
    BY <2>1, <1>2 DEF FindInv, CopyInv
  <2>4. ProcInv'
    BY <2>1, <1>2 DEF ProcInv
  <2>5. DistinctInv'
    BY <2>1, <1>2, SMTT(30) DEF DistinctInv
  <2>6. DoneInv'
    BY <2>1, <1>2, Zenon DEF DoneInv
  <2>7. LockInv'
    BY <2>1, <1>2, SMTT(30) DEF LockInv
  <2> QED
    BY <2>1, <2>2, <2>3, <2>4, <2>5, <2>6, <2>7, Zenon DEF RowsInv
<1> QED
  BY <1>1, <1>2, Zenon

\* Dequeue deletes a finished job; a stale copy ends the process.
LEMMA DequeueKeeps ==
    ASSUME IndInv, TypeOK', NEW w \in Workers, Dequeue(w)
    PROVE  IndInv'
<1> USE Fields, GobbleAssumption
    DEF IndInv, FHolds, FReads, PHolds, NotNewer, Exists, Current, JobID
<1>1. CASE Current(perf[w].job)
  <2>1. perf[w].pc = "dequeue" /\ perf[w].job.id \in JobID
    <3>1. perf[w].pc = "dequeue"
      BY Zenon DEF Dequeue
    <3> QED
      BY <3>1, CopiesInTable, Zenon
  <2>2. /\ perf[w].pc = "dequeue" /\ perf'[w].pc = "loop"
        /\ \A v \in Workers : v # w => perf'[v] = perf[v]
        /\ jobs'[perf[w].job.id].worker = Free
        /\ jobs'[perf[w].job.id].version = 0
        /\ \A j \in JobID : j # perf[w].job.id => jobs'[j] = jobs[j]
        /\ lastID' = lastID /\ inst' = inst /\ closed' = closed
        /\ fetch' = fetch /\ completed' = completed
    BY <1>1, <2>1, PerfEffect DEF Dequeue, NoRow, TypeOK, history
  <2>3. RowsInv'
    <3> SUFFICES ASSUME NEW j \in JobID, j > lastID PROVE jobs'[j].version = 0
      BY <2>2 DEF RowsInv
    <3>1. CASE j = perf[w].job.id
      BY <2>2, <3>1, Zenon
    <3>2. CASE j # perf[w].job.id
      BY <2>2, <3>2 DEF RowsInv
    <3> QED
      BY <3>1, <3>2, Zenon
  <2>4. CopyInv'
    BY <2>2, <2>1, <1>1, SMTT(30) DEF CopyInv
  <2>5. FindInv'
    <3> SUFFICES ASSUME NEW v \in Workers, fetch[v].pc = "update",
                        jobs'[fetch[v].job.id].version = fetch[v].job.version
                 PROVE  jobs'[fetch[v].job.id].worker = Free
      BY <2>2, Zenon DEF FindInv
    <3>1. fetch[v].job.id \in JobID
      BY CopiesInTable, Zenon
    <3>2. CASE fetch[v].job.id = perf[w].job.id
      BY <2>2, <3>2, Zenon
    <3>3. CASE fetch[v].job.id # perf[w].job.id
      BY <2>2, <3>1, <3>3, Zenon DEF FindInv
    <3> QED
      BY <3>2, <3>3, Zenon
  <2>6. ProcInv'
    BY <2>2, <2>1, <1>1 DEF ProcInv
  <2>7. DistinctInv'
    BY <2>2, <2>1, <1>1, SMTT(30) DEF DistinctInv
  <2>8. DoneInv'
    BY <2>2, <2>1, <1>1, Zenon DEF DoneInv
  <2>9. LockInv'
    <3> SUFFICES ASSUME NEW j \in JobID, NEW v \in Workers, jobs'[j].worker = v
                 PROVE  \/ FHolds(v)' /\ fetch'[v].job.id = j /\ Current(fetch[v].job)'
                        \/ PHolds(v)' /\ perf'[v].job.id = j /\ Current(perf[v].job)'
                        \/ inst'[Host[v]] = "down"
                        \/ closed'[Host[v]]
      BY Zenon DEF LockInv
    <3>1. j # perf[w].job.id /\ jobs'[j] = jobs[j]
      BY <2>2, Zenon
    <3>2. \/ FHolds(v) /\ fetch[v].job.id = j /\ Current(fetch[v].job)
          \/ PHolds(v) /\ perf[v].job.id = j /\ Current(perf[v].job)
          \/ inst[Host[v]] = "down"
          \/ closed[Host[v]]
      BY <3>1, Zenon DEF LockInv
    <3>3. PHolds(v) /\ perf[v].job.id = j => perf'[v] = perf[v]
      BY <2>2, <3>1, Zenon
    <3> QED
      BY <2>2, <3>1, <3>2, <3>3, SMTT(30)
  <2> QED
    BY <2>3, <2>4, <2>5, <2>6, <2>7, <2>8, <2>9, Zenon
<1>2. CASE ~Current(perf[w].job)
  <2>1. /\ inst'[Host[w]] = "down"
        /\ \A k \in Instances : k # Host[w] => inst'[k] = inst[k]
        /\ \A v \in Workers :
              IF Host[v] = Host[w] THEN fetch'[v].pc = "off" /\ perf'[v].pc = "off"
                             ELSE fetch'[v] = fetch[v] /\ perf'[v] = perf[v]
        /\ jobs' = jobs /\ lastID' = lastID /\ closed' = closed /\ completed' = completed
    BY <1>2, DieEffect, Zenon DEF Dequeue, history
  <2>2. CopyInv'
    BY <2>1, <1>2, SMTT(30) DEF CopyInv
  <2>3. FindInv'
    BY <2>1, <1>2 DEF FindInv, CopyInv
  <2>4. ProcInv'
    BY <2>1, <1>2 DEF ProcInv
  <2>5. DistinctInv'
    BY <2>1, <1>2 DEF DistinctInv
  <2>6. DoneInv'
    BY <2>1, <1>2, Zenon DEF DoneInv
  <2>7. LockInv'
    BY <2>1, <1>2, SMTT(30) DEF LockInv
  <2> QED
    BY <2>1, <2>2, <2>3, <2>4, <2>5, <2>6, <2>7, Zenon DEF RowsInv
<1> QED
  BY <1>1, <1>2, Zenon

\* Every step keeps IndInv: one lemma per action.
LEMMA IndInvStep ==
    ASSUME IndInv, TypeOK', [Next]_vars
    PROVE  IndInv'
  BY BootKeeps, StartWorkersKeeps, CrashKeeps, CloseKeeps, EnqueueKeeps,
     ElapseKeeps, FindJobKeeps, UpdateJobKeeps, CheckClosedKeeps,
     ReleaseKeeps, PerformKeeps, ReceiveKeeps, CallbackRetriesKeeps,
     CallbackCompletesKeeps, RequeueKeeps, DequeueKeeps, HaltKeeps,
     StutterKeeps, Zenon
     DEF Next, WorkerStep

\* IndInv holds in every state the queue can reach.
THEOREM IndInvCorrect == Spec => []IndInv
<1>1. Init => IndInv
  <2> SUFFICES ASSUME Init PROVE IndInv
    BY Zenon
  <2>1. TypeOK
    BY GobbleAssumption
       DEF Init, TypeOK, JobID, Row, NoRow, Copy, NoJob, Off, FetchPC, PerfPC
  <2>2. RowsInv /\ FindInv /\ CopyInv /\ ProcInv /\ DistinctInv /\ LockInv
    BY GobbleAssumption
       DEF Init, RowsInv, FindInv, CopyInv, ProcInv, DistinctInv, LockInv, Exists, FHolds,
           FReads, PHolds, NoRow, Off
  <2>3. DoneInv
    BY GobbleAssumption DEF Init, DoneInv, JobID, Off
  <2> QED
    BY <2>1, <2>2, <2>3, Zenon DEF IndInv
<1>2. IndInv /\ TypeOK' /\ [Next]_vars => IndInv'
  BY IndInvStep, Zenon
<1> QED
  BY <1>1, <1>2, TypeCorrect, PTL DEF Spec

-----------------------------------------------------------------------------
(* The retries of rows and copies.                                         *)

\* No instance runs that was not booted.
BootedInv == \A i \in Instances : inst[i] # "down" => boots >= 1

\* The retries of a copy are those of its row, as long as it is current; the
\* callback has counted its own before Requeue writes it.
Counted(w) == IF perf[w].pc = "requeue" THEN 1 ELSE 0

RetriesInv ==
    /\ \A j \in JobID : jobs[j].retries <= MaxRetries
    /\ \A w \in Workers :
         /\ FReads(w) =>
              /\ fetch[w].job.retries <= MaxRetries
              /\ Current(fetch[w].job) => fetch[w].job.retries = jobs[fetch[w].job.id].retries
         /\ PHolds(w) =>
              /\ perf[w].job.retries <= MaxRetries
              /\ Current(perf[w].job) =>
                   perf[w].job.retries = jobs[perf[w].job.id].retries + Counted(w)

\* A step that drops copies or keeps them, and leaves rows alone.
LEMMA QuietRetries ==
    ASSUME IndInv, RetriesInv,
           \A j \in JobID : /\ jobs'[j].version = jobs[j].version
                            /\ jobs'[j].retries = jobs[j].retries,
           \A w \in Workers :
             /\ FReads(w)' => FReads(w) /\ fetch'[w].job = fetch[w].job
             /\ PHolds(w)' => PHolds(w) /\ perf'[w].job = perf[w].job
                              /\ (perf'[w].pc = "requeue" <=> perf[w].pc = "requeue")
    PROVE  RetriesInv'
<1>1. \A w \in Workers : /\ FReads(w) => fetch[w].job.id \in JobID
                         /\ PHolds(w) => perf[w].job.id \in JobID
  BY CopiesInTable, Zenon DEF IndInv
<1>2. \A j \in JobID : jobs'[j].retries <= MaxRetries
  BY Zenon DEF RetriesInv
<1>3. ASSUME NEW w \in Workers, FReads(w)'
      PROVE  /\ fetch'[w].job.retries <= MaxRetries
             /\ Current(fetch[w].job)' => fetch'[w].job.retries = jobs'[fetch'[w].job.id].retries
  <2>1. FReads(w) /\ fetch'[w].job = fetch[w].job /\ fetch[w].job.id \in JobID
    BY <1>1, <1>3, Zenon
  <2> QED
    BY <2>1, ZenonT(30) DEF RetriesInv, Current
<1>4. ASSUME NEW w \in Workers, PHolds(w)'
      PROVE  /\ perf'[w].job.retries <= MaxRetries
             /\ Current(perf[w].job)' =>
                  perf'[w].job.retries = jobs'[perf'[w].job.id].retries + Counted(w)'
  <2>1. /\ PHolds(w) /\ perf'[w].job = perf[w].job /\ perf[w].job.id \in JobID
        /\ perf'[w].pc = "requeue" <=> perf[w].pc = "requeue"
    BY <1>1, <1>4, Zenon
  <2>2. Counted(w)' = Counted(w)
    BY <2>1, Zenon DEF Counted
  <2> QED
    BY <2>1, <2>2, ZenonT(30) DEF RetriesInv, Current
<1> QED
  BY <1>2, <1>3, <1>4, Zenon DEF RetriesInv

\* A write of the row a current copy is of: older copies are no longer current.
LEMMA WriteRetries ==
    ASSUME IndInv, RetriesInv, TypeOK',
           NEW c \in Copy, NotNewer(c), Current(c), c.id \in JobID,
           NEW u, NEW at, jobs' = Write(c, u, c.retries, at), c.retries <= MaxRetries,
           \A w \in Workers :
             /\ FReads(w)' => \/ FReads(w) /\ fetch'[w].job = fetch[w].job
                              \/ fetch'[w].job = [c EXCEPT !.version = c.version + 1]
             /\ PHolds(w)' => PHolds(w) /\ perf'[w] = perf[w]
    PROVE  RetriesInv'
<1>0. c.version \in Nat /\ c.version > 0 /\ c.retries \in Nat /\ jobs[c.id].version = c.version
  BY Zenon DEF Copy, NotNewer, Current
<1>1. /\ jobs'[c.id].version = c.version + 1 /\ jobs'[c.id].retries = c.retries
      /\ \A j \in JobID : j # c.id => jobs'[j] = jobs[j]
  <2>1. TypeOK
    BY Zenon DEF IndInv
  <2> QED
    BY <2>1, WriteEffect
<1>2. \A j \in JobID : jobs'[j].retries <= MaxRetries
  BY <1>1, Zenon DEF RetriesInv
<1>3. ASSUME NEW d, NotNewer(d), d.id \in JobID, d.version \in Nat, d.id = c.id
      PROVE  d.version # jobs'[d.id].version
  <2>1. Exists(c.id)
    BY <1>0, Zenon DEF Exists
  <2> QED
    BY <1>0, <1>1, <1>3, <2>1 DEF NotNewer
<1>4. \A w \in Workers : /\ FReads(w) => fetch[w].job.id \in JobID /\ NotNewer(fetch[w].job)
                         /\ PHolds(w) => perf[w].job.id \in JobID /\ NotNewer(perf[w].job)
                         /\ fetch[w].job.version \in Nat /\ perf[w].job.version \in Nat
  BY CopiesInTable, Fields, Zenon DEF IndInv, CopyInv
<1>5. ASSUME NEW w \in Workers, FReads(w)'
      PROVE  /\ fetch'[w].job.retries <= MaxRetries
             /\ Current(fetch[w].job)' => fetch'[w].job.retries = jobs'[fetch'[w].job.id].retries
  <2>1. CASE FReads(w) /\ fetch'[w].job = fetch[w].job
    <3>1. fetch[w].job.id = c.id => ~Current(fetch[w].job)'
      BY <1>3, <1>4, <2>1, Zenon DEF Current
    <3>2. fetch[w].job.id # c.id => jobs'[fetch[w].job.id] = jobs[fetch[w].job.id]
      BY <1>1, <1>4, <2>1, Zenon
    <3> QED
      BY <2>1, <3>1, <3>2, ZenonT(30) DEF RetriesInv, Current
  <2>2. CASE fetch'[w].job = [c EXCEPT !.version = c.version + 1]
    <3>1. fetch'[w].job.id = c.id /\ fetch'[w].job.retries = c.retries
      BY <2>2, Zenon DEF Copy
    <3> QED
      BY <1>1, <3>1, Zenon
  <2> QED
    BY <1>5, <2>1, <2>2, Zenon
<1>6. ASSUME NEW w \in Workers, PHolds(w)'
      PROVE  /\ perf'[w].job.retries <= MaxRetries
             /\ Current(perf[w].job)' =>
                  perf'[w].job.retries = jobs'[perf'[w].job.id].retries + Counted(w)'
  <2>1. PHolds(w) /\ perf'[w] = perf[w]
    BY <1>6, Zenon
  <2>2. perf[w].job.id = c.id => ~Current(perf[w].job)'
    BY <1>3, <1>4, <2>1, Zenon DEF Current
  <2>3. perf[w].job.id # c.id => jobs'[perf[w].job.id] = jobs[perf[w].job.id]
    BY <1>1, <1>4, <2>1, Zenon
  <2>4. Counted(w)' = Counted(w)
    BY <2>1, Zenon DEF Counted
  <2>5. CASE perf[w].job.id = c.id
    BY <2>1, <2>2, <2>5, Zenon DEF RetriesInv
  <2>6. CASE perf[w].job.id # c.id
    <3>1. /\ perf[w].job.retries <= MaxRetries
          /\ Current(perf[w].job) =>
               perf[w].job.retries = jobs[perf[w].job.id].retries + Counted(w)
      BY <2>1, Zenon DEF RetriesInv
    <3>2. Current(perf[w].job)' => Current(perf[w].job)
      BY <2>1, <2>3, <2>6, Zenon DEF Current
    <3> QED
      BY <2>1, <2>3, <2>4, <2>6, <3>1, <3>2, Zenon
  <2> QED
    BY <2>5, <2>6, Zenon
<1> QED
  BY <1>2, <1>5, <1>6, Zenon DEF RetriesInv
LEMMA BootedStep == IndInv /\ BootedInv /\ [Next]_vars => BootedInv'
<1> SUFFICES ASSUME IndInv, BootedInv, [Next]_vars PROVE BootedInv'
  BY Zenon
<1>0. TypeOK /\ boots \in Nat
  BY GobbleAssumption DEF IndInv, TypeOK
<1>1. ASSUME NEW i \in Instances, Boot(i) PROVE BootedInv'
  BY <1>0, <1>1 DEF Boot, BootedInv
<1>2. ASSUME NEW i \in Instances, StartWorkers(i) PROVE BootedInv'
  <2>1. boots' = boots /\ boots >= 1
    BY <1>2, Zenon DEF StartWorkers, BootedInv
  <2> QED
    BY <2>1, Zenon DEF BootedInv
<1>3. ASSUME NEW i \in Instances, Die(i), boots' = boots PROVE BootedInv'
  BY <1>0, <1>3, DieEffect, Zenon DEF BootedInv
<1>4. CASE inst' = inst /\ boots' = boots
  BY <1>4, Zenon DEF BootedInv
<1>5. ASSUME NEW w \in Workers, Requeue(w) \/ Dequeue(w)
      PROVE  boots' = boots /\ (Die(Host[w]) \/ inst' = inst) /\ Host[w] \in Instances
  BY <1>5, GobbleAssumption, Zenon DEF Requeue, Dequeue
<1> QED
  BY <1>1, <1>2, <1>3, <1>4, <1>5, Zenon
     DEF Next, WorkerStep, Crash, Close, Enqueue, Elapse, findJob, updateJob, checkClosed,
         release, Perform, Receive, Halt, CallbackRetries, CallbackCompletes, procVars, vars

LEMMA FindRetries ==
    ASSUME IndInv, RetriesInv, NEW w \in Workers, findJob(w)
    PROVE  RetriesInv'
<1>1. PICK j \in JobID : SetFetch(w, "update", CopyOf(j))
  BY Zenon DEF findJob
<1>2. /\ jobs' = jobs /\ perf' = perf /\ fetch'[w].job = CopyOf(j)
      /\ \A v \in Workers : v # w => fetch'[v] = fetch[v]
  BY <1>1, FetchEffect, Zenon DEF IndInv, findJob, queueVars
<1>3. fetch'[w].job.id = j /\ fetch'[w].job.retries = jobs[j].retries
  BY <1>2 DEF CopyOf
<1>4. \A v \in Workers : /\ v # w => (FReads(v)' <=> FReads(v)) /\ fetch'[v].job = fetch[v].job
                         /\ PHolds(v)' <=> PHolds(v)
                         /\ perf'[v].job = perf[v].job /\ Counted(v)' = Counted(v)
  BY <1>2, Zenon DEF FReads, FHolds, PHolds, Counted
<1>5. \A c : Current(c)' <=> Current(c)
  BY <1>2, Zenon DEF Current
<1>6. /\ fetch'[w].job.retries <= MaxRetries
      /\ fetch'[w].job.retries = jobs'[fetch'[w].job.id].retries
  BY <1>2, <1>3, Zenon DEF RetriesInv
<1>7. ASSUME NEW v \in Workers, FReads(v)'
      PROVE  /\ fetch'[v].job.retries <= MaxRetries
             /\ Current(fetch[v].job)' => fetch'[v].job.retries = jobs'[fetch'[v].job.id].retries
  <2>1. CASE v = w
    BY <1>6, <2>1, Zenon
  <2>2. CASE v # w
    BY <1>2, <1>4, <1>7, <2>2, Zenon DEF RetriesInv, Current
  <2> QED
    BY <2>1, <2>2, Zenon
<1>8. ASSUME NEW v \in Workers, PHolds(v)'
      PROVE  /\ perf'[v].job.retries <= MaxRetries
             /\ Current(perf[v].job)' =>
                  perf'[v].job.retries = jobs'[perf'[v].job.id].retries + Counted(v)'
  BY <1>2, <1>4, <1>8, Zenon DEF RetriesInv, Current
<1> QED
  BY <1>2, <1>7, <1>8, Zenon DEF RetriesInv

LEMMA ReceiveRetries ==
    ASSUME IndInv, RetriesInv, NEW w \in Workers, Receive(w)
    PROVE  RetriesInv'
<1>1. /\ jobs' = jobs /\ fetch[w].pc = "send"
      /\ fetch'[w].pc = "off" /\ \A v \in Workers : v # w => fetch'[v] = fetch[v]
      /\ perf'[w].pc = "callback" /\ perf'[w].job = fetch[w].job
      /\ \A v \in Workers : v # w => perf'[v] = perf[v]
  <2>1. TypeOK
    BY Zenon DEF IndInv
  <2>2. /\ jobs' = jobs /\ fetch[w].pc = "send"
        /\ SetFetch(w, "off", NoJob) /\ SetPerf(w, "callback", fetch[w].job)
    BY Zenon DEF Receive, queueVars
  <2>3. fetch'[w].pc = "off" /\ \A v \in Workers : v # w => fetch'[v] = fetch[v]
    BY <2>1, <2>2, FetchEffect, Zenon
  <2>4. /\ perf'[w].pc = "callback" /\ perf'[w].job = fetch[w].job
        /\ \A v \in Workers : v # w => perf'[v] = perf[v]
    BY <2>1, <2>2, PerfEffect
  <2> QED
    BY <2>2, <2>3, <2>4, Zenon
<1>2. FReads(w) /\ ~FReads(w)' /\ Counted(w)' = 0
  BY <1>1, Zenon DEF FReads, FHolds, Counted
<1>3. \A v \in Workers : v # w => /\ FReads(v)' <=> FReads(v)
                                  /\ PHolds(v)' <=> PHolds(v)
                                  /\ Counted(v)' = Counted(v)
  BY <1>1, Zenon DEF FReads, FHolds, PHolds, Counted
<1>4. ASSUME NEW v \in Workers, FReads(v)'
      PROVE  /\ fetch'[v].job.retries <= MaxRetries
             /\ Current(fetch[v].job)' => fetch'[v].job.retries = jobs'[fetch'[v].job.id].retries
  <2>1. v # w
    BY <1>2, <1>4, Zenon
  <2> QED
    BY <1>1, <1>3, <1>4, <2>1, Zenon DEF RetriesInv, Current
<1>5. ASSUME NEW v \in Workers, PHolds(v)'
      PROVE  /\ perf'[v].job.retries <= MaxRetries
             /\ Current(perf[v].job)' =>
                  perf'[v].job.retries = jobs'[perf'[v].job.id].retries + Counted(v)'
  <2>1. CASE v = w
    <3>1. /\ fetch[w].job.retries <= MaxRetries
          /\ Current(fetch[w].job) => fetch[w].job.retries = jobs[fetch[w].job.id].retries
      BY <1>2, Zenon DEF RetriesInv
    <3>2. Current(perf[w].job)' => Current(fetch[w].job)
      BY <1>1, Zenon DEF Current
    <3>3. jobs[fetch[w].job.id].retries \in Nat
      BY <1>2, CopiesInTable, Fields, Zenon DEF IndInv
    <3>4. jobs[fetch[w].job.id].retries + 0 = jobs[fetch[w].job.id].retries
      BY <3>3
    <3> QED
      BY <1>1, <1>2, <2>1, <3>1, <3>2, <3>4, Zenon
  <2>2. CASE v # w
    BY <1>1, <1>3, <1>5, <2>2, Zenon DEF RetriesInv, Current
  <2> QED
    BY <2>1, <2>2, Zenon
<1> QED
  BY <1>1, <1>4, <1>5, Zenon DEF RetriesInv
LEMMA CallbackRetriesRetries ==
    ASSUME IndInv, RetriesInv, NEW w \in Workers, CallbackRetries(w)
    PROVE  RetriesInv'
<1> DEFINE c == perf[w].job
<1>0. TypeOK /\ c \in Copy
  BY ReadTypes, Zenon DEF IndInv
<1>1. /\ jobs' = jobs /\ fetch' = fetch /\ perf[w].pc = "callback" /\ c.retries < MaxRetries
      /\ SetPerf(w, "requeue", [c EXCEPT !.retries = @ + 1])
  BY Zenon DEF CallbackRetries, queueVars
<1>2. /\ perf'[w].pc = "requeue" /\ perf'[w].job = [c EXCEPT !.retries = @ + 1]
      /\ \A v \in Workers : v # w => perf'[v] = perf[v]
  BY <1>0, <1>1, PerfEffect, Zenon
<1>3. /\ perf'[w].job.id = c.id /\ perf'[w].job.version = c.version
      /\ perf'[w].job.retries = c.retries + 1
  BY <1>0, <1>2, Zenon DEF Copy
<1>4. PHolds(w) /\ Counted(w) = 0 /\ Counted(w)' = 1
  BY <1>1, <1>2, Zenon DEF PHolds, Counted
<1>5. \A v \in Workers : v # w => (PHolds(v)' <=> PHolds(v)) /\ Counted(v)' = Counted(v)
  BY <1>2, Zenon DEF PHolds, Counted
<1>6. ASSUME NEW v \in Workers, FReads(v)'
      PROVE  /\ fetch'[v].job.retries <= MaxRetries
             /\ Current(fetch[v].job)' => fetch'[v].job.retries = jobs'[fetch'[v].job.id].retries
  BY <1>1, <1>6, Zenon DEF RetriesInv, Current, FReads, FHolds
<1>7. ASSUME NEW v \in Workers, PHolds(v)'
      PROVE  /\ perf'[v].job.retries <= MaxRetries
             /\ Current(perf[v].job)' =>
                  perf'[v].job.retries = jobs'[perf'[v].job.id].retries + Counted(v)'
  <2>1. CASE v = w
    <3>1. Current(c) => c.retries = jobs[c.id].retries + 0
      BY <1>4, Zenon DEF RetriesInv
    <3>2. Current(perf[w].job)' => Current(c)
      BY <1>1, <1>3, Zenon DEF Current
    <3>3. jobs[c.id].retries \in Nat /\ c.retries \in Nat /\ MaxRetries \in Nat
      BY <1>0, <1>4, CopiesInTable, Fields, GobbleAssumption, Zenon DEF IndInv
    <3> HIDE DEF c
    <3>4. /\ c.retries + 1 <= MaxRetries
          /\ Current(c) => c.retries + 1 = jobs[c.id].retries + 1
      BY <1>1, <3>1, <3>3
    <3> QED
      BY <1>1, <1>3, <1>4, <2>1, <3>2, <3>4, Zenon
  <2>2. CASE v # w
    BY <1>1, <1>2, <1>5, <1>7, <2>2, Zenon DEF RetriesInv, Current
  <2> QED
    BY <2>1, <2>2, Zenon
<1>8. \A j \in JobID : jobs'[j].retries <= MaxRetries
  BY <1>1, Zenon DEF RetriesInv
<1> QED
  BY <1>6, <1>7, <1>8, Zenon DEF RetriesInv

LEMMA DequeueRetries ==
    ASSUME IndInv, RetriesInv, NEW c, c.id \in JobID, jobs' = [jobs EXCEPT ![c.id] = NoRow],
           \A w \in Workers :
             /\ FReads(w)' => FReads(w) /\ fetch'[w] = fetch[w]
             /\ PHolds(w)' => PHolds(w) /\ perf'[w] = perf[w]
    PROVE  RetriesInv'
<1>1. /\ jobs'[c.id].version = 0 /\ jobs'[c.id].retries = 0
      /\ \A j \in JobID : j # c.id => jobs'[j] = jobs[j]
  BY Zenon DEF IndInv, TypeOK, NoRow
<1>2. \A j \in JobID : jobs'[j].retries <= MaxRetries
  BY <1>1, GobbleAssumption DEF RetriesInv
<1>3. \A w \in Workers : /\ FReads(w) => fetch[w].job.id \in JobID /\ fetch[w].job.version # 0
                         /\ PHolds(w) => perf[w].job.id \in JobID /\ perf[w].job.version # 0
  BY CopiesInTable, Fields, SMTT(60) DEF IndInv, CopyInv, NotNewer
<1>4. ASSUME NEW w \in Workers, FReads(w)'
      PROVE  /\ fetch'[w].job.retries <= MaxRetries
             /\ Current(fetch[w].job)' => fetch'[w].job.retries = jobs'[fetch'[w].job.id].retries
  <2>1. FReads(w) /\ fetch'[w] = fetch[w]
    BY <1>4, Zenon
  <2>2. Current(fetch[w].job)' => fetch[w].job.id # c.id
    <3>1. Current(fetch[w].job)' <=> jobs'[fetch[w].job.id].version = fetch[w].job.version
      BY <2>1, Zenon DEF Current
    <3>2. fetch[w].job.version # 0
      BY <1>3, <2>1, Zenon
    <3> QED
      BY <1>1, <3>1, <3>2, Zenon
  <2> QED
    <3>1. Current(fetch[w].job)' =>
            Current(fetch[w].job) /\ jobs'[fetch[w].job.id] = jobs[fetch[w].job.id]
      BY <1>1, <1>3, <2>1, <2>2, ZenonT(30) DEF Current
    <3>2. /\ fetch[w].job.retries <= MaxRetries
          /\ Current(fetch[w].job) => fetch[w].job.retries = jobs[fetch[w].job.id].retries
      BY <2>1, Zenon DEF RetriesInv
    <3> QED
      BY <2>1, <3>1, <3>2, Zenon
<1>5. ASSUME NEW w \in Workers, PHolds(w)'
      PROVE  /\ perf'[w].job.retries <= MaxRetries
             /\ Current(perf[w].job)' =>
                  perf'[w].job.retries = jobs'[perf'[w].job.id].retries + Counted(w)'
  <2>1. PHolds(w) /\ perf'[w] = perf[w]
    BY <1>5, Zenon
  <2>2. Current(perf[w].job)' => perf[w].job.id # c.id
    <3>1. Current(perf[w].job)' <=> jobs'[perf[w].job.id].version = perf[w].job.version
      BY <2>1, Zenon DEF Current
    <3>2. perf[w].job.version # 0
      BY <1>3, <2>1, Zenon
    <3> QED
      BY <1>1, <3>1, <3>2, Zenon
  <2>3. Counted(w)' = Counted(w)
    BY <2>1, Zenon DEF Counted
  <2>4. Current(perf[w].job)' =>
          Current(perf[w].job) /\ jobs'[perf[w].job.id] = jobs[perf[w].job.id]
    BY <1>1, <1>3, <2>1, <2>2, ZenonT(30) DEF Current
  <2>5. /\ perf[w].job.retries <= MaxRetries
        /\ Current(perf[w].job) =>
             perf[w].job.retries = jobs[perf[w].job.id].retries + Counted(w)
    BY <2>1, Zenon DEF RetriesInv
  <2> QED
    BY <2>1, <2>3, <2>4, <2>5, Zenon
<1> QED
  BY <1>2, <1>4, <1>5, Zenon DEF RetriesInv

LEMMA EnqueueRetries ==
    ASSUME IndInv, RetriesInv, NEW i \in Instances, Enqueue(i)
    PROVE  RetriesInv'
<1>1. /\ jobs'[lastID + 1].retries = 0 /\ lastID + 1 \in JobID
      /\ \A j \in JobID : j # lastID + 1 => jobs'[j] = jobs[j]
      /\ fetch' = fetch /\ perf' = perf
  <2>1. TypeOK /\ lastID < MaxJobs
    BY Zenon DEF IndInv, Enqueue
  <2>2. lastID + 1 \in JobID
    BY <2>1, Fields, GobbleAssumption DEF JobID
  <2>3. jobs \in [JobID -> Row]
    BY <2>1, Zenon DEF TypeOK
  <2>4. /\ jobs' = [jobs EXCEPT ![lastID + 1] =
                     [worker |-> Free, version |-> 1, retries |-> 0, active_at |-> "past"]]
        /\ fetch' = fetch /\ perf' = perf
    BY Zenon DEF Enqueue
  <2> QED
    BY <2>2, <2>3, <2>4, Zenon
<1>2. \A j \in JobID : jobs'[j].retries <= MaxRetries
  BY <1>1, GobbleAssumption, SMTT(30) DEF RetriesInv
<1>3. \A w \in Workers : /\ FReads(w) => jobs'[fetch[w].job.id] = jobs[fetch[w].job.id]
                         /\ PHolds(w) => jobs'[perf[w].job.id] = jobs[perf[w].job.id]
  <2>1. \A w \in Workers : /\ FReads(w) => fetch[w].job.id \in JobID /\ fetch[w].job.id # lastID + 1
                           /\ PHolds(w) => perf[w].job.id \in JobID /\ perf[w].job.id # lastID + 1
    BY CopiesInTable, Fields, SMTT(30) DEF IndInv, CopyInv, NotNewer
  <2> QED
    BY <1>1, <2>1, Zenon
<1>4. \A w \in Workers : /\ FReads(w)' <=> FReads(w)
                         /\ PHolds(w)' <=> PHolds(w)
                         /\ Counted(w)' = Counted(w)
  BY <1>1, Zenon DEF FReads, FHolds, PHolds, Counted
<1> QED
  BY <1>1, <1>2, <1>3, <1>4, Zenon DEF RetriesInv, Current
\* What w had in hand it keeps or lets go.
LEMMA Hand ==
    ASSUME NEW w \in Workers
    PROVE  /\ (fetch'[w].pc \in {"off", "find"} \/ fetch'[w] = fetch[w]) =>
                (FReads(w)' => FReads(w) /\ fetch'[w].job = fetch[w].job)
           /\ (perf'[w].pc \in {"off", "loop", "select", "halted"} \/ perf'[w] = perf[w]) =>
                (PHolds(w)' => PHolds(w) /\ perf'[w].job = perf[w].job
                                /\ (perf'[w].pc = "requeue" <=> perf[w].pc = "requeue"))
  BY Zenon DEF FReads, FHolds, PHolds

LEMMA DieRetries ==
    ASSUME IndInv, RetriesInv, NEW i \in Instances, Die(i), jobs' = jobs
    PROVE  RetriesInv'
<1>1. \A w \in Workers : /\ fetch'[w].pc = "off" \/ fetch'[w] = fetch[w]
                         /\ perf'[w].pc = "off" \/ perf'[w] = perf[w]
  BY DieEffect, Zenon DEF IndInv
<1>2. \A w \in Workers :
        /\ FReads(w)' => FReads(w) /\ fetch'[w].job = fetch[w].job
        /\ PHolds(w)' => PHolds(w) /\ perf'[w].job = perf[w].job
                         /\ (perf'[w].pc = "requeue" <=> perf[w].pc = "requeue")
  BY <1>1, Hand, Zenon
<1> QED
  BY <1>2, QuietRetries, Zenon

\* The steps that let go of copies or do not touch them.
LEMMA ProcessRetries ==
    ASSUME IndInv, RetriesInv,
           NEW i \in Instances, Boot(i) \/ StartWorkers(i) \/ Crash(i) \/ Close(i)
    PROVE  RetriesInv'
<1>0. TypeOK
  BY Zenon DEF IndInv
<1>1. CASE Boot(i)
  <2>1. \A j \in JobID : jobs'[j].version = jobs[j].version /\ jobs'[j].retries = jobs[j].retries
    BY <1>0, <1>1, Zenon DEF Boot, TypeOK, Row
  <2>2. fetch' = fetch /\ perf' = perf
    BY <1>1, Zenon DEF Boot
  <2> QED
    BY <2>1, <2>2, Hand, QuietRetries, Zenon
<1>2. CASE StartWorkers(i)
  <2>1. \A w \in Workers : perf'[w].pc = "loop" \/ perf'[w] = perf[w]
    BY <1>2, Zenon DEF StartWorkers
  <2>2. fetch' = fetch /\ jobs' = jobs
    BY <1>2, Zenon DEF StartWorkers, queueVars
  <2> QED
    BY <2>1, <2>2, Hand, QuietRetries, Zenon
<1>3. CASE Crash(i)
  BY <1>3, DieRetries, Zenon DEF Crash, queueVars
<1>4. CASE Close(i)
  <2>1. fetch' = fetch /\ perf' = perf /\ jobs' = jobs
    BY <1>4, Zenon DEF Close, queueVars
  <2> QED
    BY <2>1, Hand, QuietRetries, Zenon
<1> QED
  BY <1>1, <1>2, <1>3, <1>4, Zenon

LEMMA QuietStepRetries ==
    ASSUME IndInv, RetriesInv, NEW w \in Workers,
           checkClosed(w) \/ Perform(w) \/ CallbackCompletes(w) \/ Halt(w)
    PROVE  RetriesInv'
<1>0. TypeOK
  BY Zenon DEF IndInv
<1>1. CASE checkClosed(w)
  <2>1. /\ fetch'[w].job = fetch[w].job /\ fetch[w].pc = "check"
        /\ \A v \in Workers : v # w => fetch'[v] = fetch[v]
    BY <1>0, <1>1, FetchEffect, Zenon DEF checkClosed
  <2>2. FReads(w)
    BY <2>1, Zenon DEF FReads, FHolds
  <2>3. perf' = perf /\ jobs' = jobs
    BY <1>1, Zenon DEF checkClosed, queueVars
  <2>4. \A v \in Workers : FReads(v)' => FReads(v) /\ fetch'[v].job = fetch[v].job
    BY <2>1, <2>2, Hand, Zenon
  <2> QED
    BY <2>3, <2>4, Hand, QuietRetries, Zenon
<1>2. CASE Perform(w)
  <2>1. SetPerf(w, "select", NoJob) /\ SetFetch(w, "find", NoJob) /\ jobs' = jobs
    BY <1>2, Zenon DEF Perform, queueVars
  <2>2. \A v \in Workers : fetch'[v].pc = "find" \/ fetch'[v] = fetch[v]
    BY <1>0, <2>1, FetchEffect, Zenon
  <2>3. \A v \in Workers : perf'[v].pc = "select" \/ perf'[v] = perf[v]
    BY <1>0, <2>1, PerfEffect, Zenon
  <2> QED
    BY <2>1, <2>2, <2>3, Hand, QuietRetries, Zenon
<1>3. CASE CallbackCompletes(w)
  <2>1. SetPerf(w, "dequeue", perf[w].job) /\ fetch' = fetch /\ jobs' = jobs /\ perf[w].pc = "callback"
    BY <1>3, Zenon DEF CallbackCompletes, queueVars
  <2>2. /\ perf'[w].pc = "dequeue" /\ perf'[w].job = perf[w].job
        /\ \A v \in Workers : v # w => perf'[v] = perf[v]
    BY <1>0, <2>1, PerfEffect, Zenon
  <2>3. PHolds(w) /\ perf'[w].pc # "requeue" /\ perf[w].pc # "requeue"
    BY <2>1, <2>2, Zenon DEF PHolds
  <2>4. \A v \in Workers :
          PHolds(v)' => PHolds(v) /\ perf'[v].job = perf[v].job
                        /\ (perf'[v].pc = "requeue" <=> perf[v].pc = "requeue")
    BY <2>2, <2>3, Hand, Zenon
  <2> QED
    BY <2>1, <2>4, Hand, QuietRetries, Zenon
<1>4. CASE Halt(w)
  <2>1. SetPerf(w, "halted", NoJob) /\ fetch' = fetch /\ jobs' = jobs
    BY <1>4, Zenon DEF Halt, queueVars
  <2>2. \A v \in Workers : perf'[v].pc = "halted" \/ perf'[v] = perf[v]
    BY <1>0, <2>1, PerfEffect, Zenon
  <2> QED
    BY <2>1, <2>2, Hand, QuietRetries, Zenon
<1> QED
  BY <1>1, <1>2, <1>3, <1>4, Zenon
\* The steps that write a row by a copy.
LEMMA UpdateRetries ==
    ASSUME IndInv, RetriesInv, TypeOK', NEW w \in Workers, updateJob(w)
    PROVE  RetriesInv'
<1> DEFINE c == fetch[w].job
<1>0. TypeOK /\ c \in Copy /\ c.id \in JobID /\ NotNewer(c) /\ FReads(w)
  BY ReadTypes, CopiesInTable, Zenon DEF IndInv, CopyInv, FReads, updateJob
<1>1. c.retries <= MaxRetries /\ perf' = perf
  BY <1>0, Zenon DEF RetriesInv, updateJob
<1>2. CASE Current(c) /\ jobs' = Write(c, w, c.retries, "past")
           /\ SetFetch(w, "check", [c EXCEPT !.version = c.version + 1])
  <2>1. /\ fetch'[w].job = [c EXCEPT !.version = c.version + 1]
        /\ \A v \in Workers : v # w => fetch'[v] = fetch[v]
    BY <1>0, <1>2, FetchEffect
  <2>2. \A v \in Workers :
          /\ FReads(v)' => \/ FReads(v) /\ fetch'[v].job = fetch[v].job
                           \/ fetch'[v].job = [c EXCEPT !.version = c.version + 1]
          /\ PHolds(v)' => PHolds(v) /\ perf'[v] = perf[v]
    BY <1>1, <2>1, Hand, Zenon
  <2> HIDE DEF c
  <2> QED
    BY <1>0, <1>1, <1>2, <2>2, WriteRetries, Zenon
<1>3. CASE SetFetch(w, "find", NoJob) /\ jobs' = jobs
  <2>1. \A v \in Workers : fetch'[v].pc = "find" \/ fetch'[v] = fetch[v]
    BY <1>0, <1>3, FetchEffect, Zenon
  <2> QED
    BY <1>1, <1>3, <2>1, Hand, QuietRetries, Zenon
<1> QED
  BY <1>2, <1>3, Zenon DEF updateJob

LEMMA ReleaseRetries ==
    ASSUME IndInv, RetriesInv, TypeOK', NEW w \in Workers, release(w)
    PROVE  RetriesInv'
<1> DEFINE c == fetch[w].job
<1>0. TypeOK /\ FReads(w)
  BY Zenon DEF IndInv, FReads, FHolds, release
<1>1. c \in Copy /\ c.id \in JobID /\ NotNewer(c)
  BY <1>0, ReadTypes, CopiesInTable, Zenon DEF IndInv, CopyInv
<1>2. c.retries <= MaxRetries /\ perf' = perf
  BY <1>0, Zenon DEF RetriesInv, release
<1>3. \A v \in Workers : fetch'[v].pc = "off" \/ fetch'[v] = fetch[v]
  BY <1>0, FetchEffect, Zenon DEF release
<1>4. CASE Current(c) /\ jobs' = Write(c, Free, c.retries, "past")
  <2>1. \A v \in Workers :
          /\ FReads(v)' => \/ FReads(v) /\ fetch'[v].job = fetch[v].job
                           \/ fetch'[v].job = [c EXCEPT !.version = c.version + 1]
          /\ PHolds(v)' => PHolds(v) /\ perf'[v] = perf[v]
    BY <1>2, <1>3, Hand, Zenon
  <2> HIDE DEF c
  <2> QED
    BY <1>1, <1>2, <1>4, <2>1, WriteRetries, Zenon
<1>5. CASE jobs' = jobs
  BY <1>2, <1>3, <1>5, Hand, QuietRetries, Zenon
<1> QED
  BY <1>4, <1>5, Zenon DEF release

LEMMA RequeueRetries ==
    ASSUME IndInv, RetriesInv, TypeOK', NEW w \in Workers, Requeue(w)
    PROVE  RetriesInv'
<1> DEFINE c == perf[w].job
<1>0. TypeOK /\ PHolds(w)
  BY Zenon DEF IndInv, PHolds, Requeue
<1>1. c \in Copy /\ c.id \in JobID /\ NotNewer(c) /\ c.retries <= MaxRetries
  BY <1>0, ReadTypes, CopiesInTable, Zenon DEF IndInv, CopyInv, RetriesInv
<1>2. CASE Current(c) /\ jobs' = Write(c, Free, c.retries, "future")
           /\ SetPerf(w, "loop", NoJob) /\ fetch' = fetch
  <2>1. \A v \in Workers : perf'[v].pc = "loop" \/ perf'[v] = perf[v]
    BY <1>0, <1>2, PerfEffect, Zenon
  <2>2. \A v \in Workers : PHolds(v)' => PHolds(v) /\ perf'[v] = perf[v]
    BY <2>1, Zenon DEF PHolds
  <2>3. \A v \in Workers :
          FReads(v)' => \/ FReads(v) /\ fetch'[v].job = fetch[v].job
                        \/ fetch'[v].job = [c EXCEPT !.version = c.version + 1]
    BY <1>2, Hand, Zenon
  <2> HIDE DEF c
  <2> QED
    BY <1>1, <1>2, <2>2, <2>3, WriteRetries, Zenon
<1>3. CASE Die(Host[w]) /\ jobs' = jobs
  BY <1>3, GobbleAssumption, DieRetries, Zenon
<1> QED
  BY <1>2, <1>3, Zenon DEF Requeue

LEMMA RetriesStep == IndInv /\ RetriesInv /\ TypeOK' /\ [Next]_vars => RetriesInv'
<1> SUFFICES ASSUME IndInv, RetriesInv, TypeOK', [Next]_vars PROVE RetriesInv'
  BY Zenon
<1>0. TypeOK
  BY Zenon DEF IndInv
<1>1. ASSUME NEW j \in JobID, Elapse(j) PROVE RetriesInv'
  <2>1. \A k \in JobID : jobs'[k].version = jobs[k].version /\ jobs'[k].retries = jobs[k].retries
    BY <1>0, <1>1 DEF Elapse, TypeOK, Row
  <2>2. fetch' = fetch /\ perf' = perf
    BY <1>1, Zenon DEF Elapse
  <2> QED
    BY <2>1, <2>2, Hand, QuietRetries, Zenon
<1>2. ASSUME NEW w \in Workers, Dequeue(w) PROVE RetriesInv'
  <2> DEFINE c == perf[w].job
  <2>1. PHolds(w)
    BY <1>2, Zenon DEF Dequeue, PHolds
  <2>2. c.id \in JobID
    BY <2>1, CopiesInTable, Zenon DEF IndInv
  <2>3. CASE jobs' = [jobs EXCEPT ![c.id] = NoRow] /\ SetPerf(w, "loop", NoJob) /\ fetch' = fetch
    <3>1. \A v \in Workers : perf'[v].pc = "loop" \/ perf'[v] = perf[v]
      BY <1>0, <2>3, PerfEffect, Zenon
    <3>2. \A v \in Workers : PHolds(v)' => PHolds(v) /\ perf'[v] = perf[v]
      BY <3>1, Zenon DEF PHolds
    <3>3. \A v \in Workers : FReads(v)' => FReads(v) /\ fetch'[v] = fetch[v]
      BY <2>3, Hand, Zenon
    <3> HIDE DEF c
    <3> QED
      BY <2>2, <2>3, <3>2, <3>3, DequeueRetries, Zenon
  <2>4. CASE Die(Host[w]) /\ jobs' = jobs
    BY <2>4, GobbleAssumption, DieRetries, Zenon
  <2> QED
    BY <1>2, <2>3, <2>4, Zenon DEF Dequeue
<1>3. CASE UNCHANGED vars
  <2>1. fetch' = fetch /\ perf' = perf /\ jobs' = jobs
    BY <1>3, Zenon DEF vars
  <2> QED
    BY <2>1, Hand, QuietRetries, Zenon
<1> QED
  BY <1>1, <1>2, <1>3, ProcessRetries, EnqueueRetries, FindRetries, UpdateRetries, ReleaseRetries,
     QuietStepRetries, ReceiveRetries, CallbackRetriesRetries, RequeueRetries, Zenon
     DEF Next, WorkerStep
=============================================================================
