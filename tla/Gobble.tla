------------------------------- MODULE Gobble -------------------------------
(***************************************************************************)
(* gobble: the job queue in the `jobs` table, the goroutine that reserves  *)
(* a job for a worker, the worker loop around it, and the processes the    *)
(* workers live in (gobble/queue.go, gobble/worker.go, gobble/job.go and   *)
(* the boot sequence of application/application.go).                       *)
(*                                                                         *)
(* Several application instances share one table.  Every statement of the  *)
(* queue is its own transaction, so each one is an action, and everything  *)
(* another worker or instance can do may happen between two of them.       *)
(* gorp's optimistic lock is modelled by what the queue sees of it: an     *)
(* UPDATE or DELETE takes effect only if the version of the copy is the    *)
(* version of the row, and reports an OptimisticLockError otherwise.       *)
(***************************************************************************)
EXTENDS Integers, FiniteSets

CONSTANTS
    Instances,  \* application instances that share the database
    Workers,    \* worker slots of all instances (WorkerCount of each)
    Host,       \* Host[w]: the instance that runs worker w
    Free,       \* worker_id = "": the row is not reserved
    MaxJobs,    \* bound: jobs ever enqueued
    MaxRetries, \* the callback asks for a retry at most this often
    MaxBoots,   \* bound: boots of all instances together
    Haltable,   \* workers some caller may Halt
    Closable    \* instances whose queue some caller may Close

ASSUME GobbleAssumption ==
    /\ Host \in [Workers -> Instances]
    /\ Free \notin Workers
    /\ MaxJobs \in Nat /\ MaxRetries \in Nat /\ MaxBoots \in Nat
    /\ Haltable \subseteq Workers /\ Closable \subseteq Instances

\* The instances and their WorkerCount are finite in number.
ASSUME WorkersFinite == IsFiniteSet(Workers)

VARIABLES
    jobs,      \* the table: JobID -> row
    lastID,    \* AUTO_INCREMENT counter of the table
    inst,      \* Instances -> "down" | "booting" | "up"
    closed,    \* Instances -> Queue.closed
    fetch,     \* Workers -> the goroutine started by Queue.Reserve
    perf,      \* Workers -> the goroutine in Worker.Perform
    boots,     \* number of boots so far, hence of Unlock statements
    attempts,  \* history: JobID -> callbacks started
    completed, \* history: jobs with a callback that ended without a retry
    latest     \* history: the instance that booted last, as a set; {} at first

queueVars == <<jobs, lastID>>
procVars == <<inst, closed, boots>>
history == <<attempts, completed, latest>>
vars == <<jobs, lastID, inst, closed, fetch, perf, boots, attempts, completed, latest>>

JobID == 1 .. MaxJobs

\* A row.  active_at is abstracted to its order with the present time.  gorp
\* inserts version 1 and only ever increments it: version 0 marks no row.
Row == [worker: Workers \cup {Free}, version: Nat, retries: Nat,
        active_at: {"past", "future"}]

NoRow == [worker |-> Free, version |-> 0, retries |-> 0, active_at |-> "past"]

\* The in-memory copy of a job; ID 0 and version 0 are the zero value Job{}.
Copy == [id: 0 .. MaxJobs, version: Nat, retries: Nat]

NoJob == [id |-> 0, version |-> 0, retries |-> 0]

FetchPC == {"off", "find", "update", "check", "release", "send"}
PerfPC == {"off", "loop", "select", "callback", "requeue", "dequeue", "halted"}

Exists(j) == jobs[j].version > 0

CopyOf(j) == [id |-> j, version |-> jobs[j].version, retries |-> jobs[j].retries]

\* Mutant of Current: the WHERE clause without the version.
CurrentByID(c) == Exists(c.id)

\* The WHERE clause gorp adds to UPDATE and DELETE: id = ? AND version = ?.
Current(c) == jobs[c.id].version = c.version

\* Update(&job): the whole row is written and its version incremented.
Write(c, w, n, at) ==
    [jobs EXCEPT ![c.id] =
        [worker |-> w, version |-> c.version + 1, retries |-> n, active_at |-> at]]

SetFetch(w, p, c) == fetch' = [fetch EXCEPT ![w] = [pc |-> p, job |-> c]]
SetPerf(w, p, c) == perf' = [perf EXCEPT ![w] = [pc |-> p, job |-> c]]

Off == [pc |-> "off", job |-> NoJob]

\* The process is gone: with it every goroutine and every in-memory copy.
Die(i) ==
    /\ inst' = [inst EXCEPT ![i] = "down"]
    /\ fetch' = [w \in Workers |-> IF Host[w] = i THEN Off ELSE fetch[w]]
    /\ perf' = [w \in Workers |-> IF Host[w] = i THEN Off ELSE perf[w]]

-----------------------------------------------------------------------------
(* Processes.                                                              *)

\* Application.Boot up to UnlockJobs.  Unlock clears worker_id in every
\* locked row, whichever instance locked it, and leaves the version alone.
Boot(i) ==
    /\ inst[i] = "down"
    /\ boots < MaxBoots
    /\ inst' = [inst EXCEPT ![i] = "booting"]
    /\ closed' = [closed EXCEPT ![i] = FALSE]
    /\ boots' = boots + 1
    /\ jobs' = [j \in JobID |-> [jobs[j] EXCEPT !.worker = Free]]
    /\ latest' = {i}
    /\ UNCHANGED <<lastID, fetch, perf, attempts, completed>>

\* StartWorkers: each worker's goroutine enters its loop.
StartWorkers(i) ==
    /\ inst[i] = "booting"
    /\ inst' = [inst EXCEPT ![i] = "up"]
    /\ perf' = [w \in Workers |->
                  IF Host[w] = i THEN [pc |-> "loop", job |-> NoJob] ELSE perf[w]]
    /\ UNCHANGED <<queueVars, closed, fetch, boots, history>>

\* The process stops at any point: killed, or by the panic that every
\* database error other than a lock error raises in queue.go.
Crash(i) ==
    /\ inst[i] # "down"
    /\ boots < MaxBoots
    /\ Die(i)
    /\ UNCHANGED <<queueVars, closed, boots, history>>

\* Queue.Close.
Close(i) ==
    /\ i \in Closable
    /\ inst[i] = "up"
    /\ ~closed[i]
    /\ closed' = [closed EXCEPT ![i] = TRUE]
    /\ UNCHANGED <<queueVars, inst, fetch, perf, boots, history>>

-----------------------------------------------------------------------------
(* Queue operations.                                                       *)

\* Queue.Enqueue, by a running instance.
Enqueue(i) ==
    /\ inst[i] = "up"
    /\ lastID < MaxJobs
    /\ lastID' = lastID + 1
    /\ jobs' = [jobs EXCEPT ![lastID + 1] =
                  [worker |-> Free, version |-> 1, retries |-> 0, active_at |-> "past"]]
    /\ UNCHANGED <<procVars, fetch, perf, history>>

\* active_at of a requeued job passes.
Elapse(j) ==
    /\ Exists(j)
    /\ jobs[j].active_at = "future"
    /\ jobs' = [jobs EXCEPT ![j].active_at = "past"]
    /\ UNCHANGED <<lastID, procVars, fetch, perf, history>>

\* Queue.findJob: some unreserved active row; while there is none it polls.
findJob(w) ==
    /\ fetch[w].pc = "find"
    /\ \E j \in JobID :
         /\ Exists(j)
         /\ jobs[j].worker = Free
         /\ jobs[j].active_at = "past"
         /\ SetFetch(w, "update", CopyOf(j))
    /\ UNCHANGED <<queueVars, procVars, perf, history>>

\* Mutant of updateJob: the row is written whatever its version.
updateJobUnchecked(w) ==
    LET c == fetch[w].job IN
    /\ fetch[w].pc = "update"
    /\ jobs' = Write(c, w, c.retries, "past")
    /\ SetFetch(w, "check", [c EXCEPT !.version = c.version + 1])
    /\ UNCHANGED <<lastID, procVars, perf, history>>

\* updateJob(job, workerID) in Queue.reserve; a lock error starts over.
updateJob(w) ==
    LET c == fetch[w].job IN
    /\ fetch[w].pc = "update"
    /\ \/ /\ Current(c)
          /\ jobs' = Write(c, w, c.retries, "past")
          /\ SetFetch(w, "check", [c EXCEPT !.version = c.version + 1])
       \/ /\ ~Current(c)
          /\ SetFetch(w, "find", NoJob)
          /\ UNCHANGED jobs
    /\ UNCHANGED <<lastID, procVars, perf, history>>

\* `if queue.closed`, read once the job is reserved.
checkClosed(w) ==
    /\ fetch[w].pc = "check"
    /\ SetFetch(w, IF closed[Host[w]] THEN "release" ELSE "send", fetch[w].job)
    /\ UNCHANGED <<queueVars, procVars, perf, history>>

\* updateJob(job, "") of a closed queue.  Its error is dropped, so a failed
\* statement leaves the row as it is.  Nothing is ever sent on the channel.
release(w) ==
    LET c == fetch[w].job IN
    /\ fetch[w].pc = "release"
    /\ \/ /\ Current(c)
          /\ jobs' = Write(c, Free, c.retries, "past")
       \/ UNCHANGED jobs
    /\ SetFetch(w, "off", NoJob)
    /\ UNCHANGED <<lastID, procVars, perf, history>>

-----------------------------------------------------------------------------
(* Worker.                                                                 *)

\* The loop of Work calls Perform, whose select calls Reserve.
Perform(w) ==
    /\ perf[w].pc = "loop"
    /\ SetPerf(w, "select", NoJob)
    /\ SetFetch(w, "find", NoJob)
    /\ UNCHANGED <<queueVars, procVars, history>>

\* The rendezvous on the unbuffered channel; the callback starts.
Receive(w) ==
    LET c == fetch[w].job IN
    /\ perf[w].pc = "select"
    /\ fetch[w].pc = "send"
    /\ SetPerf(w, "callback", c)
    /\ SetFetch(w, "off", NoJob)
    /\ attempts' = [attempts EXCEPT ![c.id] = @ + 1]
    /\ UNCHANGED <<queueVars, procVars, completed, latest>>

\* The rendezvous on the halt channel.  The reserving goroutine stays behind.
Halt(w) ==
    /\ w \in Haltable
    /\ perf[w].pc = "select"
    /\ SetPerf(w, "halted", NoJob)
    /\ UNCHANGED <<queueVars, procVars, fetch, history>>

\* Mutant of CallbackRetries: RetryCount is not incremented.
CallbackRetriesUncounted(w) ==
    /\ perf[w].pc = "callback"
    /\ perf[w].job.retries < MaxRetries
    /\ SetPerf(w, "requeue", perf[w].job)
    /\ UNCHANGED <<queueVars, procVars, fetch, history>>

\* Mutant of CallbackRetries: ShouldRetry is ignored.
CallbackRetriesIgnored(w) ==
    /\ perf[w].pc = "callback"
    /\ perf[w].job.retries < MaxRetries
    /\ SetPerf(w, "dequeue", perf[w].job)
    /\ UNCHANGED <<queueVars, procVars, fetch, history>>

\* The callback returns, having called job.Retry ...
CallbackRetries(w) ==
    /\ perf[w].pc = "callback"
    /\ perf[w].job.retries < MaxRetries
    /\ SetPerf(w, "requeue", [perf[w].job EXCEPT !.retries = @ + 1])
    /\ UNCHANGED <<queueVars, procVars, fetch, history>>

\* ... or not.
CallbackCompletes(w) ==
    /\ perf[w].pc = "callback"
    /\ SetPerf(w, "dequeue", perf[w].job)
    /\ completed' = completed \cup {perf[w].job.id}
    /\ UNCHANGED <<queueVars, procVars, fetch, attempts, latest>>

\* Mutant of Requeue: the row keeps its worker_id.
RequeueLocked(w) ==
    LET c == perf[w].job IN
    /\ perf[w].pc = "requeue"
    /\ Current(c)
    /\ jobs' = Write(c, w, c.retries, "future")
    /\ SetPerf(w, "loop", NoJob)
    /\ UNCHANGED <<inst, fetch, lastID, closed, boots, history>>

\* Queue.Requeue panics on a lock error, and the panic ends the process.
Requeue(w) ==
    LET c == perf[w].job IN
    /\ perf[w].pc = "requeue"
    /\ \/ /\ Current(c)
          /\ jobs' = Write(c, Free, c.retries, "future")
          /\ SetPerf(w, "loop", NoJob)
          /\ UNCHANGED <<inst, fetch>>
       \/ /\ ~Current(c)
          /\ Die(Host[w])
          /\ UNCHANGED jobs
    /\ UNCHANGED <<lastID, closed, boots, history>>

\* Queue.Dequeue, likewise.
Dequeue(w) ==
    LET c == perf[w].job IN
    /\ perf[w].pc = "dequeue"
    /\ \/ /\ Current(c)
          /\ jobs' = [jobs EXCEPT ![c.id] = NoRow]
          /\ SetPerf(w, "loop", NoJob)
          /\ UNCHANGED <<inst, fetch>>
       \/ /\ ~Current(c)
          /\ Die(Host[w])
          /\ UNCHANGED jobs
    /\ UNCHANGED <<lastID, closed, boots, history>>

-----------------------------------------------------------------------------
Init ==
    /\ jobs = [j \in JobID |-> NoRow]
    /\ lastID = 0
    /\ inst = [i \in Instances |-> "down"]
    /\ closed = [i \in Instances |-> FALSE]
    /\ fetch = [w \in Workers |-> Off]
    /\ perf = [w \in Workers |-> Off]
    /\ boots = 0
    /\ attempts = [j \in JobID |-> 0]
    /\ completed = {}
    /\ latest = {}

\* What the goroutines of worker w do without being asked.
WorkerStep(w) ==
    \/ findJob(w) \/ updateJob(w) \/ checkClosed(w) \/ release(w)
    \/ Perform(w) \/ Receive(w)
    \/ CallbackRetries(w) \/ CallbackCompletes(w)
    \/ Requeue(w) \/ Dequeue(w)

Next ==
    \/ \E i \in Instances :
         Boot(i) \/ StartWorkers(i) \/ Crash(i) \/ Close(i) \/ Enqueue(i)
    \/ \E j \in JobID : Elapse(j)
    \/ \E w \in Workers : WorkerStep(w) \/ Halt(w)

Spec == Init /\ [][Next]_vars

\* Goroutines are scheduled, callbacks return (every wait in a delivery is a
\* network call that ends in a result or an error), clocks advance, and the
\* platform restarts an instance that went down.  Enqueueing, crashing,
\* halting and closing are never owed.
Fairness ==
    /\ \A w \in Workers : WF_vars(WorkerStep(w))
    /\ \A i \in Instances : WF_vars(Boot(i)) /\ WF_vars(StartWorkers(i))
    /\ \A j \in JobID : WF_vars(Elapse(j))

FairSpec == Spec /\ Fairness
-----------------------------------------------------------------------------
(* Properties.                                                             *)

\* The reserved copies worker w has in memory: those of its reserving
\* goroutine once updateJob succeeded, and the one its callback works on.
Reserved(w) ==
    {c \in {fetch[w].job} : fetch[w].pc \in {"check", "release", "send"}}
        \cup
    {c \in {perf[w].job} : perf[w].pc \in {"callback", "requeue", "dequeue"}}

\* Every variable has the type its declaration gives it.
TypeOK ==
    /\ jobs \in [JobID -> Row]
    /\ lastID \in 0 .. MaxJobs
    /\ inst \in [Instances -> {"down", "booting", "up"}]
    /\ closed \in [Instances -> BOOLEAN]
    /\ fetch \in [Workers -> [pc: FetchPC, job: Copy]]
    /\ perf \in [Workers -> [pc: PerfPC, job: Copy]]
    /\ boots \in 0 .. MaxBoots
    /\ attempts \in [JobID -> Nat]
    /\ completed \subseteq 0 .. MaxJobs
    /\ latest \subseteq Instances

\* Whatever Unlock does to live reservations, at most one worker can still
\* change a row: no two workers hold a job at the version of its row
\* (Queue.updateJob against gorp's version check).
OneCurrentHolder ==
    \A v, w \in Workers : \A c \in Reserved(v), d \in Reserved(w) :
        (v # w /\ c.id = d.id /\ Current(c)) => ~Current(d)

\* A row that is reserved by a worker still holding it is changed by that
\* worker, or freed by the Unlock of a boot, and by nobody else: no stale
\* copy is ever written over it or deletes it.
ReservationRespected ==
    [][\A w \in Workers, j \in JobID :
         (/\ jobs[j].worker = w
          /\ \E c \in Reserved(w) : c.id = j /\ Current(c)
          /\ jobs'[j] # jobs[j])
         => boots' # boots \/ fetch'[w] # fetch[w] \/ perf'[w] # perf[w]]_vars

\* A job is attempted once, once more for each retry recorded in its row, and
\* once more for each boot after the first (Unlock hands out a job its holder
\* may still be working on); nothing else repeats a callback.
AttemptsAccounted ==
    \A j \in JobID :
        attempts[j] <= boots + IF Exists(j) THEN jobs[j].retries ELSE MaxRetries

\* A locked row is never orphaned by a running process: its holder has it in
\* memory at the version of the row, or its process is down (so that its next
\* boot unlocks the row), or the holder's queue was closed and the release
\* failed.
LockedRowHasHolder ==
    \A j \in JobID : jobs[j].worker # Free =>
        LET w == jobs[j].worker IN
        \/ \E c \in Reserved(w) : c.id = j /\ Current(c)
        \/ inst[Host[w]] = "down"
        \/ closed[Host[w]]

\* The instance that booted last holds no stale copy, whatever older instances
\* still hold and write: the panics of Requeue and Dequeue end older processes
\* only, so a boot of one of them is what it takes for the next overlap, and a
\* deployment of one instance never panics on a lock error.
HolderIsCurrent ==
    \A w \in Workers : Host[w] \in latest => \A c \in Reserved(w) : Current(c)

\* What gobble/queue_test.go:142 says: "ensures a job can only be reserved by
\* a single worker".
SingleReservation ==
    \A v, w \in Workers : \A c \in Reserved(v), d \in Reserved(w) :
        v # w => c.id # d.id

\* No worker is left: each is halted, closed, or down with no boot to come.
NobodyWorks ==
    /\ boots = MaxBoots
    /\ \A w \in Workers : inst[Host[w]] = "down" \/ perf[w].pc = "halted" \/ closed[Host[w]]

\* Every job is eventually done with and removed from the table, across
\* crashes at any point, lock-error panics and the reboots after them, as long
\* as some worker works.  Halting a worker or closing a queue strands at most
\* the job that worker has locked then, for good: the one its reserving
\* goroutine cannot hand over (Worker.Halt), or the one whose release failed
\* (Queue.Close).
Drains ==
    \A j \in JobID : (j <= lastID) ~>
        [](\/ ~Exists(j)
           \/ \E w \in Workers :
                jobs[j].worker = w /\ (perf[w].pc = "halted" \/ closed[Host[w]])
           \/ NobodyWorks)

-----------------------------------------------------------------------------
(* What gobble promises: at-least-once execution.  See JobQueue.           *)

JobState ==
    [j \in JobID |-> IF j > lastID THEN "absent"
                     ELSE IF Exists(j) THEN "queued" ELSE "gone"]

Abstract == INSTANCE JobQueue WITH state <- JobState, finished <- completed

\* Every step of the queue, of its workers and of their crashes is a step of
\* the abstract queue: a job is handed in once, stays until a callback has
\* finished it, and never comes back.
ImplementsJobQueue == Abstract!Spec
=============================================================================
