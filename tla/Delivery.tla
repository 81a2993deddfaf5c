------------------------------ MODULE Delivery ------------------------------
(***************************************************************************)
(* From a notify request to a delivered mail: the transaction of           *)
(* Mailer.Deliver, the callback DeliveryWorker.Deliver of every worker,    *)
(* the message statuses both of them write, and the collection of old      *)
(* statuses (postal/strategies/mailer.go, postal/delivery_worker.go,       *)
(* postal/message_gc.go, models/messages_repo.go).                         *)
(*                                                                         *)
(* The queue is what Gobble makes of it: a job is leased to the worker     *)
(* that last wrote its row, and only that worker can requeue or delete it; *)
(* a booting instance unlocks every job.  Each statement sent to the       *)
(* database or to another service is one action.  The mailer's statements  *)
(* on `messages` are one InnoDB transaction at REPEATABLE READ, MySQL's    *)
(* default; every other statement commits by itself.                       *)
(***************************************************************************)
EXTENDS Integers, FiniteSets

CONSTANTS
    Requests,   \* notify requests
    Messages,   \* message identifiers (version 4 UUIDs)
    MessagesOf, \* MessagesOf[r]: the messages of request r
    Users,
    UserOf,     \* UserOf[m]: the recipient of m
    Address,    \* Address[m]: the e-mail address the request gives, or "none"
    Workers,    \* one worker per instance
    RetryLimit, \* 10 in DeliveryWorker.retry
    MaxBoots,   \* bound: boots of all instances together
    MaxChanges  \* bound: changes of preferences and of the kind

ASSUME DeliveryAssumption ==
    /\ "none" \notin Messages \cup Workers /\ IsFiniteSet(Workers)
    /\ MessagesOf \in [Requests -> SUBSET Messages]
    /\ \A r, s \in Requests : r # s => MessagesOf[r] \cap MessagesOf[s] = {}
    /\ UserOf \in [Messages -> Users]
    /\ Address \in [Messages -> {"none", "valid", "invalid"}]
    /\ RetryLimit \in Nat /\ MaxBoots \in Nat /\ MaxChanges \in Nat

VARIABLES
    req,      \* Requests -> the progress of Mailer.Deliver and its transaction
    msg,      \* the committed `messages` table: Messages -> status | "none"
    stale,    \* messages whose updated_at is older than the lifetime
    job,      \* Messages -> "absent" | "queued" | "gone"
    retries,  \* Messages -> RetryCount of the job's row
    locked,   \* messages whose job has a worker_id
    lease,    \* Messages -> the worker whose copy has the row's version
    work,     \* Workers -> the progress of DeliveryWorker.Deliver
    boots,    \* number of boots so far
    critical, \* `kinds`: is the kind of the messages critical?
    globals,  \* `global_unsubscribes`
    unsubs,   \* `unsubscribes` for the kind
    changes,  \* number of changes so far
    receipts, \* `receipts`: Users -> count
    sent,     \* history: Messages -> mails the SMTP server accepted
    late,     \* history: Messages -> of those, the ones reported as failed
    mailed,   \* history: Users -> mails to the user that were accepted
    excused   \* history: messages whose last status may be unrecorded

table == <<msg, stale>>
queueVars == <<job, retries, locked, lease>>
prefVars == <<critical, globals, unsubs, changes>>
mailVars == <<sent, late, mailed>>
vars == <<req, msg, stale, job, retries, locked, lease, work, boots,
          critical, globals, unsubs, changes, receipts, sent, late, mailed, excused>>

None == "none"
Status == {"queued", "delivered", "failed", "unavailable"}

RequestPC == {"idle", "enqueue", "find", "insert", "update", "accepted", "refused"}
WorkerPC == {"down", "idle", "receipt", "load", "critical", "global", "unsubscribe", "pack",
             "send", "find", "insert", "update", "requeue", "dequeue"}

Open(r) == req[r].pc \in {"enqueue", "find", "insert", "update"}

\* Some transaction holds the row or the key of m.
InTransaction(m) == \E r \in Requests : m \in req[r].wrote

\* A request outside its transaction: `seen` is the transaction's snapshot and
\* `wrote` what it has written and not yet committed.
Closed(pc) == [pc |-> pc, todo |-> {}, cur |-> None, seen |-> {}, wrote |-> {}]

\* A worker without a job.  `count` is the RetryCount of its copy of the job, and
\* `facts` a history variable: what was true of the kind and the recipient at
\* some moment of the attempt.
Idle(pc) == [pc |-> pc, m |-> None, count |-> 0, email |-> None, status |-> None, facts |-> {}]

Move(w, pc) == work' = [work EXCEPT ![w].pc = pc]

-----------------------------------------------------------------------------
(* Mailer.Deliver.                                                         *)

\* The jobs and responses are prepared, and the transaction begins.
Deliver(r) ==
    /\ req[r].pc = "idle"
    /\ req' = [req EXCEPT ![r] = [Closed("enqueue") EXCEPT !.todo = MessagesOf[r]]]
    /\ UNCHANGED <<table, queueVars, work, boots, prefVars, receipts, mailVars, excused>>

\* Enqueue goes to the queue's own connection: the job is there at once.  The
\* loop ranges over a map, in any order.
Enqueue(r) ==
    /\ req[r].pc = "enqueue"
    /\ \E m \in req[r].todo :
         /\ req' = [req EXCEPT ![r].pc = "find", ![r].todo = @ \ {m}, ![r].cur = m]
         /\ job' = [job EXCEPT ![m] = "queued"]
    /\ UNCHANGED <<table, retries, locked, lease, work, boots, prefVars, receipts, mailVars,
                   excused>>

\* FindByID of Upsert.  The transaction's first SELECT takes its snapshot.
FindInTransaction(r) ==
    LET first == req[r].todo \cup {req[r].cur} = MessagesOf[r]
        snapshot == IF first THEN {m \in Messages : msg[m] # None} ELSE req[r].seen
    IN
    /\ req[r].pc = "find"
    /\ req' = [req EXCEPT ![r].pc = IF req[r].cur \in snapshot THEN "update" ELSE "insert",
                          ![r].seen = snapshot]
    /\ UNCHANGED <<table, queueVars, work, boots, prefVars, receipts, mailVars, excused>>

\* Create or Update of Upsert, with status "queued".  An INSERT of a key that
\* was committed meanwhile fails (see Fail); an UPDATE of a row that was
\* deleted meanwhile changes nothing.
WriteInTransaction(r) ==
    LET m == req[r].cur IN
    /\ \/ req[r].pc = "insert" /\ msg[m] = None
       \/ req[r].pc = "update"
    /\ req' = [req EXCEPT ![r].pc = "enqueue",
                          ![r].wrote = IF req[r].pc = "update" /\ msg[m] = None
                                       THEN @ ELSE @ \cup {m}]
    /\ UNCHANGED <<table, queueVars, work, boots, prefVars, receipts, mailVars, excused>>

\* Commit, once every message is done.  The caller gets the identifiers, or
\* none if the reply of the database is lost.
Commit(r) ==
    /\ req[r].pc = "enqueue"
    /\ req[r].todo = {}
    /\ msg' = [m \in Messages |-> IF m \in req[r].wrote THEN "queued" ELSE msg[m]]
    /\ stale' = stale \ req[r].wrote
    /\ \E pc \in {"accepted", "refused"} : req' = [req EXCEPT ![r] = Closed(pc)]
    /\ UNCHANGED <<queueVars, work, boots, prefVars, receipts, mailVars, excused>>

\* A failed Enqueue, Upsert or Commit rolls the transaction back and returns
\* no identifier; so does, for the database, a process that dies.  The jobs
\* enqueued so far stay.
Fail(r) ==
    /\ Open(r)
    /\ req' = [req EXCEPT ![r] = Closed("refused")]
    /\ UNCHANGED <<table, queueVars, work, boots, prefVars, receipts, mailVars, excused>>

-----------------------------------------------------------------------------
(* The queue, as Gobble implements it.                                     *)

\* A worker's instance boots and unlocks all jobs.
Boot(w) ==
    /\ work[w].pc = "down"
    /\ boots < MaxBoots
    /\ boots' = boots + 1
    /\ work' = [work EXCEPT ![w] = Idle("idle")]
    /\ locked' = {}
    /\ UNCHANGED <<req, table, job, retries, lease, prefVars, receipts, mailVars, excused>>

Crash(w) ==
    /\ work[w].pc # "down"
    /\ boots < MaxBoots
    /\ work' = [work EXCEPT ![w] = Idle("down")]
    /\ UNCHANGED <<req, table, queueVars, boots, prefVars, receipts, mailVars, excused>>

Fact == {"critical", "ordinary", "kind unread", "not globally", "not from kind"}

\* What an attempt for user u could be decided on, given a kind and the two
\* sets of unsubscribed users.
FactsOf(u, c, g, s) ==
    {IF c THEN "critical" ELSE "ordinary"}
        \cup (IF u \in g THEN {} ELSE {"not globally"})
        \cup (IF u \in s THEN {} ELSE {"not from kind"})

\* The worker reserves a job and its callback starts.
Reserve(w) ==
    /\ work[w].pc = "idle"
    /\ \E m \in Messages :
         /\ job[m] = "queued"
         /\ m \notin locked
         /\ locked' = locked \cup {m}
         /\ lease' = [lease EXCEPT ![m] = w]
         /\ work' = [work EXCEPT ![w] =
                      [pc |-> "receipt", m |-> m, count |-> retries[m], email |-> Address[m],
                       status |-> None, facts |-> FactsOf(UserOf[m], critical, globals, unsubs)]]
    /\ UNCHANGED <<req, table, job, retries, boots, prefVars, receipts, mailVars, excused>>

\* Requeue and Dequeue panic when another worker has reserved the job since.
HasLease(w) == job[work[w].m] = "queued" /\ lease[work[w].m] = w

Panic(w) ==
    /\ work[w].pc \in {"requeue", "dequeue"}
    /\ ~HasLease(w)
    /\ work' = [work EXCEPT ![w] = Idle("down")]
    /\ UNCHANGED <<req, table, queueVars, boots, prefVars, receipts, mailVars, excused>>

\* Mutant of Requeue: the row keeps its worker_id.
RequeueLocked(w) ==
    LET m == work[w].m IN
    /\ work[w].pc = "requeue"
    /\ HasLease(w)
    /\ retries' = [retries EXCEPT ![m] = work[w].count + 1]
    /\ lease' = [lease EXCEPT ![m] = None]
    /\ work' = [work EXCEPT ![w] = Idle("idle")]
    /\ UNCHANGED <<req, table, job, locked, boots, prefVars, receipts, mailVars, excused>>

\* The copy is written back, with one retry more.
Requeue(w) ==
    LET m == work[w].m IN
    /\ work[w].pc = "requeue"
    /\ HasLease(w)
    /\ retries' = [retries EXCEPT ![m] = work[w].count + 1]
    /\ locked' = locked \ {m}
    /\ lease' = [lease EXCEPT ![m] = None]
    /\ work' = [work EXCEPT ![w] = Idle("idle")]
    /\ UNCHANGED <<req, table, job, boots, prefVars, receipts, mailVars, excused>>

Dequeue(w) ==
    LET m == work[w].m IN
    /\ work[w].pc = "dequeue"
    /\ HasLease(w)
    /\ job' = [job EXCEPT ![m] = "gone"]
    /\ locked' = locked \ {m}
    /\ lease' = [lease EXCEPT ![m] = None]
    /\ work' = [work EXCEPT ![w] = Idle("idle")]
    /\ UNCHANGED <<req, table, retries, boots, prefVars, receipts, mailVars, excused>>
-----------------------------------------------------------------------------
(* DeliveryWorker.Deliver.                                                 *)

\* Mutant of AfterRetry: one retry too many.
AfterRetryOneMore(w) == IF work[w].count <= RetryLimit THEN "requeue" ELSE "dequeue"

\* DeliveryWorker.retry looks at its own copy: Perform requeues the job if it
\* asked for a retry and deletes it otherwise.
AfterRetry(w) == IF work[w].count < RetryLimit THEN "requeue" ELSE "dequeue"

\* A failure before anything is sent: a payload that cannot be read, or an
\* error of the receipts, of the token or of the user's e-mail addresses.
\* No status is recorded.
FailEarly(w) ==
    /\ work[w].pc \in {"receipt", "load"}
    /\ Move(w, AfterRetry(w))
    /\ excused' = IF AfterRetry(w) = "dequeue" THEN excused \cup {work[w].m} ELSE excused
    /\ UNCHANGED <<req, table, queueVars, boots, prefVars, receipts, mailVars>>

\* Mutant of CreateReceipts: a recipient that has a receipt is left alone.
CreateReceiptsOnce(w) ==
    /\ work[w].pc = "receipt"
    /\ receipts' = [receipts EXCEPT ![UserOf[work[w].m]] = 1]
    /\ Move(w, IF work[w].email = None THEN "load" ELSE "critical")
    /\ UNCHANGED <<req, table, queueVars, boots, prefVars, mailVars, excused>>

\* CreateReceipts: INSERT ... ON DUPLICATE KEY UPDATE count = count + 1.
CreateReceipts(w) ==
    /\ work[w].pc = "receipt"
    /\ receipts' = [receipts EXCEPT ![UserOf[work[w].m]] = @ + 1]
    /\ Move(w, IF work[w].email = None THEN "load" ELSE "critical")
    /\ UNCHANGED <<req, table, queueVars, boots, prefVars, mailVars, excused>>

\* The user's first e-mail address, if UAA knows one.
LoadUser(w) ==
    /\ work[w].pc = "load"
    /\ \E e \in {"none", "valid", "invalid"} :
         work' = [work EXCEPT ![w].pc = "critical", ![w].email = e]
    /\ UNCHANGED <<req, table, queueVars, boots, prefVars, receipts, mailVars, excused>>

\* isCritical.  An error other than RecordNotFound leaves the zero value of
\* Kind, which is not critical.
IsCritical(w) ==
    /\ work[w].pc = "critical"
    /\ \/ Move(w, IF critical THEN "pack" ELSE "global")
       \/ work' = [work EXCEPT ![w].pc = "global", ![w].facts = @ \cup {"kind unread"}]
    /\ UNCHANGED <<req, table, queueVars, boots, prefVars, receipts, mailVars, excused>>

\* shouldDeliver returned false: Deliver returns, and the status stays.
Suppress(w) ==
    /\ work' = [work EXCEPT ![w].pc = "dequeue", ![w].status = "suppressed"]
    /\ excused' = excused \cup {work[w].m}

\* globalUnsubscribesRepo.Get; an error suppresses the message as well.
CheckGlobal(w) ==
    /\ work[w].pc = "global"
    /\ \/ /\ UserOf[work[w].m] \notin globals
          /\ Move(w, "unsubscribe")
          /\ UNCHANGED excused
       \/ Suppress(w)
    /\ UNCHANGED <<req, table, queueVars, boots, prefVars, receipts, mailVars>>

\* unsubscribesRepo.Find, and the two checks of the address if there is none.
CheckUnsubscribe(w) ==
    /\ work[w].pc = "unsubscribe"
    /\ \/ /\ UserOf[work[w].m] \notin unsubs
          /\ work[w].email = "valid"
          /\ Move(w, "pack")
          /\ UNCHANGED excused
       \/ Suppress(w)
    /\ UNCHANGED <<req, table, queueVars, boots, prefVars, receipts, mailVars>>

\* pack: the templates are loaded and rendered, or the message has failed.
Pack(w) ==
    /\ work[w].pc = "pack"
    /\ \/ Move(w, "send")
       \/ work' = [work EXCEPT ![w].pc = "find", ![w].status = "failed"]
    /\ UNCHANGED <<req, table, queueVars, boots, prefVars, receipts, mailVars, excused>>

\* Mutant of SendMail: the error of Connect is dropped.
SendMailUnconnected(w) ==
    /\ work[w].pc = "send"
    /\ work' = [work EXCEPT ![w].pc = "find", ![w].status = "delivered"]
    /\ UNCHANGED <<req, table, queueVars, boots, prefVars, receipts, mailVars, excused>>

\* sendMail: no connection, a failure before the server accepted the mail, a
\* failure after it did (the reply to DATA is lost, or QUIT fails), success.
SendMail(w) ==
    LET m == work[w].m
        End(s) == work' = [work EXCEPT ![w].pc = "find", ![w].status = s]
        Accepted == /\ sent' = [sent EXCEPT ![m] = @ + 1]
                    /\ mailed' = [mailed EXCEPT ![UserOf[m]] = @ + 1]
    IN
    /\ work[w].pc = "send"
    /\ \/ /\ End("unavailable") \/ End("failed")
          /\ UNCHANGED mailVars
       \/ /\ End("failed")
          /\ Accepted
          /\ late' = [late EXCEPT ![m] = @ + 1]
       \/ /\ End("delivered")
          /\ Accepted
          /\ UNCHANGED late
    /\ UNCHANGED <<req, table, queueVars, boots, prefVars, receipts, excused>>

\* What Deliver does once updateMessageStatus has returned.
AfterStatus(w) == IF work[w].status = "delivered" THEN "dequeue" ELSE AfterRetry(w)

\* updateMessageStatus, FindByID of Upsert: committed rows only.
FindStatus(w) ==
    /\ work[w].pc = "find"
    /\ Move(w, IF msg[work[w].m] = None THEN "insert" ELSE "update")
    /\ UNCHANGED <<req, table, queueVars, boots, prefVars, receipts, mailVars, excused>>

\* Mutant of WriteStatus: a status that exists is kept.
WriteStatusKept(w) ==
    LET m == work[w].m IN
    /\ work[w].pc \in {"insert", "update"}
    /\ ~InTransaction(m)
    /\ msg' = IF msg[m] = None THEN [msg EXCEPT ![m] = work[w].status] ELSE msg
    /\ Move(w, AfterStatus(w))
    /\ UNCHANGED <<req, stale, queueVars, boots, prefVars, receipts, mailVars, excused>>

\* Create or Update of Upsert.  Either waits for a transaction that wrote the
\* row.  An INSERT of a key that exists by now fails and an UPDATE of a row
\* that is gone by now does nothing.
WriteStatus(w) ==
    LET m == work[w].m
        hit == (work[w].pc = "insert") <=> (msg[m] = None)
    IN
    /\ work[w].pc \in {"insert", "update"}
    /\ ~InTransaction(m)
    /\ msg' = IF hit THEN [msg EXCEPT ![m] = work[w].status] ELSE msg
    /\ stale' = IF hit THEN stale \ {m} ELSE stale
    /\ excused' = IF hit /\ ~\E r \in Requests : Open(r) /\ m \in MessagesOf[r]
                  THEN excused ELSE excused \cup {m}
    /\ Move(w, AfterStatus(w))
    /\ UNCHANGED <<req, queueVars, boots, prefVars, receipts, mailVars>>

\* Mutant of LoseStatus: the error makes the delivery fail.
LoseStatusRetries(w) ==
    /\ work[w].pc \in {"find", "insert", "update"}
    /\ Move(w, AfterRetry(w))
    /\ excused' = excused \cup {work[w].m}
    /\ UNCHANGED <<req, table, queueVars, boots, prefVars, receipts, mailVars>>

\* An error of Upsert, a lock wait that times out included, is only logged.
LoseStatus(w) ==
    /\ work[w].pc \in {"find", "insert", "update"}
    /\ Move(w, AfterStatus(w))
    /\ excused' = excused \cup {work[w].m}
    /\ UNCHANGED <<req, table, queueVars, boots, prefVars, receipts, mailVars>>

-----------------------------------------------------------------------------
(* The rest of the service.                                                *)

\* A row's updated_at falls behind the lifetime of 24 hours.
GrowOld(m) ==
    /\ msg[m] # None
    /\ m \notin stale
    /\ stale' = stale \cup {m}
    /\ UNCHANGED <<req, msg, queueVars, work, boots, prefVars, receipts, mailVars, excused>>

\* MessageGC.Collect: DELETE FROM `messages` WHERE `updated_at` < ?.
Collect ==
    /\ stale # {}
    /\ ~\E m \in stale : InTransaction(m)
    /\ msg' = [m \in Messages |-> IF m \in stale THEN None ELSE msg[m]]
    /\ stale' = {}
    /\ UNCHANGED <<req, queueVars, work, boots, prefVars, receipts, mailVars, excused>>

\* A committed change of the kind or of a user's preferences.
Change ==
    /\ changes < MaxChanges
    /\ changes' = changes + 1
    /\ \/ critical' = ~critical /\ UNCHANGED <<globals, unsubs>>
       \/ \E u \in Users :
            /\ globals' \in {globals \cup {u}, globals \ {u}}
            /\ unsubs' \in {unsubs \cup {u}, unsubs \ {u}}
            /\ UNCHANGED critical
    /\ work' = [w \in Workers |->
                  IF work[w].m = None THEN work[w]
                  ELSE [work[w] EXCEPT !.facts =
                          @ \cup FactsOf(UserOf[work[w].m], critical', globals', unsubs')]]
    /\ UNCHANGED <<req, table, queueVars, boots, receipts, mailVars, excused>>

-----------------------------------------------------------------------------
Init ==
    /\ req = [r \in Requests |-> Closed("idle")]
    /\ msg = [m \in Messages |-> None]
    /\ stale = {}
    /\ job = [m \in Messages |-> "absent"]
    /\ retries = [m \in Messages |-> 0]
    /\ locked = {}
    /\ lease = [m \in Messages |-> None]
    /\ work = [w \in Workers |-> Idle("down")]
    /\ boots = 0
    /\ critical = FALSE
    /\ globals = {}
    /\ unsubs = {}
    /\ changes = 0
    /\ receipts = [u \in Users |-> 0]
    /\ sent = [m \in Messages |-> 0]
    /\ late = [m \in Messages |-> 0]
    /\ mailed = [u \in Users |-> 0]
    /\ excused = {}

RequestStep(r) ==
    Enqueue(r) \/ FindInTransaction(r) \/ WriteInTransaction(r) \/ Commit(r) \/ Fail(r)

WorkerStep(w) ==
    \/ Reserve(w) \/ Panic(w) \/ Requeue(w) \/ Dequeue(w)
    \/ FailEarly(w) \/ CreateReceipts(w) \/ LoadUser(w)
    \/ IsCritical(w) \/ CheckGlobal(w) \/ CheckUnsubscribe(w)
    \/ Pack(w) \/ SendMail(w) \/ FindStatus(w) \/ WriteStatus(w) \/ LoseStatus(w)

Next ==
    \/ \E r \in Requests : Deliver(r) \/ RequestStep(r)
    \/ \E w \in Workers : Boot(w) \/ Crash(w) \/ WorkerStep(w)
    \/ \E m \in Messages : GrowOld(m)
    \/ Collect
    \/ Change

Spec == Init /\ [][Next]_vars
\* Goroutines are scheduled, statements and calls return, and the platform
\* restarts an instance that went down.  Requests, crashes, changes of the
\* preferences and the garbage collector are never owed.
Fairness ==
    /\ \A r \in Requests : WF_vars(RequestStep(r))
    /\ \A w \in Workers : WF_vars(WorkerStep(w)) /\ WF_vars(Boot(w))

FairSpec == Spec /\ Fairness

-----------------------------------------------------------------------------
(* Properties.                                                             *)

\* Every variable has the type its declaration gives it.
TypeOK ==
    /\ req \in [Requests -> [pc: RequestPC, todo: SUBSET Messages, cur: Messages \cup {None},
                             seen: SUBSET Messages, wrote: SUBSET Messages]]
    /\ msg \in [Messages -> Status \cup {None}]
    /\ stale \in SUBSET Messages
    /\ job \in [Messages -> {"absent", "queued", "gone"}]
    /\ retries \in [Messages -> 0 .. RetryLimit]
    /\ locked \in SUBSET Messages
    /\ lease \in [Messages -> Workers \cup {None}]
    /\ work \in [Workers -> [pc: WorkerPC, m: Messages \cup {None}, count: 0 .. RetryLimit,
                             email: {"none", "valid", "invalid"},
                             status: Status \cup {None, "suppressed"},
                             facts: SUBSET Fact]]
    /\ boots \in 0 .. MaxBoots /\ changes \in 0 .. MaxChanges
    /\ critical \in BOOLEAN /\ globals \in SUBSET Users /\ unsubs \in SUBSET Users
    /\ receipts \in [Users -> Nat] /\ sent \in [Messages -> Nat] /\ late \in [Messages -> Nat]
    /\ mailed \in [Users -> Nat] /\ excused \in SUBSET Messages

\* Status "delivered" is only ever shown for a mail the SMTP server accepted,
\* whichever of the mailer, the workers and the collector wrote the row last.
DeliveredWasSent ==
    \A m \in Messages : msg[m] = "delivered" => sent[m] > 0

\* The receipt comes before the mail: a user has at least as many receipts as
\* mails, so that the preferences list every kind the user was sent.
ReceiptForEveryMail == \A u \in Users : mailed[u] <= receipts[u]

\* A mail is accepted a second time only if an attempt was reported as failed
\* after the server had accepted it, or because a boot handed the job out
\* again; a lost status update, for one, never repeats a delivery.
DuplicatesAccounted ==
    \A m \in Messages : sent[m] <= boots + late[m]

\* A message that still says "queued" when its job is gone was suppressed, was
\* given up before anything was sent, lost its status update to an error, or
\* had it overtaken by the mailer's own transaction; there is no other way.
QueuedExplained ==
    \A m \in Messages : (msg[m] = "queued" /\ job[m] = "gone") => m \in excused

\* An attempt gets as far as packing the mail only if the kind was critical at
\* some moment of it, or the user was, at some moments of it, not globally
\* unsubscribed and not unsubscribed from the kind (shouldDeliver).
UnsubscribeHonoured ==
    \A w \in Workers : work[w].pc \in {"pack", "send"} =>
        \/ "critical" \in work[w].facts
        \/ {"not globally", "not from kind"} \subseteq work[w].facts

\* A message whose kind was critical throughout the attempt is suppressed only
\* if the kind could not be read.
CriticalNotSuppressed ==
    \A w \in Workers : work[w].status = "suppressed" =>
        "ordinary" \in work[w].facts \/ "kind unread" \in work[w].facts

\* What API.md:540 says of "queued": "Message has been added to a worker queue
\* and will be processed shortly".
QueuedHasJob ==
    \A m \in Messages : msg[m] = "queued" => job[m] = "queued"

\* Every enqueued job ends: delivered, suppressed or given up.
Processed ==
    \A m \in Messages : job[m] = "queued" ~> job[m] = "gone"
=============================================================================
