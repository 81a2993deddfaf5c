--------------------------- MODULE DeliveryProofs ---------------------------
(* What Delivery guarantees for any number of requests, messages, workers,
   retries, boots and changes: what a status means, how often a mail can go
   out, whose preferences decide, how often a job is retried, and that no mail
   goes out without a receipt. *)
EXTENDS Delivery, FiniteSetTheorems, TLAPS

WType == [pc: WorkerPC, m: Messages \cup {None}, count: Nat, email: {"none", "valid", "invalid"},
          status: Status \cup {None, "suppressed"}, facts: SUBSET Fact]

RType == [pc: RequestPC, todo: SUBSET Messages, cur: Messages \cup {None},
          seen: SUBSET Messages, wrote: SUBSET Messages]

Types ==
    /\ req \in [Requests -> RType] /\ work \in [Workers -> WType]
    /\ msg \in [Messages -> Status \cup {None}]
    /\ job \in [Messages -> {"absent", "queued", "gone"}]
    /\ retries \in [Messages -> Nat]
    /\ locked \in SUBSET Messages /\ excused \in SUBSET Messages
    /\ boots \in Nat /\ sent \in [Messages -> Nat] /\ late \in [Messages -> Nat]
    /\ critical \in BOOLEAN

\* The phases of an attempt, and what each of them has found: which status it
\* is about to record, and what it knows of the kind and the preferences.
Working(v) ==
    /\ v.m = None <=> v.pc \in {"down", "idle"}
    /\ v.m = None => v.status = None
    /\ v.pc \in {"receipt", "load", "critical", "global", "unsubscribe", "pack", "send"} =>
         v.status = None
    /\ v.pc \in {"find", "insert", "update"} => v.status \in {"delivered", "failed", "unavailable"}
    /\ v.pc = "requeue" => v.status # "delivered"
    /\ v.pc \in {"global", "unsubscribe"} \/ v.status = "suppressed" =>
         "ordinary" \in v.facts \/ "kind unread" \in v.facts
    /\ v.pc = "unsubscribe" => "not globally" \in v.facts
    /\ v.pc \in {"pack", "send"} => \/ "critical" \in v.facts
                                    \/ {"not globally", "not from kind"} \subseteq v.facts

\* An attempt knows what is true now.
Informed(v, c, g, s) == v.m # None => FactsOf(UserOf[v.m], c, g, s) \subseteq v.facts

\* An attempt is for a job, and has its mail accepted if it says so.
Backed(v, jb, snt) == v.m # None => /\ jb[v.m] # "absent"
                                    /\ v.status = "delivered" => snt[v.m] > 0

WorkInv ==
    \A w \in Workers : /\ Working(work[w]) /\ Informed(work[w], critical, globals, unsubs)
                       /\ Backed(work[w], job, sent)

\* A request writes its own messages only, and enqueues each of them once.
Filing(r) ==
    /\ req[r].wrote \subseteq MessagesOf[r] /\ req[r].todo \subseteq MessagesOf[r]
    /\ req[r].pc \in {"find", "insert", "update"} => req[r].cur \in MessagesOf[r]
    /\ ~Open(r) => req[r].wrote = {}
    /\ \A m \in MessagesOf[r] : req[r].pc = "idle" \/ m \in req[r].todo => job[m] = "absent"

RequestInv == \A r \in Requests : Filing(r)

\* The status of m is final: its request is over, and it is not "queued".
Settled(m) ==
    /\ msg[m] # "queued"
    /\ \A r \in Requests : m \in MessagesOf[r] => req[r].pc \in {"accepted", "refused"}

\* A job that is gone or about to go leaves a final status, or an explanation.
Ending(m) == job[m] = "gone" \/ \E w \in Workers : work[w].m = m /\ work[w].pc = "dequeue"

StatusInv == \A m \in Messages : Ending(m) => m \in excused \/ Settled(m)

\* Each boot hands a job out once more: the mails accepted and reported, the
\* attempts that may still lead to one and the job that may still be reserved
\* are no more than the boots.
Armed(m) == {w \in Workers : work[w].m = m /\ work[w].status # "delivered"}
Free(m) == IF job[m] = "absent" \/ (job[m] = "queued" /\ m \notin locked) THEN 1 ELSE 0

CountInv ==
    /\ boots = 0 => \A w \in Workers : work[w].pc = "down"
    /\ \A m \in Messages :
         IF boots = 0 THEN sent[m] = 0
         ELSE sent[m] + Cardinality(Armed(m)) + Free(m) <= boots + late[m]

IndInv == Types /\ WorkInv /\ RequestInv /\ StatusInv /\ CountInv /\ DeliveredWasSent

-----------------------------------------------------------------------------
LEMMA Constants ==
    /\ None \notin Messages /\ IsFiniteSet(Workers)
    /\ \A r \in Requests : MessagesOf[r] \subseteq Messages
    /\ \A r, s \in Requests : r # s => MessagesOf[r] \cap MessagesOf[s] = {}
  BY DeliveryAssumption, Zenon DEF None

\* Sets of workers are finite.
LEMMA WorkersCounted ==
    ASSUME NEW S, S \subseteq Workers
    PROVE  /\ IsFiniteSet(S) /\ Cardinality(S) \in Nat
           /\ \A T : T \subseteq S => Cardinality(T) \in Nat /\ Cardinality(T) <= Cardinality(S)
           /\ \A x \in S : Cardinality(S \ {x}) = Cardinality(S) - 1
           /\ \A x \in Workers \ S : Cardinality(S \cup {x}) = Cardinality(S) + 1
<1>1. IsFiniteSet(S)
  BY Constants, FS_Subset, Zenon
<1>2. Cardinality(S) \in Nat
  BY <1>1, FS_CardinalityType, Zenon
<1>3. ASSUME NEW T, T \subseteq S PROVE Cardinality(T) \in Nat /\ Cardinality(T) <= Cardinality(S)
  BY <1>1, <1>3, FS_Subset, FS_CardinalityType, Zenon
<1>4. \A x \in S : Cardinality(S \ {x}) = Cardinality(S) - 1
  BY <1>1, FS_RemoveElement, Zenon
<1>5. \A x \in Workers \ S : Cardinality(S \cup {x}) = Cardinality(S) + 1
  BY <1>1, FS_AddElement, Zenon
<1> QED
  BY <1>1, <1>2, <1>3, <1>4, <1>5, Zenon

\* The count when it is about to change.
LEMMA Counted ==
    ASSUME IndInv, NEW m \in Messages
    PROVE  /\ boots \in Nat /\ sent[m] \in Nat /\ late[m] \in Nat /\ Free(m) \in {0, 1}
           /\ Cardinality(Armed(m)) \in Nat /\ Armed(m) \subseteq Workers
<1>1. Armed(m) \subseteq Workers
  BY Zenon DEF Armed
<1> QED
  BY <1>1, WorkersCounted, Zenon DEF IndInv, Types, Free

\* Only the record of worker w changes.
Alone(w) == /\ work' \in [Workers -> WType]
            /\ \A q \in Workers \ {w} : work'[q] = work[q]

\* What a step of an attempt leaves alone.
Rest == UNCHANGED <<req, msg, job, retries, locked, boots, critical, globals, unsubs, sent, late>>

\* A step of one worker that neither ends an attempt nor sends anything.
LEMMA Quiet ==
    ASSUME IndInv, NEW w \in Workers, Alone(w), Rest,
           work[w].m # None, work'[w].m = work[w].m, Working(work'[w]),
           work[w].facts \subseteq work'[w].facts,
           work'[w].status = "delivered" <=> work[w].status = "delivered",
           excused \subseteq excused', excused' \subseteq Messages,
           work'[w].pc = "dequeue" => work[w].m \in excused'
    PROVE  IndInv'
<1>1. Types'
  BY Zenon DEF IndInv, Types, Alone, Rest
<1>2. WorkInv'
  <2> SUFFICES ASSUME NEW q \in Workers
               PROVE  /\ Working(work'[q]) /\ Informed(work'[q], critical, globals, unsubs)
                      /\ Backed(work'[q], job, sent)
    BY Zenon DEF WorkInv, Working, Informed, Backed, Rest
  <2>1. CASE q # w
    BY <2>1, Zenon DEF IndInv, WorkInv, Alone
  <2>2. CASE q = w
    BY <2>2, Zenon DEF IndInv, WorkInv, Informed, Backed
  <2> QED
    BY <2>1, <2>2, Zenon
<1>3. RequestInv' /\ DeliveredWasSent'
  BY Zenon DEF IndInv, RequestInv, Filing, Open, DeliveredWasSent, Rest
<1>4. StatusInv'
  BY DEF IndInv, StatusInv, Ending, Settled, Alone, Rest
<1>5. CountInv'
  <2>1. \A m \in Messages : Armed(m)' = Armed(m) /\ Free(m)' = Free(m)
    BY Zenon DEF Armed, Free, Alone, Rest
  <2>2. work[w].pc # "down"
    BY Zenon DEF IndInv, WorkInv, Working
  <2> QED
    BY <2>1, <2>2, Zenon DEF IndInv, CountInv, Alone, Rest
<1> QED
  BY <1>1, <1>2, <1>3, <1>4, <1>5, Zenon DEF IndInv

\* A worker that is at work.
LEMMA AtWork ==
    ASSUME IndInv, NEW w \in Workers, work[w].pc \notin {"down", "idle"}
    PROVE  /\ work \in [Workers -> WType] /\ work[w] \in WType /\ Working(work[w])
           /\ work[w].m \in Messages /\ work[w].m # None
           /\ Informed(work[w], critical, globals, unsubs) /\ Backed(work[w], job, sent)
           /\ excused \subseteq Messages
  BY Constants, Zenon DEF IndInv, Types, WorkInv, Working, WType

\* A failure before anything is sent.
LEMMA FailEarlyStep == ASSUME IndInv, NEW w \in Workers, FailEarly(w) PROVE IndInv'
<1> DEFINE o == work[w]
           v == work'[w]
<1>1. /\ work \in [Workers -> WType] /\ o \in WType /\ Working(o) /\ o.m \in Messages
      /\ o.m # None /\ o.pc \in {"receipt", "load"} /\ excused \subseteq Messages
      /\ Informed(o, critical, globals, unsubs)
  BY AtWork, Zenon DEF FailEarly
<1>2. Rest
  BY Zenon DEF FailEarly, Rest, table, queueVars, prefVars, mailVars
<1>3. AfterRetry(w) \in {"requeue", "dequeue"}
  BY Zenon DEF AfterRetry
<1>4. /\ Alone(w) /\ v.m = o.m
      /\ v.pc = AfterRetry(w) /\ v.status = o.status /\ v.facts = o.facts
      /\ excused' = IF v.pc = "dequeue" THEN excused \cup {o.m} ELSE excused
  BY <1>1, <1>3, Zenon DEF Alone, FailEarly, Move, WType, WorkerPC
<1> HIDE DEF o, v
<1>5. Working(v) /\ o.facts \subseteq v.facts
  BY <1>1, <1>3, <1>4, Zenon DEF Working, None
<1>6. (v.status = "delivered" <=> o.status = "delivered")
  BY <1>1, <1>3, <1>4, <1>5, Zenon DEF Working, None
<1> QED
  BY <1>1, <1>2, <1>3, <1>4, <1>5, <1>6, Quiet, Zenon DEF o, v

LEMMA CreateReceiptsStep == ASSUME IndInv, NEW w \in Workers, CreateReceipts(w) PROVE IndInv'
<1> DEFINE o == work[w]
           v == work'[w]
<1>1. /\ work \in [Workers -> WType] /\ o \in WType /\ Working(o) /\ o.m \in Messages
      /\ o.m # None /\ o.pc \in {"receipt"} /\ excused \subseteq Messages
      /\ Informed(o, critical, globals, unsubs)
  BY AtWork, Zenon DEF CreateReceipts
<1>2. Rest
  BY Zenon DEF CreateReceipts, Rest, table, queueVars, prefVars, mailVars
<1>3. /\ Alone(w) /\ v.m = o.m
      /\ v.pc \in {"load", "critical"} /\ v.status = o.status /\ v.facts = o.facts /\ excused' = excused
  BY <1>1, Zenon DEF Alone, CreateReceipts, Move, WType, WorkerPC
<1> HIDE DEF o, v
<1>4. Working(v) /\ o.facts \subseteq v.facts
  BY <1>1, <1>3, Zenon DEF Working, None
<1>5. (v.status = "delivered" <=> o.status = "delivered")
  BY <1>1, <1>3, <1>4, Zenon DEF Working, None
<1> QED
  BY <1>1, <1>2, <1>3, <1>4, <1>5, Quiet, Zenon DEF o, v

LEMMA LoadUserStep == ASSUME IndInv, NEW w \in Workers, LoadUser(w) PROVE IndInv'
<1> DEFINE o == work[w]
           v == work'[w]
<1>1. /\ work \in [Workers -> WType] /\ o \in WType /\ Working(o) /\ o.m \in Messages
      /\ o.m # None /\ o.pc \in {"load"} /\ excused \subseteq Messages
      /\ Informed(o, critical, globals, unsubs)
  BY AtWork, Zenon DEF LoadUser
<1>2. Rest
  BY Zenon DEF LoadUser, Rest, table, queueVars, prefVars, mailVars
<1>3. PICK e \in {"none", "valid", "invalid"} :
        work' = [work EXCEPT ![w].pc = "critical", ![w].email = e] /\ excused' = excused
  BY Zenon DEF LoadUser
<1>4. /\ Alone(w) /\ v.m = o.m
      /\ v.pc = "critical" /\ v.status = o.status /\ v.facts = o.facts /\ excused' = excused
  BY <1>1, <1>3, Zenon DEF Alone, WType, WorkerPC
<1> HIDE DEF o, v
<1>5. Working(v) /\ o.facts \subseteq v.facts
  BY <1>1, <1>4, Zenon DEF Working, None
<1>6. (v.status = "delivered" <=> o.status = "delivered")
  BY <1>1, <1>4, Zenon DEF Working, None
<1> QED
  BY <1>1, <1>2, <1>3, <1>4, <1>5, <1>6, Quiet, Zenon DEF o, v

\* A kind that is read is what it is at that moment.
LEMMA IsCriticalStep == ASSUME IndInv, NEW w \in Workers, IsCritical(w) PROVE IndInv'
<1> DEFINE o == work[w]
           v == work'[w]
<1>1. /\ work \in [Workers -> WType] /\ o \in WType /\ Working(o) /\ o.m \in Messages
      /\ o.m # None /\ o.pc \in {"critical"} /\ excused \subseteq Messages
      /\ Informed(o, critical, globals, unsubs)
  BY AtWork, Zenon DEF IsCritical
<1>2. Rest
  BY Zenon DEF IsCritical, Rest, table, queueVars, prefVars, mailVars
<1>3. IF critical THEN "critical" \in o.facts ELSE "ordinary" \in o.facts
  BY <1>1, Zenon DEF Informed, FactsOf
<1>4. CASE Move(w, IF critical THEN "pack" ELSE "global") /\ excused' = excused
  <2>1. /\ Alone(w) /\ v.m = o.m
        /\ v.pc = (IF critical THEN "pack" ELSE "global") /\ v.status = o.status /\ v.facts = o.facts
    BY <1>1, <1>4, Zenon DEF Alone, Move, WType, WorkerPC
  <2> HIDE DEF o, v
  <2>2. Working(v) /\ v.pc # "dequeue" /\ v.status # "delivered" /\ o.status # "delivered"
    BY <1>1, <1>3, <1>4, <2>1, Zenon DEF Working, None
  <2> QED
    BY <1>1, <1>2, <1>4, <2>1, <2>2, Quiet, Zenon DEF o, v
<1>5. CASE work' = [work EXCEPT ![w].pc = "global", ![w].facts = @ \cup {"kind unread"}] /\ excused' = excused
  <2>1. /\ Alone(w) /\ v.m = o.m
        /\ v.pc = "global" /\ v.status = o.status /\ v.facts = o.facts \cup {"kind unread"}
    BY <1>1, <1>5, Zenon DEF Alone, WType, WorkerPC, Fact
  <2> HIDE DEF o, v
  <2>2. Working(v) /\ v.status # "delivered" /\ o.status # "delivered"
    BY <1>1, <2>1, Zenon DEF Working, None
  <2> QED
    BY <1>1, <1>2, <1>5, <2>1, <2>2, Quiet, Zenon DEF o, v
<1> QED
  BY <1>4, <1>5, Zenon DEF IsCritical

LEMMA CheckGlobalStep == ASSUME IndInv, NEW w \in Workers, CheckGlobal(w) PROVE IndInv'
<1> DEFINE o == work[w]
           v == work'[w]
<1>1. /\ work \in [Workers -> WType] /\ o \in WType /\ Working(o) /\ o.m \in Messages
      /\ o.m # None /\ o.pc \in {"global"} /\ excused \subseteq Messages
      /\ Informed(o, critical, globals, unsubs)
  BY AtWork, Zenon DEF CheckGlobal
<1>2. Rest
  BY Zenon DEF CheckGlobal, Rest, table, queueVars, prefVars, mailVars
<1>3. UserOf[o.m] \notin globals => "not globally" \in o.facts
  BY <1>1, Zenon DEF Informed, FactsOf
<1>4. CASE UserOf[o.m] \notin globals /\ Move(w, "unsubscribe") /\ excused' = excused
  <2>1. /\ Alone(w) /\ v.m = o.m
        /\ v.pc = "unsubscribe" /\ v.status = o.status /\ v.facts = o.facts
    BY <1>1, <1>4, Zenon DEF Alone, Move, WType, WorkerPC
  <2> HIDE DEF o, v
  <2>2. Working(v) /\ v.pc # "dequeue" /\ v.status # "delivered" /\ o.status # "delivered"
    BY <1>1, <1>3, <1>4, <2>1, Zenon DEF Working, None
  <2> QED
    BY <1>1, <1>2, <1>4, <2>1, <2>2, Quiet, Zenon DEF o, v
<1>5. CASE Suppress(w)
  <2>1. /\ Alone(w) /\ v.m = o.m
        /\ v.pc = "dequeue" /\ v.status = "suppressed" /\ v.facts = o.facts
        /\ excused' = excused \cup {o.m}
    BY <1>1, <1>5, Zenon DEF Alone, WType, WorkerPC, Suppress
  <2> HIDE DEF o, v
  <2>2. Working(v) /\ v.status # "delivered" /\ o.status # "delivered"
    BY <1>1, <2>1, Zenon DEF Working, None
  <2> QED
    BY <1>1, <1>2, <1>5, <2>1, <2>2, Quiet, Zenon DEF o, v
<1> QED
  BY <1>4, <1>5, Zenon DEF CheckGlobal

LEMMA CheckUnsubscribeStep == ASSUME IndInv, NEW w \in Workers, CheckUnsubscribe(w) PROVE IndInv'
<1> DEFINE o == work[w]
           v == work'[w]
<1>1. /\ work \in [Workers -> WType] /\ o \in WType /\ Working(o) /\ o.m \in Messages
      /\ o.m # None /\ o.pc \in {"unsubscribe"} /\ excused \subseteq Messages
      /\ Informed(o, critical, globals, unsubs)
  BY AtWork, Zenon DEF CheckUnsubscribe
<1>2. Rest
  BY Zenon DEF CheckUnsubscribe, Rest, table, queueVars, prefVars, mailVars
<1>3. UserOf[o.m] \notin unsubs => "not from kind" \in o.facts
  BY <1>1, Zenon DEF Informed, FactsOf
<1>4. CASE UserOf[o.m] \notin unsubs /\ Move(w, "pack") /\ excused' = excused
  <2>1. /\ Alone(w) /\ v.m = o.m
        /\ v.pc = "pack" /\ v.status = o.status /\ v.facts = o.facts
    BY <1>1, <1>4, Zenon DEF Alone, Move, WType, WorkerPC
  <2> HIDE DEF o, v
  <2>2. Working(v) /\ v.pc # "dequeue" /\ v.status # "delivered" /\ o.status # "delivered"
    BY <1>1, <1>3, <1>4, <2>1, Zenon DEF Working, None
  <2> QED
    BY <1>1, <1>2, <1>4, <2>1, <2>2, Quiet, Zenon DEF o, v
<1>5. CASE Suppress(w)
  <2>1. /\ Alone(w) /\ v.m = o.m
        /\ v.pc = "dequeue" /\ v.status = "suppressed" /\ v.facts = o.facts
        /\ excused' = excused \cup {o.m}
    BY <1>1, <1>5, Zenon DEF Alone, WType, WorkerPC, Suppress
  <2> HIDE DEF o, v
  <2>2. Working(v) /\ v.status # "delivered" /\ o.status # "delivered"
    BY <1>1, <2>1, Zenon DEF Working, None
  <2> QED
    BY <1>1, <1>2, <1>5, <2>1, <2>2, Quiet, Zenon DEF o, v
<1> QED
  BY <1>4, <1>5, Zenon DEF CheckUnsubscribe

LEMMA PackStep == ASSUME IndInv, NEW w \in Workers, Pack(w) PROVE IndInv'
<1> DEFINE o == work[w]
           v == work'[w]
<1>1. /\ work \in [Workers -> WType] /\ o \in WType /\ Working(o) /\ o.m \in Messages
      /\ o.m # None /\ o.pc \in {"pack"} /\ excused \subseteq Messages
      /\ Informed(o, critical, globals, unsubs)
  BY AtWork, Zenon DEF Pack
<1>2. Rest
  BY Zenon DEF Pack, Rest, table, queueVars, prefVars, mailVars
<1>3. /\ Alone(w) /\ v.m = o.m
      /\ v.facts = o.facts /\ excused' = excused
      /\ \/ v.pc = "send" /\ v.status = o.status
         \/ v.pc = "find" /\ v.status = "failed"
  BY <1>1 DEF Alone, Pack, Move, WType, WorkerPC, Status
<1> HIDE DEF o, v
<1>4. Working(v) /\ o.facts \subseteq v.facts
  BY <1>1, <1>3, Zenon DEF Working, None
<1>5. (v.status = "delivered" <=> o.status = "delivered")
  BY <1>1, <1>3, <1>4, Zenon DEF Working, None
<1> QED
  BY <1>1, <1>2, <1>3, <1>4, <1>5, Quiet, Zenon DEF o, v

LEMMA FindStatusStep == ASSUME IndInv, NEW w \in Workers, FindStatus(w) PROVE IndInv'
<1> DEFINE o == work[w]
           v == work'[w]
<1>1. /\ work \in [Workers -> WType] /\ o \in WType /\ Working(o) /\ o.m \in Messages
      /\ o.m # None /\ o.pc \in {"find"} /\ excused \subseteq Messages
      /\ Informed(o, critical, globals, unsubs)
  BY AtWork, Zenon DEF FindStatus
<1>2. Rest
  BY Zenon DEF FindStatus, Rest, table, queueVars, prefVars, mailVars
<1>3. /\ Alone(w) /\ v.m = o.m
      /\ v.pc \in {"insert", "update"} /\ v.status = o.status /\ v.facts = o.facts /\ excused' = excused
  BY <1>1, Zenon DEF Alone, FindStatus, Move, WType, WorkerPC
<1> HIDE DEF o, v
<1>4. Working(v) /\ o.facts \subseteq v.facts
  BY <1>1, <1>3, Zenon DEF Working, None
<1>5. (v.status = "delivered" <=> o.status = "delivered")
  BY <1>1, <1>3, <1>4, Zenon DEF Working, None
<1> QED
  BY <1>1, <1>2, <1>3, <1>4, <1>5, Quiet, Zenon DEF o, v

\* An error of Upsert.
LEMMA LoseStatusStep == ASSUME IndInv, NEW w \in Workers, LoseStatus(w) PROVE IndInv'
<1> DEFINE o == work[w]
           v == work'[w]
<1>1. /\ work \in [Workers -> WType] /\ o \in WType /\ Working(o) /\ o.m \in Messages
      /\ o.m # None /\ o.pc \in {"find", "insert", "update"} /\ excused \subseteq Messages
      /\ Informed(o, critical, globals, unsubs)
  BY AtWork, Zenon DEF LoseStatus
<1>2. Rest
  BY Zenon DEF LoseStatus, Rest, table, queueVars, prefVars, mailVars
<1>3. /\ AfterStatus(w) \in {"requeue", "dequeue"}
      /\ AfterStatus(w) = "requeue" => o.status # "delivered"
  BY Zenon DEF AfterStatus, AfterRetry
<1>4. /\ Alone(w) /\ v.m = o.m
      /\ v.pc = AfterStatus(w) /\ v.status = o.status /\ v.facts = o.facts
      /\ excused' = excused \cup {o.m}
  BY <1>1, <1>3, Zenon DEF Alone, LoseStatus, Move, WType, WorkerPC
<1> HIDE DEF o, v
<1>5. Working(v) /\ o.facts \subseteq v.facts
  BY <1>1, <1>3, <1>4, Zenon DEF Working, None
<1>6. (v.status = "delivered" <=> o.status = "delivered")
  BY <1>1, <1>3, <1>4, <1>5, Zenon DEF Working, None
<1> QED
  BY <1>1, <1>2, <1>3, <1>4, <1>5, <1>6, Quiet, Zenon DEF o, v

\* A worker that lets go of its job: it may be handed out again only if the
\* mail was not reported as delivered.
LEMMA Leaving ==
    ASSUME IndInv, NEW w \in Workers, NEW pc \in {"down", "idle"}, work[w].pc # "down",
           work' = [work EXCEPT ![w] = Idle(pc)],
           UNCHANGED <<req, msg, boots, critical, globals, unsubs, sent, late, excused>>,
           retries' \in [Messages -> Nat], locked' \subseteq locked, job' \in [Messages -> {"absent", "queued", "gone"}],
           \A m \in Messages : \/ job'[m] = job[m]
                               \/ /\ job'[m] = "gone" /\ job[m] = "queued"
                                  /\ work[w].m = m /\ work[w].pc = "dequeue",
           \A m \in locked \ locked' : \/ job'[m] = "gone"
                                       \/ work[w].m = m /\ work[w].status # "delivered"
    PROVE  IndInv'
<1> DEFINE v == Idle(pc)
<1>1. v \in WType /\ v.pc = pc /\ v.m = None /\ v.status = None
  BY Zenon DEF Idle, WType, WorkerPC, None
<1>2. \A q \in Workers : work'[q] = IF q = w THEN v ELSE work[q]
  BY Zenon DEF IndInv, Types
<1> HIDE DEF v
<1>3. Types'
  BY <1>1, Zenon DEF IndInv, Types, v
<1>4. WorkInv'
  <2> SUFFICES ASSUME NEW q \in Workers
               PROVE  /\ Working(work'[q]) /\ Informed(work'[q], critical, globals, unsubs)
                      /\ Backed(work'[q], job', sent)
    BY Zenon DEF WorkInv, Working, Informed, Backed
  <2>1. CASE q = w
    BY <1>1, <1>2, <2>1, Zenon DEF Working, Informed, Backed, None
  <2>2. CASE q # w
    <3>1. /\ Working(work[q]) /\ Informed(work[q], critical, globals, unsubs)
          /\ Backed(work[q], job, sent) /\ work[q].m \in Messages \cup {None}
      BY Zenon DEF IndInv, WorkInv, Types, WType
    <3> QED
      BY <1>2, <2>2, <3>1 DEF Backed
  <2> QED
    BY <2>1, <2>2, Zenon
<1>5. RequestInv'
  <2>1. \A m \in Messages : job[m] = "absent" => job'[m] = "absent"
    BY Zenon
  <2> QED
    BY <2>1, Constants, Zenon DEF IndInv, RequestInv, Filing, Open
<1>6. StatusInv'
  <2>1. \A m \in Messages : Ending(m)' => Ending(m)
    BY <1>1, <1>2 DEF Ending
  <2> QED
    BY <2>1, Zenon DEF IndInv, StatusInv, Settled
<1>7. CountInv'
  <2>1. boots # 0
    BY Zenon DEF IndInv, CountInv
  <2>2. ASSUME NEW m \in Messages
        PROVE  sent[m] + Cardinality(Armed(m)') + Free(m)' <= boots + late[m]
    <3>1. Armed(m)' = Armed(m) \ {w}
      BY <1>1, <1>2, Constants DEF Armed
    <3>2. /\ sent[m] + Cardinality(Armed(m)) + Free(m) <= boots + late[m]
          /\ boots \in Nat /\ sent[m] \in Nat /\ late[m] \in Nat /\ Free(m) \in {0, 1}
          /\ Cardinality(Armed(m)) \in Nat /\ Armed(m) \subseteq Workers
      BY <2>1, Counted, Zenon DEF IndInv, CountInv
    <3>3. CASE w \in Armed(m)
      <4>1. Cardinality(Armed(m) \ {w}) = Cardinality(Armed(m)) - 1
        BY <3>2, <3>3, WorkersCounted, Zenon
      <4>2. Free(m)' \in {0, 1}
        BY Zenon DEF Free
      <4> QED
        BY <3>1, <3>2, <4>1, <4>2
    <3>4. CASE w \notin Armed(m)
      <4>1. Free(m)' <= Free(m)
        <5>1. ~(work[w].m = m /\ work[w].status # "delivered")
          BY <3>4, Zenon DEF Armed
        <5> QED
          BY <5>1 DEF Free
      <4>2. Free(m)' \in {0, 1}
        BY Zenon DEF Free
      <4>3. Cardinality(Armed(m)') = Cardinality(Armed(m))
        <5>1. Armed(m)' = Armed(m)
          BY <3>1, <3>4, Zenon
        <5> QED
          BY <5>1, Zenon
      <4> QED
        BY <3>2, <4>1, <4>2, <4>3
    <3> QED
      BY <3>3, <3>4, Zenon
  <2> QED
    BY <2>1, <2>2, Zenon DEF CountInv
<1>8. DeliveredWasSent'
  BY Zenon DEF IndInv, DeliveredWasSent
<1> QED
  BY <1>3, <1>4, <1>5, <1>6, <1>7, <1>8, Zenon DEF IndInv

LEMMA CrashStep == ASSUME IndInv, NEW w \in Workers, Crash(w) PROVE IndInv'
<1>1. job \in [Messages -> {"absent", "queued", "gone"}] /\ retries \in [Messages -> Nat]
  BY Zenon DEF IndInv, Types
<1> QED
  BY <1>1, Leaving, Zenon DEF Crash, table, queueVars, prefVars, mailVars

LEMMA PanicStep == ASSUME IndInv, NEW w \in Workers, Panic(w) PROVE IndInv'
<1>1. job \in [Messages -> {"absent", "queued", "gone"}] /\ retries \in [Messages -> Nat]
  BY Zenon DEF IndInv, Types
<1> QED
  BY <1>1, Leaving, Zenon DEF Panic, table, queueVars, prefVars, mailVars

LEMMA RequeueStep == ASSUME IndInv, NEW w \in Workers, Requeue(w) PROVE IndInv'
<1>1. /\ job \in [Messages -> {"absent", "queued", "gone"}] /\ work[w].pc = "requeue"
      /\ work[w].status # "delivered"
  BY Zenon DEF IndInv, Types, WorkInv, Working, Requeue
<1>2. retries' \in [Messages -> Nat]
  <2>1. work[w].count + 1 \in Nat /\ retries \in [Messages -> Nat]
    BY DEF IndInv, Types, WType
  <2> QED
    BY <2>1, Zenon DEF Requeue
<1> QED
  BY <1>1, <1>2, Leaving, Zenon DEF Requeue, table, prefVars, mailVars

LEMMA DequeueStep == ASSUME IndInv, NEW w \in Workers, Dequeue(w) PROVE IndInv'
<1>1. /\ job \in [Messages -> {"absent", "queued", "gone"}] /\ work[w].pc = "dequeue"
      /\ job' = [job EXCEPT ![work[w].m] = "gone"] /\ locked' = locked \ {work[w].m}
      /\ job[work[w].m] = "queued" /\ retries' \in [Messages -> Nat]
  BY Zenon DEF IndInv, Types, Dequeue, HasLease
<1>2. /\ work' = [work EXCEPT ![w] = Idle("idle")]
      /\ UNCHANGED <<req, msg, boots, critical, globals, unsubs, sent, late, excused>>
  BY Zenon DEF Dequeue, table, prefVars, mailVars
<1>3. /\ job' \in [Messages -> {"absent", "queued", "gone"}]
      /\ \A m \in Messages : job'[m] = job[m] \/ (job'[m] = "gone" /\ work[w].m = m)
      /\ \A m \in locked \ locked' : job'[m] = "gone"
  <2>1. work[w].m \in Messages
    BY <1>1, AtWork, Zenon
  <2> QED
    BY <1>1, <2>1, Zenon
<1> QED
  BY <1>1, <1>2, <1>3, Leaving, Zenon

\* A boot gives everything one more chance.
LEMMA BootStep == ASSUME IndInv, NEW w \in Workers, Boot(w) PROVE IndInv'
<1> DEFINE v == Idle("idle")
<1>1. v \in WType /\ v.pc = "idle" /\ v.m = None /\ v.status = None
  BY Zenon DEF Idle, WType, WorkerPC, None
<1>2. /\ work' = [work EXCEPT ![w] = v] /\ boots' = boots + 1 /\ locked' = {} /\ work[w].pc = "down"
      /\ UNCHANGED <<req, msg, job, retries, critical, globals, unsubs, sent, late, excused>>
  BY Zenon DEF Boot, table, prefVars, mailVars
<1> HIDE DEF v
<1>3. \A q \in Workers : work'[q] = IF q = w THEN v ELSE work[q]
  BY <1>2, Zenon DEF IndInv, Types
<1>4. Types'
  BY <1>1, <1>2 DEF IndInv, Types
<1>5. WorkInv'
  <2> SUFFICES ASSUME NEW q \in Workers
               PROVE  /\ Working(work'[q]) /\ Informed(work'[q], critical, globals, unsubs)
                      /\ Backed(work'[q], job, sent)
    BY <1>2, Zenon DEF WorkInv, Working, Informed, Backed
  <2> QED
    BY <1>1, <1>3, Zenon DEF Working, Informed, Backed, None, IndInv, WorkInv
<1>6. RequestInv'
  BY <1>2, Zenon DEF IndInv, RequestInv, Filing, Open
<1>7. StatusInv'
  BY <1>1, <1>2, <1>3 DEF IndInv, StatusInv, Settled, Ending
<1>8. CountInv'
  <2> SUFFICES ASSUME NEW m \in Messages
               PROVE  sent[m] + Cardinality(Armed(m)') + Free(m)' <= boots + 1 + late[m]
    BY <1>2 DEF CountInv, IndInv, Types
  <2>1. Armed(m)' = Armed(m)
    <3>1. work[w].m = None
      BY <1>2, Zenon DEF IndInv, WorkInv, Working
    <3> QED
      BY <1>1, <1>3, <3>1, Constants, Zenon DEF Armed
  <2>2. /\ boots \in Nat /\ sent[m] \in Nat /\ late[m] \in Nat /\ Free(m) \in {0, 1}
        /\ Cardinality(Armed(m)) \in Nat /\ Free(m)' \in {0, 1}
    BY Counted, Zenon DEF Free
  <2>3. CASE boots # 0
    <3>1. sent[m] + Cardinality(Armed(m)) + Free(m) <= boots + late[m]
      BY <2>3, Zenon DEF IndInv, CountInv
    <3> QED
      BY <2>1, <2>2, <3>1
  <2>4. CASE boots = 0
    <3>1. sent[m] = 0 /\ \A q \in Workers : work[q].m = None
      BY <2>4, Zenon DEF IndInv, CountInv, WorkInv, Working
    <3>2. Armed(m) = {}
      BY <3>1, Constants, Zenon DEF Armed
    <3> QED
      BY <2>1, <2>2, <2>4, <3>1, <3>2, FS_EmptySet
  <2> QED
    BY <2>3, <2>4, Zenon
<1>9. DeliveredWasSent'
  BY <1>2, Zenon DEF IndInv, DeliveredWasSent
<1> QED
  BY <1>4, <1>5, <1>6, <1>7, <1>8, <1>9, Zenon DEF IndInv

\* The chance is taken.
LEMMA ReserveStep == ASSUME IndInv, NEW w \in Workers, Reserve(w) PROVE IndInv'
<1>1. PICK m \in Messages :
        /\ job[m] = "queued" /\ m \notin locked /\ locked' = locked \cup {m}
        /\ work' = [work EXCEPT ![w] =
                      [pc |-> "receipt", m |-> m, count |-> retries[m], email |-> Address[m],
                       status |-> None, facts |-> FactsOf(UserOf[m], critical, globals, unsubs)]]
  BY Zenon DEF Reserve
<1> DEFINE v == [pc |-> "receipt", m |-> m, count |-> retries[m], email |-> Address[m],
                 status |-> None, facts |-> FactsOf(UserOf[m], critical, globals, unsubs)]
<1>2. /\ v \in WType /\ v.pc = "receipt" /\ v.m = m /\ v.status = None
      /\ v.facts = FactsOf(UserOf[m], critical, globals, unsubs)
  <2>1. FactsOf(UserOf[m], critical, globals, unsubs) \in SUBSET Fact
    BY Zenon DEF FactsOf, Fact
  <2>2. Address[m] \in {"none", "valid", "invalid"}
    BY DeliveryAssumption, Zenon
  <2>3. retries[m] \in Nat
    BY Zenon DEF IndInv, Types
  <2> QED
    BY <2>1, <2>2, <2>3, Zenon DEF WType, WorkerPC
<1>3. /\ work' = [work EXCEPT ![w] = v] /\ work[w].pc = "idle"
      /\ UNCHANGED <<req, msg, job, retries, boots, critical, globals, unsubs, sent, late, excused>>
  BY <1>1, Zenon DEF Reserve, table, prefVars, mailVars
<1> HIDE DEF v
<1>4. \A q \in Workers : work'[q] = IF q = w THEN v ELSE work[q]
  BY <1>3, Zenon DEF IndInv, Types
<1>5. Types'
  BY <1>1, <1>2, <1>3 DEF IndInv, Types
<1>6. WorkInv'
  <2> SUFFICES ASSUME NEW q \in Workers
               PROVE  /\ Working(work'[q]) /\ Informed(work'[q], critical, globals, unsubs)
                      /\ Backed(work'[q], job, sent)
    BY <1>3, Zenon DEF WorkInv, Working, Informed, Backed
  <2>1. CASE q = w
    BY <1>1, <1>2, <1>4, <2>1, Constants, Zenon DEF Working, Informed, Backed, None
  <2>2. CASE q # w
    BY <1>4, <2>2, Zenon DEF IndInv, WorkInv
  <2> QED
    BY <2>1, <2>2, Zenon
<1>7. RequestInv'
  BY <1>3, Zenon DEF IndInv, RequestInv, Filing, Open
<1>8. StatusInv'
  BY <1>2, <1>3, <1>4 DEF IndInv, StatusInv, Settled, Ending
<1>9. CountInv'
  <2>1. boots # 0 /\ work[w].m = None
    BY <1>3, Zenon DEF IndInv, CountInv, WorkInv, Working
  <2>2. ASSUME NEW n \in Messages
        PROVE  sent[n] + Cardinality(Armed(n)') + Free(n)' <= boots + late[n]
    <3>1. /\ sent[n] + Cardinality(Armed(n)) + Free(n) <= boots + late[n]
          /\ boots \in Nat /\ sent[n] \in Nat /\ late[n] \in Nat /\ Free(n) \in {0, 1}
          /\ Cardinality(Armed(n)) \in Nat /\ Armed(n) \subseteq Workers
      BY <2>1, Counted, Zenon DEF IndInv, CountInv
    <3>2. CASE n = m
      <4>1. Armed(n)' = Armed(n) \cup {w} /\ w \notin Armed(n)
        BY <1>2, <1>4, <2>1, <3>2, Constants, Zenon DEF Armed, None
      <4>2. Cardinality(Armed(n) \cup {w}) = Cardinality(Armed(n)) + 1
        BY <3>1, <4>1, WorkersCounted, Zenon
      <4>3. Free(n) = 1 /\ Free(n)' = 0
        BY <1>1, <1>3, <3>2, Zenon DEF Free
      <4> QED
        BY <3>1, <4>1, <4>2, <4>3
    <3>3. CASE n # m
      <4>1. Armed(n)' = Armed(n)
        BY <1>2, <1>4, <2>1, <3>3, Constants, Zenon DEF Armed
      <4>2. Free(n)' = Free(n)
        BY <1>1, <1>3, <3>3, Zenon DEF Free
      <4> QED
        BY <3>1, <4>1, <4>2, Zenon
    <3> QED
      BY <3>2, <3>3, Zenon
  <2> QED
    BY <1>3, <2>1, <2>2, Zenon DEF CountInv
<1>10. DeliveredWasSent'
  BY <1>3, Zenon DEF IndInv, DeliveredWasSent
<1> QED
  BY <1>5, <1>6, <1>7, <1>8, <1>9, <1>10, Zenon DEF IndInv

\* A mail that is accepted and reported uses the chance up.
LEMMA SendMailStep == ASSUME IndInv, NEW w \in Workers, SendMail(w) PROVE IndInv'
<1> DEFINE o == work[w]
           n == work[w].m
<1>1. /\ o \in WType /\ Working(o) /\ n \in Messages /\ n # None /\ o.pc = "send"
      /\ Informed(o, critical, globals, unsubs) /\ Backed(o, job, sent) /\ o.status = None
  BY AtWork, Zenon DEF SendMail, Working
<1>2. PICK st \in {"unavailable", "failed", "delivered"} :
        /\ work' = [work EXCEPT ![w].pc = "find", ![w].status = st]
        /\ \/ st # "delivered" /\ UNCHANGED mailVars
           \/ st = "failed" /\ sent' = [sent EXCEPT ![n] = @ + 1] /\ late' = [late EXCEPT ![n] = @ + 1]
           \/ st = "delivered" /\ sent' = [sent EXCEPT ![n] = @ + 1] /\ UNCHANGED late
  BY Zenon DEF SendMail
<1> DEFINE v == [o EXCEPT !.pc = "find", !.status = st]
<1>3. /\ work' = [work EXCEPT ![w] = v]
      /\ UNCHANGED <<req, msg, job, retries, locked, boots, critical, globals, unsubs, excused>>
  BY <1>2, Zenon DEF SendMail, table, queueVars, prefVars
<1>4. v \in WType /\ v.pc = "find" /\ v.m = n /\ v.status = st /\ v.facts = o.facts
  BY <1>1, Zenon DEF WType, WorkerPC, Status
<1> HIDE DEF v, o, n
<1>5. \A q \in Workers : work'[q] = IF q = w THEN v ELSE work[q]
  BY <1>3, Zenon DEF IndInv, Types
<1>6. /\ sent \in [Messages -> Nat] /\ late \in [Messages -> Nat]
      /\ sent' \in [Messages -> Nat] /\ late' \in [Messages -> Nat]
      /\ \A m \in Messages : sent'[m] >= sent[m] /\ (m # n => sent'[m] = sent[m] /\ late'[m] = late[m])
      /\ st = "delivered" => sent'[n] = sent[n] + 1 /\ late'[n] = late[n]
      /\ st # "delivered" => sent'[n] - late'[n] = sent[n] - late[n]
  BY <1>1, <1>2 DEF IndInv, Types, mailVars
<1>7. Types'
  BY <1>3, <1>4, <1>6, Zenon DEF IndInv, Types
<1>8. WorkInv'
  <2> SUFFICES ASSUME NEW q \in Workers
               PROVE  /\ Working(work'[q]) /\ Informed(work'[q], critical, globals, unsubs)
                      /\ Backed(work'[q], job, sent')
    BY <1>3, Zenon DEF WorkInv, Working, Informed, Backed
  <2>1. CASE q = w
    <3>1. Working(v) /\ Informed(v, critical, globals, unsubs)
      BY <1>1, <1>4, Zenon DEF Working, Informed, None, n, o
    <3>2. Backed(v, job, sent')
      BY <1>1, <1>4, <1>6 DEF Backed, n, o
    <3> QED
      BY <1>5, <2>1, <3>1, <3>2, Zenon
  <2>2. CASE q # w
    <3>1. /\ Working(work[q]) /\ Informed(work[q], critical, globals, unsubs)
          /\ Backed(work[q], job, sent) /\ work[q].m \in Messages \cup {None}
      BY Zenon DEF IndInv, WorkInv, Types, WType
    <3>2. Backed(work[q], job, sent')
      BY <1>6, <3>1 DEF Backed
    <3> QED
      BY <1>5, <2>2, <3>1, <3>2, Zenon
  <2> QED
    BY <2>1, <2>2, Zenon
<1>9. RequestInv' /\ StatusInv'
  BY <1>3, <1>4, <1>5 DEF IndInv, RequestInv, Filing, Open, StatusInv, Settled, Ending
<1>10. CountInv'
  <2>1. boots # 0
    BY <1>1, Zenon DEF IndInv, CountInv, o
  <2>2. ASSUME NEW m \in Messages
        PROVE  sent'[m] + Cardinality(Armed(m)') + Free(m)' <= boots + late'[m]
    <3>1. /\ sent[m] + Cardinality(Armed(m)) + Free(m) <= boots + late[m]
          /\ boots \in Nat /\ sent[m] \in Nat /\ late[m] \in Nat /\ Free(m) \in {0, 1}
          /\ Cardinality(Armed(m)) \in Nat /\ Armed(m) \subseteq Workers
      BY <2>1, Counted, Zenon DEF IndInv, CountInv
    <3>2. Free(m)' = Free(m) /\ sent'[m] \in Nat /\ late'[m] \in Nat
      BY <1>3, <1>6, Zenon DEF Free
    <3>3. CASE m = n /\ st = "delivered"
      <4>1. Armed(m)' = Armed(m) \ {w} /\ w \in Armed(m)
        BY <1>1, <1>4, <1>5, <3>3, Zenon DEF Armed, None, n, o
      <4>2. Cardinality(Armed(m) \ {w}) = Cardinality(Armed(m)) - 1
        BY <3>1, <4>1, WorkersCounted, Zenon
      <4>3. Cardinality(Armed(m)') = Cardinality(Armed(m)) - 1
        BY <4>1, <4>2, Zenon
      <4> QED
        BY <1>6, <3>1, <3>2, <3>3, <4>3
    <3>4. CASE ~(m = n /\ st = "delivered")
      <4>1. Armed(m)' = Armed(m)
        BY <1>1, <1>4, <1>5, <3>4, Zenon DEF Armed, None, n, o
      <4>2. Cardinality(Armed(m)') = Cardinality(Armed(m))
        BY <4>1, Zenon
      <4> QED
        BY <1>6, <3>1, <3>2, <3>4, <4>2
    <3> QED
      BY <3>3, <3>4, Zenon
  <2> QED
    BY <1>3, <2>1, <2>2, Zenon DEF CountInv
<1>11. DeliveredWasSent'
  BY <1>3, <1>6 DEF IndInv, DeliveredWasSent
<1> QED
  BY <1>7, <1>8, <1>9, <1>10, <1>11, Zenon DEF IndInv

\* A status is recorded: "delivered" only for what was sent, and it is final
\* unless the request is still open or the row was not hit.
LEMMA WriteStatusStep == ASSUME IndInv, NEW w \in Workers, WriteStatus(w) PROVE IndInv'
<1> DEFINE o == work[w]
           n == work[w].m
           pc == AfterStatus(w)
           v == [o EXCEPT !.pc = pc]
<1>1. /\ o \in WType /\ Working(o) /\ n \in Messages /\ n # None /\ o.pc \in {"insert", "update"}
      /\ Informed(o, critical, globals, unsubs) /\ Backed(o, job, sent)
      /\ o.status \in {"delivered", "failed", "unavailable"}
  BY AtWork, Zenon DEF WriteStatus, Working
<1>2. pc \in {"requeue", "dequeue"} /\ (pc = "requeue" => o.status # "delivered")
  BY Zenon DEF AfterStatus, AfterRetry
<1>3. PICK hit \in BOOLEAN :
        /\ msg' = IF hit THEN [msg EXCEPT ![n] = o.status] ELSE msg
        /\ excused' = IF hit /\ ~\E r \in Requests : Open(r) /\ n \in MessagesOf[r]
                      THEN excused ELSE excused \cup {n}
        /\ work' = [work EXCEPT ![w] = v]
  BY Zenon DEF WriteStatus, Move
<1>4. UNCHANGED <<req, job, retries, locked, boots, critical, globals, unsubs, sent, late>>
  BY Zenon DEF WriteStatus, queueVars, prefVars, mailVars
<1> HIDE DEF pc
<1>5. v \in WType /\ v.pc = pc /\ v.m = n /\ v.status = o.status /\ v.facts = o.facts
  BY <1>1, <1>2, Zenon DEF WType, WorkerPC
<1> HIDE DEF v, o, n
<1>6. \A q \in Workers : work'[q] = IF q = w THEN v ELSE work[q]
  BY <1>3, Zenon DEF IndInv, Types
<1>7. /\ msg' \in [Messages -> Status \cup {None}]
      /\ \A m \in Messages : msg'[m] = IF hit /\ m = n THEN o.status ELSE msg[m]
  BY <1>1, <1>3, SMTT(20) DEF IndInv, Types, Status
<1>8. Types'
  BY <1>1, <1>3, <1>4, <1>5, <1>7, Zenon DEF IndInv, Types
<1>9. WorkInv'
  <2> SUFFICES ASSUME NEW q \in Workers
               PROVE  /\ Working(work'[q]) /\ Informed(work'[q], critical, globals, unsubs)
                      /\ Backed(work'[q], job, sent)
    BY <1>4, Zenon DEF WorkInv, Working, Informed, Backed
  <2>1. Working(v) /\ Informed(v, critical, globals, unsubs) /\ Backed(v, job, sent)
    BY <1>1, <1>2, <1>5, Zenon DEF Working, Informed, Backed, None, n, o
  <2> QED
    BY <1>6, <2>1, Zenon DEF IndInv, WorkInv
<1>10. RequestInv'
  BY <1>4, Zenon DEF IndInv, RequestInv, Filing, Open
<1>11. StatusInv'
  <2> SUFFICES ASSUME NEW m \in Messages, Ending(m)', m \notin excused' PROVE Settled(m)'
    BY Zenon DEF StatusInv
  <2>1. m \notin excused
    BY <1>3, Zenon
  <2>2. CASE m = n
    <3>1. hit /\ ~\E r \in Requests : Open(r) /\ n \in MessagesOf[r]
      BY <1>3, <2>2, Zenon
    <3>2. ASSUME NEW r \in Requests, n \in MessagesOf[r] PROVE req[r].pc \in {"accepted", "refused"}
      <4>1. req[r].pc # "idle"
        BY <1>1, <3>2, Zenon DEF IndInv, RequestInv, Filing, Backed, n, o
      <4>2. req[r].pc \in RequestPC
        BY Zenon DEF IndInv, Types, RType
      <4> QED
        BY <3>1, <3>2, <4>1, <4>2, Zenon DEF Open, RequestPC
    <3> QED
      BY <1>1, <1>4, <1>7, <2>2, <3>1, <3>2, Zenon DEF Settled
  <2>3. CASE m # n
    <3>1. Ending(m)
      BY <1>4, <1>5, <1>6, <2>3, Zenon DEF Ending
    <3> QED
      BY <1>4, <1>7, <2>1, <2>3, <3>1, Zenon DEF IndInv, StatusInv, Settled
  <2> QED
    BY <2>2, <2>3, Zenon
<1>12. CountInv'
  <2>1. \A m \in Messages : Armed(m)' = Armed(m) /\ Free(m)' = Free(m)
    BY <1>4, <1>5, <1>6, Zenon DEF Armed, Free, n, o
  <2>2. work[w].pc # "down"
    BY <1>1, Zenon DEF o
  <2> QED
    BY <1>4, <1>6, <2>1, <2>2, Zenon DEF IndInv, CountInv
<1>13. DeliveredWasSent'
  BY <1>1, <1>4, <1>7, Zenon DEF IndInv, DeliveredWasSent, Backed, n, o
<1> QED
  BY <1>8, <1>9, <1>10, <1>11, <1>12, <1>13, Zenon DEF IndInv

\* A change adds what is true from then on to what every attempt knows.
LEMMA ChangeStep == ASSUME IndInv, Change PROVE IndInv'
<1>1. /\ UNCHANGED <<req, msg, job, retries, locked, boots, sent, late, excused>> /\ critical' \in BOOLEAN
  BY Zenon DEF Change, table, queueVars, mailVars, IndInv, Types
<1>2. ASSUME NEW w \in Workers
      PROVE  /\ work'[w] \in WType /\ work'[w].pc = work[w].pc /\ work'[w].m = work[w].m
             /\ work'[w].status = work[w].status /\ Working(work'[w])
             /\ Informed(work'[w], critical', globals', unsubs') /\ Backed(work'[w], job, sent)
  <2> DEFINE o == work[w]
             f == FactsOf(UserOf[o.m], critical', globals', unsubs')
             v == work'[w]
  <2>1. o \in WType /\ Working(o) /\ Backed(o, job, sent)
    BY Zenon DEF IndInv, Types, WorkInv
  <2>2. v = IF o.m = None THEN o ELSE [o EXCEPT !.facts = @ \cup f]
    BY Zenon DEF Change
  <2>3. f \subseteq Fact
    BY Zenon DEF FactsOf, Fact
  <2> HIDE DEF v, o, f
  <2>4. /\ v \in WType /\ v.pc = o.pc /\ v.m = o.m /\ v.status = o.status
        /\ o.facts \subseteq v.facts /\ (o.m # None => f \subseteq v.facts)
    BY <2>1, <2>2, <2>3, Zenon DEF WType
  <2>5. Working(v) /\ Backed(v, job, sent)
    BY <2>1, <2>4, Zenon DEF Working, Backed
  <2>6. Informed(v, critical', globals', unsubs')
    BY <2>4, Zenon DEF Informed, f
  <2> QED
    BY <2>4, <2>5, <2>6, Zenon DEF v, o
<1>3. Types'
  <2>1. work' = [w \in Workers |-> work'[w]]
    BY Zenon DEF Change
  <2> QED
    BY <1>1, <1>2, <2>1, Zenon DEF IndInv, Types
<1>4. WorkInv'
  <2> SUFFICES ASSUME NEW w \in Workers
               PROVE  /\ Working(work'[w]) /\ Informed(work'[w], critical', globals', unsubs')
                      /\ Backed(work'[w], job, sent)
    BY <1>1, Zenon DEF WorkInv, Working, Informed, Backed
  <2> QED
    BY <1>2, Zenon
<1>5. RequestInv' /\ StatusInv' /\ DeliveredWasSent'
  <2>1. RequestInv' /\ DeliveredWasSent'
    BY <1>1, Zenon DEF IndInv, RequestInv, Filing, Open, DeliveredWasSent
  <2>2. \A m \in Messages : (Ending(m)' => Ending(m)) /\ (Settled(m) => Settled(m)')
    BY <1>1, <1>2, Zenon DEF Ending, Settled
  <2> QED
    BY <1>1, <2>1, <2>2, Zenon DEF IndInv, StatusInv
<1>6. \A m \in Messages : Armed(m)' = Armed(m) /\ Free(m)' = Free(m)
  BY <1>1, <1>2, Zenon DEF Armed, Free
<1>7. CountInv'
  BY <1>1, <1>2, <1>6, Zenon DEF IndInv, CountInv
<1> QED
  BY <1>3, <1>4, <1>5, <1>7, Zenon DEF IndInv

\* A step of a request that is not over: it enqueues messages that have never
\* been enqueued, and commits nothing but its own.
LEMMA Requesting ==
    ASSUME IndInv, NEW r \in Requests, NEW q \in RType, req' = [req EXCEPT ![r] = q],
           UNCHANGED <<work, retries, locked, boots, critical, globals, unsubs, sent, late, excused>>,
           job' \in [Messages -> {"absent", "queued", "gone"}],
           msg' \in [Messages -> Status \cup {None}],
           req[r].pc \notin {"accepted", "refused"}, q.pc # "idle",
           \A m \in Messages : \/ job'[m] = job[m]
                               \/ job[m] = "absent" /\ job'[m] = "queued" /\ m \in MessagesOf[r],
           \A m \in Messages : msg'[m] = msg[m] \/ (msg'[m] = "queued" /\ m \in req[r].wrote),
           q.wrote \subseteq MessagesOf[r], q.todo \subseteq MessagesOf[r],
           q.pc \in {"find", "insert", "update"} => q.cur \in MessagesOf[r],
           q.pc \in {"accepted", "refused"} => q.wrote = {},
           \A m \in q.todo : job'[m] = "absent"
    PROVE  IndInv'
<1>1. \A p \in Requests : req'[p] = IF p = r THEN q ELSE req[p]
  BY Zenon DEF IndInv, Types
<1>2. Types'
  BY Zenon DEF IndInv, Types
<1>3. WorkInv'
  <2> SUFFICES ASSUME NEW w \in Workers
               PROVE  /\ Working(work[w]) /\ Informed(work[w], critical, globals, unsubs)
                      /\ Backed(work[w], job', sent)
    BY Zenon DEF WorkInv, Working, Informed, Backed
  <2>1. /\ Working(work[w]) /\ Informed(work[w], critical, globals, unsubs)
        /\ Backed(work[w], job, sent) /\ work[w].m \in Messages \cup {None}
    BY Zenon DEF IndInv, WorkInv, Types, WType
  <2> QED
    BY <2>1, Zenon DEF Backed
<1>4. RequestInv'
  <2> SUFFICES ASSUME NEW p \in Requests PROVE Filing(p)'
    BY Zenon DEF RequestInv
  <2>1. CASE p = r
    <3>1. q.pc \in RequestPC
      BY Zenon DEF RType
    <3> QED
      BY <1>1, <2>1, <3>1, Zenon DEF Filing, Open, RequestPC
  <2>2. CASE p # r
    <3>1. Filing(p) /\ MessagesOf[p] \subseteq Messages /\ MessagesOf[p] \cap MessagesOf[r] = {}
      BY <2>2, Constants, Zenon DEF IndInv, RequestInv
    <3>2. \A m \in MessagesOf[p] : job'[m] = job[m]
      BY <3>1, Zenon
    <3> QED
      BY <1>1, <2>2, <3>1, <3>2, SMTT(20) DEF Filing, Open
  <2> QED
    BY <2>1, <2>2, Zenon
<1>5. StatusInv'
  <2> SUFFICES ASSUME NEW m \in Messages, Ending(m)', m \notin excused PROVE Settled(m)'
    BY Zenon DEF StatusInv
  <2>1. Ending(m)
    BY Zenon DEF Ending
  <2>2. Settled(m)
    BY <2>1, Zenon DEF IndInv, StatusInv
  <2>3. m \notin MessagesOf[r] /\ m \notin req[r].wrote
    BY <2>2, Zenon DEF Settled, IndInv, RequestInv, Filing
  <2> QED
    BY <1>1, <2>2, <2>3 DEF Settled
<1>6. CountInv'
  <2> SUFFICES ASSUME NEW m \in Messages, boots # 0
               PROVE  sent[m] + Cardinality(Armed(m)') + Free(m)' <= boots + late[m]
    BY Zenon DEF IndInv, CountInv
  <2>1. Armed(m)' = Armed(m) /\ Free(m)' <= Free(m) /\ Free(m)' \in {0, 1}
    BY DEF Armed, Free
  <2>2. Cardinality(Armed(m)') = Cardinality(Armed(m))
    BY <2>1, Zenon
  <2>3. sent[m] + Cardinality(Armed(m)) + Free(m) <= boots + late[m]
    BY Zenon DEF IndInv, CountInv
  <2> QED
    BY <2>1, <2>2, <2>3, Counted
<1>7. DeliveredWasSent'
  BY Zenon DEF IndInv, DeliveredWasSent
<1> QED
  BY <1>2, <1>3, <1>4, <1>5, <1>6, <1>7, Zenon DEF IndInv

\* What a request knows of itself.
LEMMA InRequest ==
    ASSUME IndInv, NEW r \in Requests
    PROVE  /\ req[r] \in RType /\ Filing(r) /\ MessagesOf[r] \subseteq Messages
           /\ job \in [Messages -> {"absent", "queued", "gone"}]
           /\ msg \in [Messages -> Status \cup {None}]
  BY Constants, Zenon DEF IndInv, Types, RequestInv

LEMMA ClosedRequest ==
    ASSUME NEW pc \in RequestPC
    PROVE  /\ Closed(pc) \in RType /\ Closed(pc).pc = pc /\ Closed(pc).todo = {}
           /\ Closed(pc).wrote = {}
  BY Zenon DEF Closed, RType, None

LEMMA DeliverStep == ASSUME IndInv, NEW r \in Requests, Deliver(r) PROVE IndInv'
<1> DEFINE c == Closed("enqueue")
           q == [c EXCEPT !.todo = MessagesOf[r]]
<1>1. c \in RType /\ c.pc = "enqueue" /\ c.wrote = {}
  BY ClosedRequest, Zenon DEF RequestPC
<1>2. req' = [req EXCEPT ![r] = q]
  BY Zenon DEF Deliver
<1> HIDE DEF c
<1>3. q \in RType /\ q.pc = "enqueue" /\ q.wrote = {} /\ q.todo = MessagesOf[r]
  BY <1>1, InRequest, Zenon DEF RType
<1>4. /\ req[r].pc = "idle"
      /\ UNCHANGED <<msg, job, work, retries, locked, boots, critical, globals, unsubs, sent, late, excused>>
  BY Zenon DEF Deliver, table, queueVars, prefVars, mailVars
<1>5. \A m \in q.todo : job[m] = "absent"
  BY <1>3, <1>4, InRequest, Zenon DEF Filing
<1> HIDE DEF q
<1> QED
  BY <1>2, <1>3, <1>4, <1>5, InRequest, Requesting, Zenon

LEMMA EnqueueStep == ASSUME IndInv, NEW r \in Requests, Enqueue(r) PROVE IndInv'
<1> DEFINE o == req[r]
<1>1. PICK n \in o.todo : /\ req' = [req EXCEPT ![r].pc = "find", ![r].todo = @ \ {n}, ![r].cur = n]
                          /\ job' = [job EXCEPT ![n] = "queued"]
  BY Zenon DEF Enqueue
<1> DEFINE q == [o EXCEPT !.pc = "find", !.todo = @ \ {n}, !.cur = n]
<1>2. o \in RType /\ Filing(r) /\ o.todo \subseteq MessagesOf[r] /\ MessagesOf[r] \subseteq Messages
  BY InRequest, Zenon DEF Filing
<1>3. req' = [req EXCEPT ![r] = q] /\ n \in Messages /\ job[n] = "absent"
  BY <1>1, <1>2, Zenon DEF Filing
<1>4. /\ q \in RType /\ q.pc = "find" /\ q.wrote = o.wrote /\ q.todo = o.todo \ {n} /\ q.cur = n
  BY <1>2, <1>3, Zenon DEF RType, RequestPC
<1>5. /\ o.pc = "enqueue"
      /\ UNCHANGED <<msg, work, retries, locked, boots, critical, globals, unsubs, sent, late, excused>>
  BY Zenon DEF Enqueue, table, prefVars, mailVars
<1>6. /\ job' \in [Messages -> {"absent", "queued", "gone"}]
      /\ \A m \in Messages : job'[m] = IF m = n THEN "queued" ELSE job[m]
  BY <1>1, InRequest, Zenon
<1> HIDE DEF q
<1>7. \A m \in q.todo : job'[m] = "absent"
  BY <1>2, <1>4, <1>6, Zenon DEF Filing
<1>8. q.wrote \subseteq MessagesOf[r] /\ q.todo \subseteq MessagesOf[r] /\ q.cur \in MessagesOf[r]
  BY <1>2, <1>4, Zenon DEF Filing
<1>9. /\ \A m \in Messages : \/ job'[m] = job[m]
                             \/ job[m] = "absent" /\ job'[m] = "queued" /\ m \in MessagesOf[r]
      /\ \A m \in Messages : msg'[m] = msg[m]
      /\ o.pc \notin {"accepted", "refused"} /\ q.pc \notin {"idle", "accepted", "refused"}
  BY <1>2, <1>3, <1>4, <1>5, <1>6, Zenon
<1>10. msg' \in [Messages -> Status \cup {None}]
  BY <1>5, InRequest, Zenon
<1> QED
  BY <1>3, <1>4, <1>5, <1>6, <1>7, <1>8, <1>9, <1>10, Requesting, ZenonT(20)

LEMMA FindInTransactionStep ==
    ASSUME IndInv, NEW r \in Requests, FindInTransaction(r) PROVE IndInv'
<1> DEFINE o == req[r]
           first == o.todo \cup {o.cur} = MessagesOf[r]
           snapshot == IF first THEN {m \in Messages : msg[m] # None} ELSE o.seen
           pc == IF o.cur \in snapshot THEN "update" ELSE "insert"
           q == [o EXCEPT !.pc = pc, !.seen = snapshot]
<1>1. o \in RType /\ Filing(r) /\ MessagesOf[r] \subseteq Messages
  BY InRequest, Zenon
<1>2. /\ req' = [req EXCEPT ![r] = q] /\ o.pc = "find"
      /\ UNCHANGED <<msg, job, work, retries, locked, boots, critical, globals, unsubs, sent, late, excused>>
  BY Zenon DEF FindInTransaction, table, queueVars, prefVars, mailVars
<1>3. snapshot \subseteq Messages /\ pc \in {"update", "insert"}
  BY <1>1, Zenon DEF RType
<1> HIDE DEF snapshot, pc
<1>4. /\ q \in RType /\ q.pc = pc /\ q.wrote = o.wrote /\ q.todo = o.todo /\ q.cur = o.cur
  BY <1>1, <1>3, Zenon DEF RType, RequestPC
<1> HIDE DEF q
<1>5. /\ q.wrote \subseteq MessagesOf[r] /\ q.todo \subseteq MessagesOf[r] /\ q.cur \in MessagesOf[r]
      /\ \A m \in q.todo : job[m] = "absent"
  BY <1>1, <1>2, <1>4, Zenon DEF Filing
<1> QED
  BY <1>1, <1>2, <1>3, <1>4, <1>5, InRequest, Requesting, Zenon

LEMMA WriteInTransactionStep ==
    ASSUME IndInv, NEW r \in Requests, WriteInTransaction(r) PROVE IndInv'
<1> DEFINE o == req[r]
           W == IF o.pc = "update" /\ msg[o.cur] = None THEN o.wrote ELSE o.wrote \cup {o.cur}
           q == [o EXCEPT !.pc = "enqueue", !.wrote = W]
<1>1. o \in RType /\ Filing(r) /\ MessagesOf[r] \subseteq Messages
  BY InRequest, Zenon
<1>2. /\ req' = [req EXCEPT ![r] = q] /\ o.pc \in {"insert", "update"}
      /\ UNCHANGED <<msg, job, work, retries, locked, boots, critical, globals, unsubs, sent, late, excused>>
  BY Zenon DEF WriteInTransaction, table, queueVars, prefVars, mailVars
<1>3. W \subseteq MessagesOf[r]
  BY <1>1, <1>2, Zenon DEF Filing
<1> HIDE DEF W
<1>4. /\ q \in RType /\ q.pc = "enqueue" /\ q.wrote = W /\ q.todo = o.todo
  BY <1>1, <1>3, Zenon DEF RType, RequestPC
<1> HIDE DEF q
<1>5. q.todo \subseteq MessagesOf[r] /\ \A m \in q.todo : job[m] = "absent"
  BY <1>1, <1>2, <1>4, Zenon DEF Filing
<1> QED
  BY <1>1, <1>2, <1>3, <1>4, <1>5, InRequest, Requesting, Zenon

LEMMA CommitStep == ASSUME IndInv, NEW r \in Requests, Commit(r) PROVE IndInv'
<1>1. PICK pc \in {"accepted", "refused"} : req' = [req EXCEPT ![r] = Closed(pc)]
  BY Zenon DEF Commit
<1>2. Closed(pc) \in RType /\ Closed(pc).pc = pc /\ Closed(pc).todo = {} /\ Closed(pc).wrote = {}
  BY ClosedRequest, Zenon DEF RequestPC
<1>3. /\ req[r].pc = "enqueue"
      /\ msg' = [m \in Messages |-> IF m \in req[r].wrote THEN "queued" ELSE msg[m]]
      /\ UNCHANGED <<job, work, retries, locked, boots, critical, globals, unsubs, sent, late, excused>>
  BY Zenon DEF Commit, queueVars, prefVars, mailVars
<1>4. msg' \in [Messages -> Status \cup {None}]
  BY <1>3, InRequest, Zenon DEF Status
<1>5. \A m \in Messages : msg'[m] = msg[m] \/ (msg'[m] = "queued" /\ m \in req[r].wrote)
  BY <1>3, Zenon
<1> DEFINE q == Closed(pc)
<1> HIDE DEF q
<1>6. /\ q \in RType /\ q.pc = pc /\ q.todo = {} /\ q.wrote = {} /\ req' = [req EXCEPT ![r] = q]
  BY <1>1, <1>2, Zenon DEF q
<1>7. req[r].pc \notin {"accepted", "refused"} /\ job \in [Messages -> {"absent", "queued", "gone"}]
  BY <1>3, InRequest, Zenon
<1> QED
  BY <1>3, <1>4, <1>5, <1>6, <1>7, Requesting, Zenon

LEMMA FailStep == ASSUME IndInv, NEW r \in Requests, Fail(r) PROVE IndInv'
<1> DEFINE q == Closed("refused")
<1>1. q \in RType /\ q.pc = "refused" /\ q.todo = {} /\ q.wrote = {}
  BY ClosedRequest, Zenon DEF RequestPC
<1>2. /\ req' = [req EXCEPT ![r] = q] /\ req[r].pc \notin {"accepted", "refused"}
      /\ UNCHANGED <<msg, job, work, retries, locked, boots, critical, globals, unsubs, sent, late, excused>>
  BY Zenon DEF Fail, Open, table, queueVars, prefVars, mailVars
<1> HIDE DEF q
<1> QED
  BY <1>1, <1>2, InRequest, Requesting, Zenon

\* Statuses grow old and are collected, and nothing else changes.
LEMMA CollectStep ==
    ASSUME IndInv, msg' \in [Messages -> Status \cup {None}],
           \A m \in Messages : msg'[m] \in {msg[m], None},
           UNCHANGED <<req, work, job, retries, locked, boots, critical, globals, unsubs, sent, late, excused>>
    PROVE  IndInv'
<1>1. Types' /\ RequestInv'
  BY Zenon DEF IndInv, Types, RequestInv, Filing, Open
<1>2. WorkInv'
  BY Zenon DEF IndInv, WorkInv, Working, Informed, Backed
<1>3. StatusInv' /\ DeliveredWasSent'
  BY Zenon DEF IndInv, StatusInv, Settled, Ending, DeliveredWasSent, None
<1>4. \A m \in Messages : Armed(m)' = Armed(m) /\ Free(m)' = Free(m)
  BY Zenon DEF Armed, Free
<1>5. CountInv'
  BY <1>4, Zenon DEF IndInv, CountInv
<1> QED
  BY <1>1, <1>2, <1>3, <1>5, Zenon DEF IndInv

LEMMA InitHolds == Init => IndInv
<1> SUFFICES ASSUME Init PROVE IndInv
  BY Zenon
<1>1. /\ Idle("down") \in WType /\ Idle("down").pc = "down" /\ Idle("down").m = None
      /\ Idle("down").status = None
  BY Zenon DEF Idle, WType, WorkerPC, None
<1>2. \A w \in Workers : work[w] = Idle("down")
  BY Zenon DEF Init
<1>3. Closed("idle") \in RType /\ Closed("idle").pc = "idle" /\ Closed("idle").todo = {}
      /\ Closed("idle").wrote = {}
  BY ClosedRequest, Zenon DEF RequestPC
<1>4. \A r \in Requests : req[r] = Closed("idle")
  BY Zenon DEF Init
<1>5. Types
  BY <1>1, <1>3, Zenon DEF Init, Types
<1>6. WorkInv
  BY <1>1, <1>2, Zenon DEF WorkInv, Working, Informed, Backed, None
<1>7. RequestInv
  BY <1>3, <1>4, Constants, Zenon DEF RequestInv, Filing, Open, Init
<1>8. StatusInv /\ CountInv /\ DeliveredWasSent
  BY <1>1, <1>2, Zenon DEF StatusInv, Ending, CountInv, DeliveredWasSent, Init, None
<1> QED
  BY <1>5, <1>6, <1>7, <1>8, Zenon DEF IndInv

LEMMA NextStep == IndInv /\ [Next]_vars => IndInv'
<1> SUFFICES ASSUME IndInv, [Next]_vars PROVE IndInv'
  BY Zenon
<1>1. ASSUME NEW r \in Requests, Deliver(r) \/ RequestStep(r) PROVE IndInv'
  BY <1>1, DeliverStep, EnqueueStep, FindInTransactionStep, WriteInTransactionStep, CommitStep,
     FailStep, Zenon DEF RequestStep
<1>2. ASSUME NEW w \in Workers, Boot(w) \/ Crash(w) \/ WorkerStep(w) PROVE IndInv'
  BY <1>2, BootStep, CrashStep, ReserveStep, PanicStep, RequeueStep, DequeueStep, FailEarlyStep,
     CreateReceiptsStep, LoadUserStep, IsCriticalStep, CheckGlobalStep, CheckUnsubscribeStep,
     PackStep, SendMailStep, FindStatusStep, WriteStatusStep, LoseStatusStep, Zenon DEF WorkerStep
<1>3. msg \in [Messages -> Status \cup {None}]
  BY Zenon DEF IndInv, Types
<1>4. ASSUME NEW m \in Messages, GrowOld(m) PROVE IndInv'
  BY <1>3, <1>4, CollectStep, Zenon DEF GrowOld, queueVars, prefVars, mailVars
<1>5. CASE Collect
  BY <1>3, <1>5, CollectStep, Zenon DEF Collect, queueVars, prefVars, mailVars
<1>6. CASE UNCHANGED vars
  BY <1>3, <1>6, CollectStep, Zenon DEF vars
<1> QED
  BY <1>1, <1>2, <1>4, <1>5, <1>6, ChangeStep, Zenon DEF Next

LEMMA IndInvCorrect == Spec => []IndInv
  BY InitHolds, NextStep, PTL DEF Spec

-----------------------------------------------------------------------------
\* "delivered" is only ever shown for a mail the SMTP server accepted.
THEOREM DeliveredMeansSent == Spec => []DeliveredWasSent
<1>1. IndInv => DeliveredWasSent
  BY Zenon DEF IndInv
<1> QED
  BY <1>1, IndInvCorrect, PTL

\* A mail is repeated by boots and by mails that were wrongly reported as failed,
\* and by nothing else.
THEOREM DuplicatesBounded == Spec => []DuplicatesAccounted
<1>1. IndInv => DuplicatesAccounted
  <2> SUFFICES ASSUME IndInv, NEW m \in Messages PROVE sent[m] <= boots + late[m]
    BY Zenon DEF DuplicatesAccounted
  <2> QED
    BY Counted DEF IndInv, CountInv
<1> QED
  BY <1>1, IndInvCorrect, PTL

\* A message that says "queued" without a job has one of the known reasons.
THEOREM QueuedHasReason == Spec => []QueuedExplained
<1>1. IndInv => QueuedExplained
  BY Zenon DEF IndInv, StatusInv, Ending, Settled, QueuedExplained
<1> QED
  BY <1>1, IndInvCorrect, PTL

\* No attempt goes on against preferences that held throughout it.
THEOREM PreferencesDecide == Spec => []UnsubscribeHonoured
<1>1. IndInv => UnsubscribeHonoured
  BY Zenon DEF IndInv, WorkInv, Working, UnsubscribeHonoured
<1> QED
  BY <1>1, IndInvCorrect, PTL

\* No message is suppressed whose kind was critical throughout the attempt.
THEOREM CriticalGoesOut == Spec => []CriticalNotSuppressed
<1>1. IndInv => CriticalNotSuppressed
  BY Zenon DEF IndInv, WorkInv, Working, CriticalNotSuppressed
<1> QED
  BY <1>1, IndInvCorrect, PTL
-----------------------------------------------------------------------------
(* The retries and the receipts.                                           *)

\* The types that the invariant above does without.
RestTypes ==
    /\ stale \in SUBSET Messages
    /\ retries \in [Messages -> 0 .. RetryLimit]
    /\ lease \in [Messages -> Workers \cup {None}]
    /\ boots \in 0 .. MaxBoots /\ changes \in 0 .. MaxChanges
    /\ globals \in SUBSET Users /\ unsubs \in SUBSET Users
    /\ receipts \in [Users -> Nat] /\ mailed \in [Users -> Nat]

\* A copy that asks for a retry is below the limit.
RetryInv ==
    \A w \in Workers : /\ work[w].count \in 0 .. RetryLimit
                       /\ work[w].pc = "requeue" => work[w].count < RetryLimit

\* The attempts for u that have left a receipt and may still send their mail.
Noted == {"load", "critical", "global", "unsubscribe", "pack", "send"}
Owing(u) == {w \in Workers : work[w].pc \in Noted /\ UserOf[work[w].m] = u}

ReceiptInv == \A u \in Users : mailed[u] + Cardinality(Owing(u)) <= receipts[u]

MoreInv == RestTypes /\ RetryInv /\ ReceiptInv

LEMMA Limits ==
    /\ RetryLimit \in Nat /\ MaxBoots \in Nat /\ MaxChanges \in Nat /\ None \notin Workers
    /\ \A m \in Messages : UserOf[m] \in Users
  BY DeliveryAssumption, Zenon DEF None

\* What the count is made of.
LEMMA OwingTypes ==
    ASSUME MoreInv, NEW u \in Users
    PROVE  /\ Owing(u) \subseteq Workers /\ IsFiniteSet(Owing(u)) /\ Cardinality(Owing(u)) \in Nat
           /\ mailed[u] \in Nat /\ receipts[u] \in Nat
           /\ mailed[u] + Cardinality(Owing(u)) <= receipts[u]
<1>1. Owing(u) \subseteq Workers
  BY Zenon DEF Owing
<1> QED
  BY <1>1, WorkersCounted, Zenon DEF MoreInv, RestTypes, ReceiptInv

\* A step that writes no receipt and has no mail accepted.
LEMMA FewerOwing ==
    ASSUME MoreInv, receipts' = receipts, mailed' = mailed,
           \A q \in Workers : work'[q].pc \in Noted => work[q].pc \in Noted /\ work'[q].m = work[q].m
    PROVE  ReceiptInv'
<1> SUFFICES ASSUME NEW u \in Users
             PROVE  mailed[u] + Cardinality(Owing(u)') <= receipts[u]
  BY Zenon DEF ReceiptInv
<1>1. Owing(u)' \subseteq Owing(u)
  BY Zenon DEF Owing
<1>2. Owing(u) \subseteq Workers
  BY OwingTypes, Zenon
<1>3. Cardinality(Owing(u)') \in Nat /\ Cardinality(Owing(u)') <= Cardinality(Owing(u))
  BY <1>1, <1>2, WorkersCounted, Zenon
<1>4. /\ Cardinality(Owing(u)) \in Nat /\ mailed[u] \in Nat /\ receipts[u] \in Nat
      /\ mailed[u] + Cardinality(Owing(u)) <= receipts[u]
  BY OwingTypes, Zenon
<1> QED
  BY <1>3, <1>4

\* A step that makes no new copy.
LEMMA SameCopies ==
    ASSUME MoreInv,
           \A q \in Workers :
               /\ work'[q].count \in {work[q].count, 0}
               /\ work'[q].pc = "requeue" =>
                    work'[q].count = work[q].count
                    /\ (work[q].pc = "requeue" \/ work[q].count < RetryLimit)
    PROVE  RetryInv'
  BY Limits DEF MoreInv, RetryInv

\* A step of worker w that changes neither receipts nor mails nor rows.
LEMMA PlainStep ==
    ASSUME MoreInv, RestTypes', NEW w \in Workers,
           UNCHANGED <<retries, lease, receipts, mailed>>,
           \A q \in Workers \ {w} : work'[q] = work[q],
           work'[w].pc \in Noted => work[w].pc \in Noted /\ work'[w].m = work[w].m,
           work'[w].count \in {work[w].count, 0},
           work'[w].pc = "requeue" => work'[w].count = work[w].count /\ work[w].count < RetryLimit
    PROVE  MoreInv'
<1>1. ReceiptInv'
  BY FewerOwing, Zenon
<1>2. RetryInv'
  BY SameCopies, Zenon
<1> QED
  BY <1>1, <1>2, Zenon DEF MoreInv

\* A step that no worker's progress depends on.
LEMMA AsideStep ==
    ASSUME MoreInv, RestTypes', UNCHANGED <<retries, lease, receipts, mailed>>,
           \A q \in Workers : work'[q].pc = work[q].pc /\ work'[q].m = work[q].m /\ work'[q].count = work[q].count
    PROVE  MoreInv'
<1>1. ReceiptInv'
  BY FewerOwing, Zenon
<1>2. RetryInv'
  BY SameCopies, Zenon
<1> QED
  BY <1>1, <1>2, Zenon DEF MoreInv

\* Where the paths of an attempt lead.
LEMMA Outcomes ==
    ASSUME NEW w \in Workers
    PROVE  /\ AfterRetry(w) \in {"requeue", "dequeue"} /\ AfterStatus(w) \in {"requeue", "dequeue"}
           /\ AfterRetry(w) = "requeue" => work[w].count < RetryLimit
           /\ AfterStatus(w) = "requeue" => work[w].count < RetryLimit
  BY Zenon DEF AfterRetry, AfterStatus

LEMMA IdlePC == \A pc : Idle(pc).pc = pc /\ Idle(pc).count = 0
  BY Zenon DEF Idle

LEMMA Moved ==
    ASSUME IndInv, NEW w \in Workers
    PROVE  \A pc : Move(w, pc) => /\ \A q \in Workers \ {w} : work'[q] = work[q]
                                 /\ work'[w].pc = pc /\ work'[w].m = work[w].m
                                 /\ work'[w].count = work[w].count
  BY Zenon DEF IndInv, Types, WType, Move

\* The steps of an attempt before the mail is sent, and the status update.
LEMMA AttemptSteps ==
    ASSUME IndInv, MoreInv, NEW w \in Workers,
           \/ FailEarly(w) \/ LoadUser(w) \/ IsCritical(w) \/ CheckGlobal(w) \/ CheckUnsubscribe(w)
           \/ Pack(w) \/ FindStatus(w) \/ WriteStatus(w) \/ LoseStatus(w)
    PROVE  MoreInv'
<1>1. work \in [Workers -> WType]
  BY Zenon DEF IndInv, Types
<1>2. /\ \A q \in Workers \ {w} : work'[q] = work[q]
      /\ work'[w].m = work[w].m /\ work'[w].count = work[w].count
      /\ work'[w].pc \in Noted => work[w].pc \in Noted
      /\ work'[w].pc = "requeue" => work[w].count < RetryLimit
  <2>1. CASE FailEarly(w) \/ LoseStatus(w) \/ WriteStatus(w)
    BY <2>1, Moved, Outcomes, Zenon DEF FailEarly, LoseStatus, WriteStatus, Noted
  <2>2. CASE LoadUser(w)
    BY <1>1, <2>2, ZenonT(30) DEF LoadUser, WType, Noted
  <2>3. CASE IsCritical(w)
    <3>1. CASE Move(w, IF critical THEN "pack" ELSE "global")
      BY <2>3, <3>1, Moved, Zenon DEF IsCritical, Noted
    <3>2. CASE work' = [work EXCEPT ![w].pc = "global", ![w].facts = @ \cup {"kind unread"}]
      BY <1>1, <2>3, <3>2, Zenon DEF IsCritical, WType, Noted
    <3> QED
      BY <2>3, <3>1, <3>2, Zenon DEF IsCritical
  <2>4. CASE CheckGlobal(w) \/ CheckUnsubscribe(w)
    <3>1. CASE Suppress(w)
      BY <1>1, <3>1, Zenon DEF Suppress, WType, Noted
    <3>2. CASE Move(w, "unsubscribe") \/ Move(w, "pack")
      BY <2>4, <3>2, Moved, Zenon DEF CheckGlobal, CheckUnsubscribe, Noted
    <3> QED
      BY <2>4, <3>1, <3>2, Zenon DEF CheckGlobal, CheckUnsubscribe
  <2>5. CASE Pack(w)
    <3>1. CASE Move(w, "send")
      BY <2>5, <3>1, Moved, Zenon DEF Pack, Noted
    <3>2. CASE work' = [work EXCEPT ![w].pc = "find", ![w].status = "failed"]
      BY <1>1, <3>2, Zenon DEF WType, Noted
    <3> QED
      BY <2>5, <3>1, <3>2, Zenon DEF Pack
  <2>6. CASE FindStatus(w)
    <3>1. Move(w, "insert") \/ Move(w, "update")
      BY <2>6, Zenon DEF FindStatus
    <3>2. /\ \A q \in Workers \ {w} : work'[q] = work[q]
          /\ work'[w].pc \in {"insert", "update"} /\ work'[w].m = work[w].m
          /\ work'[w].count = work[w].count
      BY <3>1, Moved, Zenon
    <3> QED
      BY <3>2, Zenon DEF Noted
  <2> QED
    BY <2>1, <2>2, <2>3, <2>4, <2>5, <2>6, Zenon
<1>3. /\ UNCHANGED <<retries, lease, receipts, mailed, boots, changes, globals, unsubs>>
      /\ stale' \subseteq stale
  BY Zenon DEF FailEarly, LoadUser, IsCritical, CheckGlobal, CheckUnsubscribe, Pack, FindStatus,
               WriteStatus, LoseStatus, table, queueVars, prefVars, mailVars
<1>4. RestTypes'
  BY <1>3, Zenon DEF MoreInv, RestTypes
<1> QED
  BY <1>2, <1>3, <1>4, PlainStep, Zenon

\* One receipt more, and one attempt that has left it.
LEMMA CreateReceiptsMore ==
    ASSUME IndInv, MoreInv, NEW w \in Workers, CreateReceipts(w)
    PROVE  MoreInv'
<1>1. /\ \A q \in Workers \ {w} : work'[q] = work[q]
      /\ work[w].pc = "receipt" /\ work'[w].pc \in {"load", "critical"} /\ work'[w].m = work[w].m
      /\ work'[w].count = work[w].count
  <2>1. work[w].pc = "receipt" /\ (Move(w, "load") \/ Move(w, "critical"))
    BY Zenon DEF CreateReceipts
  <2> QED
    BY <2>1, Moved, Zenon
<1>2. PICK v \in Users : v = UserOf[work[w].m]
  BY <1>1, AtWork, Limits, Zenon
<1>3. /\ receipts' = [receipts EXCEPT ![v] = @ + 1]
      /\ UNCHANGED <<stale, retries, lease, mailed, boots, changes, globals, unsubs>>
  BY <1>2, Zenon DEF CreateReceipts, table, queueVars, prefVars, mailVars
<1>4. /\ receipts' \in [Users -> Nat]
      /\ \A u \in Users : receipts'[u] = IF u = v THEN receipts[u] + 1 ELSE receipts[u]
  BY <1>3 DEF MoreInv, RestTypes
<1>5. RestTypes'
  BY <1>3, <1>4, Zenon DEF MoreInv, RestTypes
<1>6. RetryInv'
  BY <1>1, <1>3, SameCopies, Zenon
<1>7. ReceiptInv'
  <2> SUFFICES ASSUME NEW u \in Users
               PROVE  mailed[u] + Cardinality(Owing(u)') <= receipts'[u]
    BY <1>3, Zenon DEF ReceiptInv
  <2>1. /\ Owing(u) \subseteq Workers /\ Cardinality(Owing(u)) \in Nat
        /\ mailed[u] \in Nat /\ receipts[u] \in Nat
        /\ mailed[u] + Cardinality(Owing(u)) <= receipts[u]
    BY OwingTypes, Zenon
  <2>2. CASE u = v
    <3>1. Owing(u)' = Owing(u) \cup {w} /\ w \in Workers \ Owing(u)
      BY <1>1, <1>2, <2>2, Zenon DEF Owing, Noted
    <3>2. Cardinality(Owing(u)') = Cardinality(Owing(u)) + 1
      BY <2>1, <3>1, WorkersCounted, Zenon
    <3> QED
      BY <2>1, <2>2, <3>2, <1>4
  <2>3. CASE u # v
    <3>1. Owing(u)' = Owing(u)
      BY <1>1, <1>2, <2>3, Zenon DEF Owing, Noted
    <3> QED
      BY <2>1, <2>3, <3>1, <1>4, Zenon
  <2> QED
    BY <2>2, <2>3, Zenon
<1> QED
  BY <1>5, <1>6, <1>7, Zenon DEF MoreInv

\* A mail that is accepted is that of an attempt which has left a receipt.
LEMMA SendMailMore ==
    ASSUME IndInv, MoreInv, NEW w \in Workers, SendMail(w)
    PROVE  MoreInv'
<1>1. /\ \A q \in Workers \ {w} : work'[q] = work[q]
      /\ work[w].pc = "send" /\ work'[w].pc = "find" /\ work'[w].m = work[w].m
      /\ work'[w].count = work[w].count
  <2>1. PICK s : work' = [work EXCEPT ![w].pc = "find", ![w].status = s]
    BY Zenon DEF SendMail
  <2>2. work \in [Workers -> WType] /\ work[w].pc = "send"
    BY Zenon DEF SendMail, IndInv, Types
  <2> QED
    BY <2>1, <2>2, Zenon DEF WType
<1>2. PICK v \in Users : v = UserOf[work[w].m]
  BY <1>1, AtWork, Limits, Zenon
<1>3. /\ UNCHANGED <<stale, retries, lease, receipts, boots, changes, globals, unsubs>>
      /\ mailed' = mailed \/ mailed' = [mailed EXCEPT ![v] = @ + 1]
  BY <1>2, Zenon DEF SendMail, table, queueVars, prefVars, mailVars
<1>4. CASE mailed' = mailed
  <2>1. RestTypes'
    BY <1>3, <1>4, Zenon DEF MoreInv, RestTypes
  <2> QED
    BY <1>1, <1>3, <1>4, <2>1, PlainStep, Zenon DEF Noted
<1>5. CASE mailed' = [mailed EXCEPT ![v] = @ + 1]
  <2>1. /\ mailed' \in [Users -> Nat]
        /\ \A u \in Users : mailed'[u] = IF u = v THEN mailed[u] + 1 ELSE mailed[u]
    BY <1>5 DEF MoreInv, RestTypes
  <2>2. RestTypes'
    BY <1>3, <2>1, Zenon DEF MoreInv, RestTypes
  <2>3. RetryInv'
    BY <1>1, <1>3, SameCopies, Zenon
  <2>4. ReceiptInv'
    <3> SUFFICES ASSUME NEW u \in Users
                 PROVE  mailed'[u] + Cardinality(Owing(u)') <= receipts[u]
      BY <1>3, Zenon DEF ReceiptInv
    <3>1. /\ Owing(u) \subseteq Workers /\ Cardinality(Owing(u)) \in Nat
          /\ mailed[u] \in Nat /\ receipts[u] \in Nat
          /\ mailed[u] + Cardinality(Owing(u)) <= receipts[u]
      BY OwingTypes, Zenon
    <3>2. CASE u = v
      <4>1. Owing(u)' = Owing(u) \ {w} /\ w \in Owing(u)
        BY <1>1, <1>2, <3>2, Zenon DEF Owing, Noted
      <4>2. Cardinality(Owing(u)') = Cardinality(Owing(u)) - 1
        BY <3>1, <4>1, WorkersCounted, Zenon
      <4> QED
        BY <3>1, <3>2, <4>2, <2>1
    <3>3. CASE u # v
      <4>1. Owing(u)' = Owing(u)
        BY <1>1, <1>2, <3>3, Zenon DEF Owing, Noted
      <4> QED
        BY <3>1, <3>3, <4>1, <2>1, Zenon
    <3> QED
      BY <3>2, <3>3, Zenon
  <2> QED
    BY <2>2, <2>3, <2>4, Zenon DEF MoreInv
<1> QED
  BY <1>3, <1>4, <1>5, Zenon
\* An attempt begins, with a copy of the row.
LEMMA ReserveMore ==
    ASSUME IndInv, MoreInv, NEW w \in Workers, Reserve(w)
    PROVE  MoreInv'
<1>1. PICK m \in Messages :
        /\ lease' = [lease EXCEPT ![m] = w] /\ work'[w].pc = "receipt" /\ work'[w].count = retries[m]
        /\ \A q \in Workers \ {w} : work'[q] = work[q]
  <2>1. PICK m \in Messages :
          /\ lease' = [lease EXCEPT ![m] = w]
          /\ work' = [work EXCEPT ![w] =
                        [pc |-> "receipt", m |-> m, count |-> retries[m], email |-> Address[m],
                         status |-> None, facts |-> FactsOf(UserOf[m], critical, globals, unsubs)]]
    BY Zenon DEF Reserve
  <2>2. work \in [Workers -> WType]
    BY Zenon DEF IndInv, Types
  <2> QED
    BY <2>1, <2>2, Zenon
<1>2. UNCHANGED <<stale, retries, receipts, mailed, boots, changes, globals, unsubs>>
  BY Zenon DEF Reserve, table, prefVars, mailVars
<1>3. RestTypes'
  BY <1>1, <1>2, Zenon DEF MoreInv, RestTypes
<1>4. RetryInv'
  BY <1>1, Zenon DEF MoreInv, RestTypes, RetryInv
<1>5. ReceiptInv'
  BY <1>1, <1>2, FewerOwing, Zenon DEF Noted
<1> QED
  BY <1>3, <1>4, <1>5, Zenon DEF MoreInv

\* An attempt ends, and the row is nobody's.
LEMMA RequeueMore ==
    ASSUME IndInv, MoreInv, NEW w \in Workers, Requeue(w) \/ Dequeue(w)
    PROVE  MoreInv'
<1>1. /\ work[w].pc \in {"requeue", "dequeue"} /\ lease[work[w].m] = w
      /\ work'[w] = Idle("idle") /\ \A q \in Workers \ {w} : work'[q] = work[q]
  BY Zenon DEF Requeue, Dequeue, HasLease, IndInv, Types
<1>2. PICK m \in Messages : m = work[w].m
  BY <1>1, AtWork, Zenon
<1>3. /\ UNCHANGED <<stale, receipts, mailed, boots, changes, globals, unsubs>>
      /\ lease' = [lease EXCEPT ![m] = None]
      /\ \/ retries' = retries
         \/ work[w].pc = "requeue" /\ retries' = [retries EXCEPT ![m] = work[w].count + 1]
  <2>1. CASE Requeue(w)
    BY <1>2, <2>1, Zenon DEF Requeue, table, prefVars, mailVars
  <2>2. CASE Dequeue(w)
    BY <1>2, <2>2, Zenon DEF Dequeue, table, prefVars, mailVars
  <2> QED
    BY <2>1, <2>2, Zenon
<1>4. work'[w].pc = "idle" /\ work'[w].count = 0
  BY <1>1, IdlePC, Zenon
<1>5. lease' \in [Messages -> Workers \cup {None}]
  BY <1>3, Zenon DEF MoreInv, RestTypes
<1>6. retries' \in [Messages -> 0 .. RetryLimit]
  <2>1. CASE retries' = retries
    BY <2>1, Zenon DEF MoreInv, RestTypes
  <2>2. CASE work[w].pc = "requeue" /\ retries' = [retries EXCEPT ![m] = work[w].count + 1]
    <3>1. work[w].count < RetryLimit /\ work[w].count \in 0 .. RetryLimit
      BY <2>2, Zenon DEF MoreInv, RetryInv
    <3>2. work[w].count + 1 \in 0 .. RetryLimit
      BY <3>1, Limits
    <3> QED
      BY <2>2, <3>2, Zenon DEF MoreInv, RestTypes
  <2> QED
    BY <1>3, <2>1, <2>2, Zenon
<1>7. RestTypes'
  BY <1>3, <1>5, <1>6, Zenon DEF MoreInv, RestTypes
<1>8. RetryInv'
  BY <1>1, <1>4, SameCopies, Zenon
<1>9. ReceiptInv'
  BY <1>1, <1>3, <1>4, FewerOwing, Zenon DEF Noted
<1> QED
  BY <1>7, <1>8, <1>9, Zenon DEF MoreInv

\* A worker without a job.
LEMMA DownMore ==
    ASSUME IndInv, MoreInv, NEW w \in Workers, Boot(w) \/ Crash(w) \/ Panic(w)
    PROVE  MoreInv'
<1>1. /\ UNCHANGED <<stale, retries, lease, receipts, mailed, changes, globals, unsubs>>
      /\ boots' = boots \/ (boots < MaxBoots /\ boots' = boots + 1)
  <2>1. CASE Boot(w)
    BY <2>1, Zenon DEF Boot, table, prefVars, mailVars
  <2>2. CASE Crash(w)
    BY <2>2, Zenon DEF Crash, table, queueVars, prefVars, mailVars
  <2>3. CASE Panic(w)
    BY <2>3, Zenon DEF Panic, table, queueVars, prefVars, mailVars
  <2> QED
    BY <2>1, <2>2, <2>3, Zenon
<1>2. boots' \in 0 .. MaxBoots
  BY <1>1, Limits DEF MoreInv, RestTypes
<1>3. RestTypes'
  BY <1>1, <1>2, Zenon DEF MoreInv, RestTypes
<1>4. /\ work'[w] \in {Idle("down"), Idle("idle")}
      /\ \A q \in Workers \ {w} : work'[q] = work[q]
  BY Zenon DEF Boot, Crash, Panic, IndInv, Types
<1>5. work'[w].pc \notin Noted /\ work'[w].pc # "requeue" /\ work'[w].count = 0
  <2>1. work'[w].pc \in {"down", "idle"} /\ work'[w].count = 0
    BY <1>4, IdlePC, Zenon
  <2> QED
    BY <2>1, Zenon DEF Noted
<1> QED
  BY <1>1, <1>3, <1>4, <1>5, PlainStep, Zenon

\* The requests, the age of a status and the collector.
LEMMA RequestMore ==
    ASSUME MoreInv,
           \/ \E r \in Requests : Deliver(r) \/ RequestStep(r)
           \/ \E m \in Messages : GrowOld(m)
           \/ Collect
           \/ UNCHANGED vars
    PROVE  MoreInv'
<1>1. /\ UNCHANGED <<work, retries, lease, receipts, mailed, boots, changes, globals, unsubs>>
      /\ stale' \subseteq stale \/ \E m \in Messages : stale' = stale \cup {m}
  BY Zenon DEF RequestStep, Deliver, Enqueue, FindInTransaction, WriteInTransaction, Commit, Fail,
               GrowOld, Collect, vars, table, queueVars, prefVars, mailVars
<1>2. RestTypes'
  BY <1>1, Zenon DEF MoreInv, RestTypes
<1> QED
  BY <1>1, <1>2, AsideStep, Zenon

LEMMA ChangeMore == ASSUME IndInv, MoreInv, Change PROVE MoreInv'
<1>1. /\ UNCHANGED <<stale, retries, lease, receipts, mailed, boots>>
      /\ changes < MaxChanges /\ changes' = changes + 1
      /\ globals' \in SUBSET Users /\ unsubs' \in SUBSET Users
  BY Zenon DEF Change, table, queueVars, mailVars, MoreInv, RestTypes
<1>2. changes' \in 0 .. MaxChanges
  BY <1>1, Limits DEF MoreInv, RestTypes
<1>3. RestTypes'
  BY <1>1, <1>2, Zenon DEF MoreInv, RestTypes
<1>4. \A q \in Workers : work'[q].pc = work[q].pc /\ work'[q].m = work[q].m /\ work'[q].count = work[q].count
  BY Zenon DEF Change, IndInv, Types, WType
<1> QED
  BY <1>1, <1>3, <1>4, AsideStep, Zenon

LEMMA MoreInit == Init => MoreInv
<1> SUFFICES ASSUME Init PROVE MoreInv
  BY Zenon
<1>1. RestTypes
  BY Limits DEF Init, RestTypes
<1>2. \A w \in Workers : work[w].pc = "down" /\ work[w].count = 0
  BY Zenon DEF Init, Idle
<1>3. RetryInv
  BY <1>2, Limits DEF RetryInv
<1>4. \A u \in Users : Owing(u) = {}
  BY <1>2, Zenon DEF Owing, Noted
<1>5. ReceiptInv
  BY <1>4, FS_EmptySet DEF ReceiptInv, Init
<1> QED
  BY <1>1, <1>3, <1>5, Zenon DEF MoreInv

LEMMA MoreStep == IndInv /\ MoreInv /\ [Next]_vars => MoreInv'
<1> SUFFICES ASSUME IndInv, MoreInv, [Next]_vars PROVE MoreInv'
  BY Zenon
<1>1. ASSUME NEW w \in Workers, Boot(w) \/ Crash(w) \/ WorkerStep(w) PROVE MoreInv'
  BY <1>1, AttemptSteps, CreateReceiptsMore, SendMailMore, ReserveMore, RequeueMore, DownMore, Zenon
  DEF WorkerStep
<1> QED
  BY <1>1, RequestMore, ChangeMore, Zenon DEF Next

LEMMA MoreInvCorrect == Spec => []MoreInv
  BY MoreInit, MoreStep, IndInvCorrect, PTL DEF Spec

\* Every variable keeps its type; above all, no job is retried more often than
\* the limit allows, however its attempts interleave.
THEOREM TypeCorrect == Spec => []TypeOK
<1>1. IndInv /\ MoreInv => TypeOK
  <2> DEFINE Bounded == [pc: WorkerPC, m: Messages \cup {None}, count: 0 .. RetryLimit,
                         email: {"none", "valid", "invalid"},
                         status: Status \cup {None, "suppressed"}, facts: SUBSET Fact]
  <2> SUFFICES ASSUME IndInv, MoreInv PROVE TypeOK
    BY Zenon
  <2>1. ASSUME NEW w \in Workers PROVE work[w] \in Bounded
    <3>1. work[w] \in WType /\ work[w].count \in 0 .. RetryLimit
      BY Zenon DEF IndInv, Types, MoreInv, RetryInv
    <3> QED
      BY <3>1, Zenon DEF WType
  <2>2. work \in [Workers -> Bounded]
    BY <2>1, Zenon DEF IndInv, Types
  <2> QED
    BY <2>2, Zenon DEF IndInv, MoreInv, Types, RestTypes, RType, TypeOK
<1> QED
  BY <1>1, IndInvCorrect, MoreInvCorrect, PTL

\* A user has at least as many receipts as mails: the receipt comes first, and
\* an attempt sends one mail for it at most.
THEOREM ReceiptsFirst == Spec => []ReceiptForEveryMail
<1>1. MoreInv => ReceiptForEveryMail
  <2> SUFFICES ASSUME MoreInv, NEW u \in Users PROVE mailed[u] <= receipts[u]
    BY Zenon DEF ReceiptForEveryMail
  <2>1. /\ Cardinality(Owing(u)) \in Nat /\ mailed[u] \in Nat /\ receipts[u] \in Nat
        /\ mailed[u] + Cardinality(Owing(u)) <= receipts[u]
    BY OwingTypes, Zenon
  <2> QED
    BY <2>1
<1> QED
  BY <1>1, MoreInvCorrect, PTL
=============================================================================
