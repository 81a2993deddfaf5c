---------------------------- MODULE Preferences ----------------------------
(***************************************************************************)
(* The preferences of one user: PATCH /user_preferences (by the user or by *)
(* an administrator), GET /user_preferences, and the worker that decides   *)
(* whether a mail is wanted (web/handlers/update_preferences.go,           *)
(* web/services/preference_updater.go, models/unsubscribes_repo.go,        *)
(* models/global_unsubscribes_repo.go, web/services/preferences_finder.go, *)
(* shouldDeliver of postal/delivery_worker.go).                            *)
(*                                                                         *)
(* Every statement is one action.  An update is one InnoDB transaction at  *)
(* REPEATABLE READ: it reads the snapshot of its first SELECT, while its   *)
(* INSERTs and DELETEs act on the committed rows and lock them until the   *)
(* commit, an INSERT first with the shared lock of its duplicate check.    *)
(* GET and the workers read statement by statement.  All rows belong to    *)
(* one user, since every statement is for one user.                        *)
(***************************************************************************)
EXTENDS Integers

CONSTANTS
    Kinds,      \* notifications, each with its client
    Clients,
    ClientOf,   \* ClientOf[k]: the client kind k belongs to
    Updates,    \* PATCH requests, each handled once
    Asks,       \* what they may ask for
    Readers,    \* GET requests and delivery attempts, each handled once
    MaxChanges  \* bound: changes of the kinds by registrations

Global == "global"
Settings == Kinds \cup {Global}

\* A row's primary key, named after the update that inserted the row; Absent
\* when there is no row.
Absent == "absent"
Keys == Updates \cup {"old", Absent}

\* An update says "on" or "off" globally, and "on", "off" or nothing per kind.
Ask == {f \in [Settings -> {"on", "off", "none"}] : f[Global] # "none"}

ASSUME PreferencesAssumption ==
    /\ Global \notin Kinds
    /\ "old" \notin Updates /\ Absent \notin Updates
    /\ ClientOf \in [Kinds -> Clients]
    /\ Asks \subseteq Ask
    /\ MaxChanges \in Nat

VARIABLES
    kinds,    \* `kinds`: Kinds -> "absent" | "ordinary" | "critical"
    rows,     \* `unsubscribes`, `global_unsubscribes`: Settings -> key of the row
    clients,  \* `receipts`: the clients the user has receipts of
    upd,      \* Updates -> the progress of its handler
    reader,   \* Readers -> the progress of a GET or of shouldDeliver
    changes,  \* number of changes of the kinds so far
    promise,  \* history: what accepted updates entitle the user to expect
    ordinary  \* history: kinds that were ordinary at some time

vars == <<kinds, rows, clients, upd, reader, changes, promise, ordinary>>

Closed == {"idle", "accepted", "refused"}
Open(p) == upd[p].pc \notin Closed

\* `view`: the rows of the snapshot with the transaction's own writes, `sees`:
\* the ordinary kinds of the snapshot, `wrote`: the rows it wrote and locks.
\* History: `overlap`, the settings others changed since the snapshot.
Idle(pc) ==
    [pc |-> pc, asked |-> [x \in Settings |-> "none"], todo |-> {}, cur |-> Global,
     view |-> [x \in Settings |-> Absent], sees |-> {},
     wrote |-> {}, overlap |-> {}]

\* Another transaction has written the row of setting x, or holds a shared lock
\* on its key.
Locked(p, x) == \E q \in Updates \ {p} : x \in upd[q].wrote
Shared(p, x) == \E q \in Updates \ {p} : upd[q].pc = "shared" /\ upd[q].cur = x

\* What can be said of the settings X: which kinds are critical and which are
\* not, and which settings need not be off and need not be on.
Facts(X, ks, pr) ==
    [critical |-> {k \in X \cap Kinds : ks[k] = "critical"},
     mild |-> {k \in X \cap Kinds : ks[k] # "critical"},
     on |-> {x \in X : pr[x] # "off"}, off |-> {x \in X : pr[x] # "on"}]

Resting == {"idle", "deliver", "suppress", "listed"}

\* History: what was true at some moment of a reader's work.
Witness(r, ks, pr) ==
    IF reader[r].pc \in Resting THEN reader[r]
    ELSE LET now == Facts(reader[r].about, ks, pr) IN
         [reader[r] EXCEPT !.ever.critical = @ \cup now.critical, !.ever.mild = @ \cup now.mild,
                           !.ever.on = @ \cup now.on, !.ever.off = @ \cup now.off]

-----------------------------------------------------------------------------
(* PATCH: UpdatePreferences.Execute and PreferenceUpdater.Execute.         *)

\* Mutant of Todo: a subscription leaves the row alone.
TodoKeep(asked, view, x) ==
    IF asked[x] = "off" /\ view[x] = Absent THEN "insert" ELSE "loop"

\* What is done about setting x once its row has been looked up: nothing, if the
\* row is as asked.
Todo(asked, view, x) ==
    CASE asked[x] = "off" /\ view[x] = Absent -> "insert"
      [] asked[x] = "on" /\ view[x] # Absent -> "delete"
      [] OTHER -> "loop"

\* Mutant of Update: to be off globally is one more setting of the loop, which
\* begins with any of them.
UpdateInAnyOrder(p) ==
    LET sees == {k \in Kinds : kinds[k] = "ordinary"} \cup {Global}
        First(asked) == IF asked[Global] = "on" THEN {Global} ELSE {x \in sees : asked[x] # "none"}
    IN
    /\ upd[p].pc = "idle"
    /\ \E asked \in Asks : \E x \in First(asked) :
         upd' = [upd EXCEPT ![p] = [Idle(Todo(asked, rows, x)) EXCEPT
                   !.asked = asked, !.cur = x, !.todo = {y \in Settings \ {x} : asked[y] # "none"},
                   !.view = rows, !.sees = sees]]
    /\ UNCHANGED <<kinds, rows, clients, reader, changes, promise, ordinary>>

\* The body is valid and the transaction begins.  Its first statement, which
\* takes the snapshot, is the find of GlobalUnsubscribesRepo.Set.
Update(p) ==
    /\ upd[p].pc = "idle"
    /\ \E asked \in Asks :
         upd' = [upd EXCEPT ![p] = [Idle(Todo(asked, rows, Global)) EXCEPT
                   !.asked = asked, !.todo = {k \in Kinds : asked[k] # "none"},
                   !.view = rows, !.sees = {k \in Kinds : kinds[k] = "ordinary"}]]
    /\ UNCHANGED <<kinds, rows, clients, reader, changes, promise, ordinary>>

\* Mutant of Refuse: what was written so far is kept.
RefuseHalfway(p) ==
    /\ rows' = [x \in Settings |-> IF x \in upd[p].wrote THEN upd[p].view[x] ELSE rows[x]]
    /\ upd' = [upd EXCEPT ![p] = Idle("refused")]
    /\ UNCHANGED <<kinds, clients, reader, changes, promise, ordinary>>

\* Rollback, and an answer that is not 204.
Refuse(p) ==
    /\ upd' = [upd EXCEPT ![p] = Idle("refused")]
    /\ UNCHANGED <<kinds, rows, clients, reader, changes, promise, ordinary>>

\* Mutant of FindKind: a critical kind can be unsubscribed from.
FindKindAny(p) ==
    /\ upd[p].pc = "loop"
    /\ \E k \in upd[p].todo :
         upd' = [upd EXCEPT ![p].pc = Todo(upd[p].asked, upd[p].view, k), ![p].cur = k,
                            ![p].todo = @ \ {k}]
    /\ UNCHANGED <<kinds, rows, clients, reader, changes, promise, ordinary>>

\* The next preference, in the order of a map: its kind must exist and not be
\* critical (MissingKindOrClientError, CriticalKindError).  Then comes the find
\* of Upsert or Destroy.  Both statements read the snapshot, so that nothing can
\* come between them.
FindKind(p) ==
    /\ upd[p].pc = "loop"
    /\ \E k \in upd[p].todo :
         IF k \in upd[p].sees
         THEN /\ upd' = [upd EXCEPT ![p].pc = Todo(upd[p].asked, upd[p].view, k), ![p].cur = k,
                                    ![p].todo = @ \ {k}]
              /\ UNCHANGED <<kinds, rows, clients, reader, changes, promise, ordinary>>
         ELSE Refuse(p)

\* INSERT, up to the shared lock that InnoDB takes on the key to look for a
\* duplicate: it waits for who has written the row.  A key whose row was deleted
\* or rolled back is still there to be locked until it is purged; here an INSERT
\* always finds a key to lock.
Share(p) ==
    /\ upd[p].pc = "insert"
    /\ ~Locked(p, upd[p].cur)
    /\ upd' = [upd EXCEPT ![p].pc = "shared"]
    /\ UNCHANGED <<kinds, rows, clients, reader, changes, promise, ordinary>>

\* The rest of the INSERT.  A row that was committed since the snapshot makes it
\* a duplicate (DuplicateRecordError, or the raw error for the global setting);
\* otherwise it waits for the shared locks of others.
Insert(p) ==
    LET x == upd[p].cur IN
    /\ upd[p].pc = "shared"
    /\ IF rows[x] = Absent
       THEN /\ ~Locked(p, x) /\ ~Shared(p, x)
            /\ upd' = [upd EXCEPT ![p].pc = "loop", ![p].view[x] = p, ![p].wrote = @ \cup {x}]
            /\ UNCHANGED <<kinds, rows, clients, reader, changes, promise, ordinary>>
       ELSE Refuse(p)

\* DELETE by primary key, which matches nothing if the row was deleted since.
Delete(p) ==
    LET x == upd[p].cur IN
    /\ upd[p].pc = "delete"
    /\ ~Locked(p, x) /\ ~Shared(p, x)
    /\ upd' = IF rows[x] = upd[p].view[x]
              THEN [upd EXCEPT ![p].pc = "loop", ![p].view[x] = Absent, ![p].wrote = @ \cup {x}]
              ELSE [upd EXCEPT ![p].pc = "loop"]
    /\ UNCHANGED <<kinds, rows, clients, reader, changes, promise, ordinary>>

\* Commit, and 204 (or an error, if the reply of the database is lost).  What
\* was asked is promised, but for settings the update left alone because its
\* snapshot had them as asked, or had a row that is gone now, while others who
\* changed them since were promised the opposite.
Commit(p) ==
    LET u == upd[p] IN
    /\ u.pc = "loop" /\ u.todo = {}
    /\ rows' = [x \in Settings |-> IF x \in u.wrote THEN u.view[x] ELSE rows[x]]
    /\ upd' = [q \in Updates |->
                 IF q = p THEN Idle("accepted")
                 ELSE IF Open(q) THEN [upd[q] EXCEPT !.overlap = @ \cup u.wrote]
                 ELSE upd[q]]
    /\ promise' = [x \in Settings |->
                     IF u.asked[x] = "none" THEN promise[x]
                     ELSE IF x \in u.overlap \ u.wrote /\ promise[x] # u.asked[x] THEN "any"
                     ELSE u.asked[x]]
    /\ reader' = [r \in Readers |-> Witness(r, kinds, promise')]
    /\ UNCHANGED <<kinds, clients, changes, ordinary>>

\* Any statement may fail, and the process may die.
Fail(p) == Open(p) /\ Refuse(p)

\* InnoDB ends a cycle of transactions that wait for each other's locks.  The
\* transactions on cycles, or between two, are those of the sets in which each
\* waits for one and is waited for.
Waits(p, q) ==
    /\ p # q
    /\ \/ upd[p].pc \in {"insert", "delete"} /\ upd[p].cur \in upd[q].wrote
       \/ /\ upd[p].pc \in {"shared", "delete"} /\ upd[q].pc = "shared"
          /\ upd[p].cur = upd[q].cur

Deadlocked(p) ==
    \E S \in SUBSET Updates :
        p \in S /\ \A q \in S : (\E s \in S : Waits(q, s)) /\ (\E s \in S : Waits(s, q))

Victim(p) == Deadlocked(p) /\ Refuse(p)

-----------------------------------------------------------------------------
(* A delivery attempt: shouldDeliver.                                      *)

\* A reader starts: `about` are the settings it is about, and `ever` what is
\* true of them so far.
Reading(pc, k, X) ==
    [pc |-> pc, kind |-> k, about |-> X, failed |-> FALSE, unsubscribed |-> FALSE,
     listed |-> {}, email |-> {}, ever |-> Facts(X, kinds, promise)]

MoveTo(r, pc) == reader' = [reader EXCEPT ![r].pc = pc]

\* The job is taken, and the receipt written.
Attempt(r) ==
    /\ reader[r].pc = "idle"
    /\ \E k \in Kinds :
         /\ reader' = [reader EXCEPT ![r] = Reading("critical", k, {Global, k})]
         /\ clients' = clients \cup {ClientOf[k]}
    /\ UNCHANGED <<kinds, rows, upd, changes, promise, ordinary>>

\* Mutant of IsCritical: every kind is subject to the preferences.
IsCriticalIgnored(r) ==
    /\ reader[r].pc = "critical"
    /\ MoveTo(r, "global")
    /\ UNCHANGED <<kinds, rows, clients, upd, changes, promise, ordinary>>

\* isCritical; an error counts as "not critical".
IsCritical(r) ==
    /\ reader[r].pc = "critical"
    /\ \/ MoveTo(r, IF kinds[reader[r].kind] = "critical" THEN "deliver" ELSE "global")
       \/ reader' = [reader EXCEPT ![r].pc = "global", ![r].failed = TRUE]
    /\ UNCHANGED <<kinds, rows, clients, upd, changes, promise, ordinary>>

\* Mutant of ReadSetting: only the global setting counts.
ReadSettingGlobal(r) ==
    /\ reader[r].pc \in {"global", "unsubscribe"}
    /\ MoveTo(r, IF reader[r].pc = "unsubscribe" THEN "deliver"
                 ELSE IF rows[Global] = Absent THEN "unsubscribe" ELSE "suppress")
    /\ UNCHANGED <<kinds, rows, clients, upd, changes, promise, ordinary>>

\* GlobalUnsubscribesRepo.Get, then UnsubscribesRepo.Find: a row, an error or
\* a missing address suppresses the mail.
ReadSetting(r) ==
    LET x == IF reader[r].pc = "global" THEN Global ELSE reader[r].kind
        next == IF x = Global THEN "unsubscribe" ELSE "deliver"
    IN
    /\ reader[r].pc \in {"global", "unsubscribe"}
    /\ \/ MoveTo(r, IF rows[x] = Absent THEN next ELSE "suppress")
       \/ reader' = [reader EXCEPT ![r].pc = "suppress", ![r].failed = TRUE]
    /\ UNCHANGED <<kinds, rows, clients, upd, changes, promise, ordinary>>

-----------------------------------------------------------------------------
(* GET: PreferencesFinder.Find.                                            *)

\* GlobalUnsubscribesRepo.Get.
GetGlobal(r) ==
    /\ reader[r].pc = "idle"
    /\ reader' = [reader EXCEPT ![r] =
                    [Reading("kinds", Global, Settings) EXCEPT !.unsubscribed = rows[Global] # Absent]]
    /\ UNCHANGED <<kinds, rows, clients, upd, changes, promise, ordinary>>

\* Mutant of GetKinds: critical kinds are listed as well.
GetKindsAll(r) ==
    /\ reader[r].pc = "kinds"
    /\ reader' = [reader EXCEPT ![r].pc = "unsubscribes",
                    ![r].listed = {k \in Kinds : kinds[k] # "absent" /\ ClientOf[k] \in clients}]
    /\ UNCHANGED <<kinds, rows, clients, upd, changes, promise, ordinary>>

\* FindNonCriticalPreferences: the kinds of clients that have sent something.
GetKinds(r) ==
    /\ reader[r].pc = "kinds"
    /\ reader' = [reader EXCEPT ![r].pc = "unsubscribes",
                    ![r].listed = {k \in Kinds : kinds[k] = "ordinary" /\ ClientOf[k] \in clients}]
    /\ UNCHANGED <<kinds, rows, clients, upd, changes, promise, ordinary>>

\* FindAllByUserID, and the flags of the kinds.
GetUnsubscribes(r) ==
    /\ reader[r].pc = "unsubscribes"
    /\ reader' = [reader EXCEPT ![r].pc = "listed",
                    ![r].email = {k \in reader[r].listed : rows[k] = Absent}]
    /\ UNCHANGED <<kinds, rows, clients, upd, changes, promise, ordinary>>

\* A failed statement ends the GET.
GetFails(r) ==
    /\ reader[r].pc \in {"kinds", "unsubscribes"}
    /\ reader' = [reader EXCEPT ![r] = Reading("idle", Global, {})]
    /\ UNCHANGED <<kinds, rows, clients, upd, changes, promise, ordinary>>

-----------------------------------------------------------------------------
\* A registration adds, removes or changes a kind (see Registry).
Change ==
    /\ changes < MaxChanges
    /\ changes' = changes + 1
    /\ \E k \in Kinds : \E c \in {"absent", "ordinary", "critical"} \ {kinds[k]} :
         /\ kinds' = [kinds EXCEPT ![k] = c]
         /\ ordinary' = IF c = "ordinary" THEN ordinary \cup {k} ELSE ordinary
    /\ reader' = [r \in Readers |-> Witness(r, kinds', promise)]
    /\ UNCHANGED <<rows, clients, upd, promise>>

\* Some kinds are registered, the user may have unsubscribed from them, and
\* some clients have sent the user something.
Init ==
    /\ kinds \in [Kinds -> {"ordinary", "critical"}]
    /\ ordinary = {k \in Kinds : kinds[k] = "ordinary"}
    /\ \E off \in SUBSET ({Global} \cup ordinary) :
         rows = [x \in Settings |-> IF x \in off THEN "old" ELSE Absent]
    /\ clients \in SUBSET Clients
    /\ upd = [p \in Updates |-> Idle("idle")]
    /\ promise = [x \in Settings |-> "any"]
    /\ reader = [r \in Readers |-> Reading("idle", Global, {})]
    /\ changes = 0

ReaderStep(r) ==
    \/ Attempt(r) \/ IsCritical(r) \/ ReadSetting(r)
    \/ GetGlobal(r) \/ GetKinds(r) \/ GetUnsubscribes(r) \/ GetFails(r)

Next ==
    \/ \E p \in Updates : 
         \/ Update(p) \/ FindKind(p) \/ Share(p) \/ Insert(p) \/ Delete(p)
         \/ Commit(p) \/ Fail(p) \/ Victim(p)
    \/ \E r \in Readers : ReaderStep(r)
    \/ Change

Spec == Init /\ [][Next]_vars

-----------------------------------------------------------------------------
(* Properties.                                                             *)

Facet == [critical: SUBSET Kinds, mild: SUBSET Kinds, on: SUBSET Settings, off: SUBSET Settings]

\* Every variable has the type its declaration gives it.
TypeOK ==
    /\ kinds \in [Kinds -> {"absent", "ordinary", "critical"}]
    /\ rows \in [Settings -> Keys]
    /\ clients \in SUBSET Clients
    /\ upd \in [Updates -> [pc: Closed \cup {"loop", "insert", "shared", "delete"},
                            asked: [Settings -> {"on", "off", "none"}],
                            todo: SUBSET Kinds, cur: Settings, view: [Settings -> Keys],
                            sees: SUBSET Kinds,
                            wrote: SUBSET Settings, overlap: SUBSET Settings]]
    /\ reader \in [Readers -> [pc: Resting \cup {"critical", "global", "unsubscribe", "kinds",
                                                 "unsubscribes"},
                               kind: Settings, about: SUBSET Settings, failed: BOOLEAN, unsubscribed: BOOLEAN,
                               listed: SUBSET Kinds, email: SUBSET Kinds, ever: Facet]]
    /\ changes \in 0 .. MaxChanges
    /\ promise \in [Settings -> {"on", "off", "any"}]
    /\ ordinary \in SUBSET Kinds

\* What the last accepted update asked of a setting is what the table says,
\* unless that update wrote nothing about it and another one changed the setting
\* while it ran, to the opposite: a duplicate key, a rollback or a row written by
\* several never leaves an accepted request without effect.
PromiseKept ==
    \A x \in Settings :
        /\ promise[x] = "off" => rows[x] # Absent
        /\ promise[x] = "on" => rows[x] = Absent

\* All or nothing: the rows change only when an update commits, and then each
\* setting it names is as asked, or was left alone and changed by another one
\* meanwhile, and no other setting changes.  In particular a refusal halfway through the
\* preferences (a missing or critical kind, an error) leaves no trace.
Atomic ==
    [][rows' # rows => \E p \in Updates :
         /\ Open(p) /\ upd'[p].pc = "accepted"
         /\ \A x \in Settings :
              CASE upd[p].asked[x] = "none" -> rows'[x] = rows[x]
                [] upd[p].asked[x] = "off" -> rows'[x] # Absent \/ x \in upd[p].overlap \ upd[p].wrote
                [] upd[p].asked[x] = "on" -> rows'[x] = Absent \/ x \in upd[p].overlap \ upd[p].wrote]_vars

\* Nobody is unsubscribed from a kind that has always been critical.
UnsubscribeAllowed ==
    \A k \in Kinds : rows[k] # Absent => k \in ordinary

\* The worker against the updates: a mail is sent only if its kind was
\* critical at some moment of the attempt, or neither the global setting nor
\* the one of the kind was promised to be off all along.
OffHonoured ==
    \A r \in Readers : reader[r].pc = "deliver" =>
        \/ reader[r].kind \in reader[r].ever.critical
        \/ {Global, reader[r].kind} \subseteq reader[r].ever.on

\* And a mail is suppressed only if a statement failed, or its kind was not
\* critical at some moment and one of the two settings was not promised to be
\* on all along.
OnHonoured ==
    \A r \in Readers : (reader[r].pc = "suppress" /\ ~reader[r].failed) =>
        /\ reader[r].kind \in reader[r].ever.mild
        /\ {Global, reader[r].kind} \cap reader[r].ever.off # {}

\* GET reads the global setting, the kinds and the unsubscribes one after the
\* other: each of its flags is what was promised at some moment of it, and no
\* kind is offered that was critical all along.
ListingTrue ==
    \A r \in Readers : reader[r].pc = "listed" =>
        LET e == reader[r].ever IN
        /\ Global \in IF reader[r].unsubscribed THEN e.off ELSE e.on
        /\ reader[r].listed \subseteq e.mild
        /\ reader[r].email \subseteq e.on
        /\ reader[r].listed \ reader[r].email \subseteq e.off

\* Updates handle their kinds in any order and can deadlock, but the global
\* setting always comes first: InnoDB sacrifices an update only if it names two
\* kinds, or if it inserts a row that another one inserts at the same time, both
\* past the duplicate check of their INSERT.
DeadlocksExplained ==
    \A p \in Updates : Deadlocked(p) =>
        \/ \E k, l \in Kinds : k # l /\ upd[p].asked[k] # "none" /\ upd[p].asked[l] # "none"
        \/ upd[p].pc = "shared" /\ Shared(p, upd[p].cur)
=============================================================================
