------------------------------ MODULE Registry ------------------------------
(***************************************************************************)
(* One client, its notifications (kinds) and the templates assigned to     *)
(* them: registration, notify requests, updates, assignments, and the      *)
(* worker that looks up the template of a mail (web/handlers,              *)
(* web/services, models/kinds_repo.go, models/clients_repo.go,             *)
(* postal/template_loader.go).                                             *)
(*                                                                         *)
(* Every statement is one action.  A registration is one InnoDB            *)
(* transaction at REPEATABLE READ: it reads the snapshot of its first      *)
(* SELECT and its own writes, and its writes lock their rows.  Everything  *)
(* else commits statement by statement.  All kinds belong to the client,   *)
(* since every query on kinds is for one client.                           *)
(***************************************************************************)
EXTENDS Integers, FiniteSets

CONSTANTS
    Kinds,      \* identifiers of notifications
    Templates,  \* identifiers of templates other than "default"
    Requests,   \* requests and template lookups, each handled once
    Ops,        \* bound: what the requests may be, and whether templates change
    MaxUnsafe,  \* bound: templates whose loss a lookup may have to explain
    MaxNamed    \* bound: kinds in a registration that names templates

ASSUME RegistryAssumption ==
    /\ Ops \subseteq {"notify", "register", "assign", "update", "load", "templates"}
    /\ Kinds \cap {"client", ""} = {} /\ Templates \cap {"default", ""} = {}
    /\ MaxUnsafe \in Nat /\ MaxNamed \in Nat

VARIABLES
    rows,       \* `clients` and `kinds`: Ids -> row
    lastKey,    \* AUTO_INCREMENT
    templates,  \* `templates`: the identifiers that exist
    proc,       \* Requests -> the progress of its handler
    sent,       \* kinds (or "") some notify request was dispatched for
    granted,    \* history: kinds made critical by a request that may
    pruned,     \* history: kinds a registration removed
    unsafe      \* history: templates deleted, or named in a request unchecked

tables == <<rows, lastKey>>
history == <<granted, pruned, unsafe>>
vars == <<rows, lastKey, templates, proc, sent, granted, pruned, unsafe>>

Client == "client"
Default == "default"
None == ""            \* DoNotSetTemplateID, and the empty kind_id
Ids == Kinds \cup {Client}

Row == [key: Nat, critical: BOOLEAN, template: Templates \cup {Default}]
NoRow == [key |-> 0, critical |-> FALSE, template |-> Default]

\* What a request writes; template None means "leave it alone".
Value == [critical: BOOLEAN, template: Templates \cup {Default, None}]
Blank == [critical |-> FALSE, template |-> None]

\* `vals`: what to write; `todo`: rows still to be upserted; `id`: the row at
\* hand and `key` its primary key; `list`: the kinds a registration names,
\* `given`: those it names a template for; `prune`: does it prune?
\* `may`: has the caller the scope for critical kinds?
\* `snap`: the transaction's snapshot with its own writes, to the rows `wrote`;
\* `overlap`: history, the rows others changed since the request began.
Start(op, pc) ==
    [op |-> op, pc |-> pc, id |-> Client, key |-> 0, todo |-> {}, list |-> {}, given |-> {},
     prune |-> FALSE, may |-> FALSE, vals |-> [x \in Ids |-> Blank], snap |-> [x \in Ids |-> NoRow],
     wrote |-> {}, overlap |-> {}]

PC == {"idle", "client", "kind", "row", "template", "find", "insert", "refind", "write",
       "confirm", "prune", "commit", "dispatch", "done", "failed"}

Progress ==
    [op: {"none", "notify", "register", "assign", "update", "load"}, pc: PC, id: Ids, key: Nat,
     todo: SUBSET Kinds, list: SUBSET (Kinds \cup {None}), given: SUBSET Kinds, prune: BOOLEAN,
     may: BOOLEAN, vals: [Ids -> Value], snap: [Ids -> Row], wrote: SUBSET Ids, overlap: SUBSET Ids]

Active(p) == proc[p].pc \notin {"idle", "done", "failed"}

\* The first SELECT of a transaction, which takes its snapshot.
First(p) == proc[p].op = "register" /\ proc[p].pc = "find" /\ proc[p].id = Client

\* What a SELECT of p sees.
View(p) == IF proc[p].op = "register" /\ ~First(p) THEN proc[p].snap ELSE rows

\* Another transaction has written the row.
Locked(p, x) == \E q \in Requests \ {p} : x \in proc[q].wrote

\* p moves on to r and has changed the committed rows X.
Step(p, r, X) ==
    proc' = [q \in Requests |->
               IF q = p THEN r
               ELSE IF Active(q) THEN [proc[q] EXCEPT !.overlap = @ \cup X]
               ELSE proc[q]]

Read(p, r) == Step(p, r, {}) /\ UNCHANGED tables

\* A statement of p writes row x: at once, or when its transaction commits.
Put(p, x, row, r) ==
    IF proc[p].op = "register"
    THEN Step(p, [r EXCEPT !.snap[x] = row, !.wrote = @ \cup {x}], {}) /\ UNCHANGED rows
    ELSE Step(p, r, {x}) /\ rows' = [rows EXCEPT ![x] = row]

-----------------------------------------------------------------------------
(* Requests.                                                               *)

\* What a registration is to write for the kinds it names.
Named(list, crit, template) ==
    [x \in Ids |-> IF x \in list THEN [critical |-> x \in crit, template |-> template[x]] ELSE Blank]

\* Mutant of Register: the scope is not checked.
RegisterAny(p) ==
    \E list \in SUBSET Kinds, prune \in BOOLEAN, may \in BOOLEAN :
    \E crit \in SUBSET list, template \in [list -> Templates \cup {Default, None}] :
        /\ list # {} => prune
        /\ Step(p, [Start("register", "find") EXCEPT
                      !.list = list, !.todo = list, !.prune = prune,
                      !.given = {k \in list : template[k] # None},
                      !.vals = Named(list, crit, template)], {})
        /\ (\E k \in list : template[k] # None) => Cardinality(list) <= MaxNamed
        /\ granted' = IF may THEN granted \cup crit ELSE granted
        /\ unsafe' = unsafe \cup ({template[k] : k \in list} \ (templates \cup {None}))
        /\ UNCHANGED <<tables, templates, sent, pruned>>

\* PUT /registration and PUT /notifications, up to Begin.  Critical kinds
\* need the scope (ValidateCriticalScopes).  The first of the two decodes its
\* kinds into models.Kind, so that they may name a TemplateID, which nobody
\* looks up.
Register(p) ==
    \E list \in SUBSET Kinds, prune \in BOOLEAN, may \in BOOLEAN :
    \E crit \in SUBSET list, template \in [list -> Templates \cup {Default, None}] :
        /\ list # {} => prune
        /\ crit # {} => may
        /\ Step(p, [Start("register", "find") EXCEPT
                      !.list = list, !.todo = list, !.prune = prune,
                      !.given = {k \in list : template[k] # None},
                      !.vals = Named(list, crit, template)], {})
        /\ (\E k \in list : template[k] # None) => Cardinality(list) <= MaxNamed
        /\ granted' = IF may THEN granted \cup crit ELSE granted
        /\ unsafe' = unsafe \cup ({template[k] : k \in list} \ (templates \cup {None}))
        /\ UNCHANGED <<tables, templates, sent, pruned>>

\* A notify request for kind k, or for no kind.
Notify(p) ==
    \E k \in Kinds \cup {None}, may \in BOOLEAN :
        /\ Step(p, [Start("notify", "client") EXCEPT !.list = {k}, !.may = may], {})
        /\ UNCHANGED <<tables, templates, sent, history>>

\* PUT /clients/c/template and PUT /clients/c/notifications/k/template.
Assign(p) ==
    \E x \in Ids, t \in Templates \cup {Default} :
        /\ Step(p, [Start("assign", "row") EXCEPT
                      !.id = x, !.vals[x].template = t], {})
        /\ UNCHANGED <<tables, templates, sent, history>>

\* PUT /clients/c/notifications/k.  The template is not looked up.
Update(p) ==
    \E k \in Kinds, c \in BOOLEAN, t \in Templates \cup {Default, None} :
        /\ Step(p, [Start("update", "refind") EXCEPT
                      !.id = k, !.vals[k] = [critical |-> c, template |-> t]], {})
        /\ granted' = IF c THEN granted \cup {k} ELSE granted
        /\ unsafe' = IF t \in templates \cup {None} THEN unsafe ELSE unsafe \cup {t}
        /\ UNCHANGED <<tables, templates, sent, pruned>>

\* A worker looks up the template for a mail of kind k (LoadTemplates).
Load(p) ==
    \E k \in sent :
        /\ Step(p, [Start("load", IF k = None THEN "client" ELSE "kind") EXCEPT !.list = {k}], {})
        /\ UNCHANGED <<tables, templates, sent, history>>

Begin(p) ==
    /\ proc[p].pc = "idle"
    /\ \/ "register" \in Ops /\ Register(p)
       \/ "notify" \in Ops /\ Notify(p)
       \/ "assign" \in Ops /\ Assign(p)
       \/ "update" \in Ops /\ Update(p)
       \/ "load" \in Ops /\ Load(p)

\* An error of the database (a duplicate key, a deadlock, a lost connection)
\* ends the request and rolls its transaction back.  A lookup's own errors are
\* left out: Delivery has them, and the job is retried.
Fail(p) ==
    /\ Active(p)
    /\ proc[p].op # "load"
    /\ Step(p, Start(proc[p].op, "failed"), {})
    /\ UNCHANGED <<tables, templates, sent, history>>

-----------------------------------------------------------------------------
(* NotificationsFinder.ClientAndKind and the check of the scope.           *)

Found(row) == IF row = NoRow THEN Blank
              ELSE [critical |-> row.critical, template |-> row.template]

\* Mutant of FindClient: the kind is not registered.
FindClientOnly(p) ==
    \E k \in proc[p].list :
      /\ proc[p].op = "notify" /\ proc[p].pc = "client"
      /\ Read(p, [proc[p] EXCEPT !.vals[Client] = Found(rows[Client]),
                                 !.pc = IF k = None THEN "find" ELSE "kind"])
      /\ UNCHANGED <<templates, sent, history>>

FindClient(p) ==
    \E k \in proc[p].list :
      /\ proc[p].op = "notify" /\ proc[p].pc = "client"
      /\ Read(p, [proc[p] EXCEPT !.vals[Client] = Found(rows[Client]),
                                 !.todo = {k} \ {None},
                                 !.pc = IF k = None THEN "find" ELSE "kind"])
      /\ UNCHANGED <<templates, sent, history>>

\* A critical kind needs the scope.
FindKind(p) ==
    \E k \in proc[p].list :
      /\ proc[p].op = "notify" /\ proc[p].pc = "kind"
      /\ Read(p, IF rows[k].critical /\ ~proc[p].may THEN Start("notify", "failed")
                 ELSE [proc[p] EXCEPT !.vals[k] = Found(rows[k]), !.pc = "find", !.may = FALSE])
      /\ UNCHANGED <<templates, sent, history>>

(* TemplateAssigner.                                                       *)

\* The row to be changed is read, all of it; a missing one is an error.  (The
\* client of a kind that exists is never missing: clients are not deleted.)
FindRow(p) ==
    LET x == proc[p].id IN
    /\ proc[p].pc = "row"
    /\ Read(p, IF rows[x] = NoRow THEN Start("assign", "failed")
               ELSE [proc[p] EXCEPT !.vals[x].critical = rows[x].critical, !.pc = "template"])
    /\ UNCHANGED <<templates, sent, history>>

\* Mutant of FindTemplate: any template will do.
FindTemplateAny(p) ==
    /\ proc[p].op = "assign" /\ proc[p].pc = "template"
    /\ Read(p, [proc[p] EXCEPT !.pc = "refind"])
    /\ UNCHANGED <<templates, sent, history>>

FindTemplate(p) ==
    /\ proc[p].op = "assign" /\ proc[p].pc = "template"
    /\ Read(p, IF proc[p].vals[proc[p].id].template \in templates
               THEN [proc[p] EXCEPT !.pc = "refind"] ELSE Start("assign", "failed"))
    /\ UNCHANGED <<templates, sent, history>>

-----------------------------------------------------------------------------
(* Create, Update and Upsert of the two repositories.                      *)

\* Registrar.Register goes on with the next kind, then prunes or dispatches.
\* The changes of assignments and updates are then complete.
NextRow(p) ==
    LET r == proc[p] IN
    IF r.op \in {"assign", "update"} THEN {Start(r.op, "done")}
    ELSE IF r.todo # {} THEN {[r EXCEPT !.pc = "find", !.id = k, !.todo = @ \ {k}] : k \in r.todo}
    ELSE {[r EXCEPT !.pc = IF r.op = "notify" THEN "dispatch"
                           ELSE IF r.prune THEN "prune" ELSE "commit"]}

\* The Find of Upsert chooses between Create and Update.
Find(p) ==
    /\ proc[p].pc = "find"
    /\ Read(p, [proc[p] EXCEPT !.pc = IF View(p)[proc[p].id] = NoRow THEN "insert" ELSE "refind",
                               !.snap = IF First(p) THEN rows ELSE @])
    /\ UNCHANGED <<templates, sent, history>>

\* Mutant of Insert: an empty template_id stays empty.
InsertEmpty(p) ==
    LET x == proc[p].id
        v == proc[p].vals[x]
        row == [key |-> lastKey + 1, critical |-> v.critical, template |-> v.template]
    IN
    /\ proc[p].pc = "insert"
    /\ ~Locked(p, x)
    /\ rows[x] = NoRow
    /\ \E r \in NextRow(p) : Put(p, x, row, r)
    /\ lastKey' = lastKey + 1
    /\ UNCHANGED <<templates, sent, history>>

\* Create: an empty template_id becomes the default.  With a row there, the
\* INSERT is a duplicate: only Fail is possible.
Insert(p) ==
    LET x == proc[p].id
        v == proc[p].vals[x]
        row == [key |-> lastKey + 1, critical |-> v.critical,
                template |-> IF v.template = None THEN Default ELSE v.template]
    IN
    /\ proc[p].pc = "insert"
    /\ ~Locked(p, x)
    /\ rows[x] = NoRow
    /\ \E r \in NextRow(p) : Put(p, x, row, r)
    /\ lastKey' = lastKey + 1
    /\ UNCHANGED <<templates, sent, history>>

\* Mutant of Refind: a template_id left alone becomes the default.
RefindDefault(p) ==
    LET x == proc[p].id
        row == View(p)[x]
    IN
    /\ proc[p].pc = "refind"
    /\ Read(p, IF row = NoRow THEN Start(proc[p].op, "failed")
               ELSE [proc[p] EXCEPT !.pc = "write", !.key = row.key,
                                    !.vals[x].template = IF @ = None THEN Default ELSE @])
    /\ UNCHANGED <<templates, sent, history>>

\* The Find of Update has the primary key, and the template_id if the request
\* leaves it alone.  (ClientsRepo skips it when the template_id is set: for a
\* client, whose row is never deleted, it then finds nothing new.)
Refind(p) ==
    LET x == proc[p].id
        row == View(p)[x]
    IN
    /\ proc[p].pc = "refind"
    /\ Read(p, IF row = NoRow THEN Start(proc[p].op, "failed")
               ELSE [proc[p] EXCEPT !.pc = "write", !.key = row.key,
                                    !.vals[x].template = IF @ = None THEN row.template ELSE @])
    /\ UNCHANGED <<templates, sent, history>>

\* UPDATE ... WHERE primary = key, which may match nothing by now.
Write(p) ==
    LET x == proc[p].id
        r == [proc[p] EXCEPT !.pc = "confirm"]
        row == [key |-> proc[p].key, critical |-> proc[p].vals[x].critical,
                template |-> proc[p].vals[x].template]
    IN
    /\ proc[p].pc = "write"
    /\ ~Locked(p, x)
    /\ IF rows[x].key = proc[p].key
       THEN Put(p, x, row, r)
       ELSE Step(p, r, {}) /\ UNCHANGED rows
    /\ UNCHANGED <<lastKey, templates, sent, history>>

\* The Find that Update ends with.
Confirm(p) ==
    /\ proc[p].pc = "confirm"
    /\ IF View(p)[proc[p].id] = NoRow
       THEN Read(p, Start(proc[p].op, "failed"))
       ELSE \E r \in NextRow(p) : Read(p, r)
    /\ UNCHANGED <<templates, sent, history>>
-----------------------------------------------------------------------------
(* The end of a registration and of a notify request.                      *)

\* Mutant of Prune: the kinds that are named are the ones deleted.
PruneNamed(p) ==
    LET trim == {k \in proc[p].list : View(p)[k] # NoRow} IN
    /\ proc[p].pc = "prune"
    /\ \A k \in trim : ~Locked(p, k)
    /\ Step(p, [proc[p] EXCEPT !.pc = "commit", !.wrote = @ \cup trim,
                   !.snap = [x \in Ids |-> IF x \in trim THEN NoRow ELSE @[x]]], {})
    /\ UNCHANGED <<tables, templates, sent, history>>

\* Trim: the kinds the transaction sees and the request does not name are
\* deleted by their primary keys, if they are still there.
Prune(p) ==
    LET trim == {k \in Kinds \ proc[p].list : View(p)[k] # NoRow}
        hit == {k \in trim : rows[k].key = View(p)[k].key}
    IN
    /\ proc[p].pc = "prune"
    /\ \A k \in trim : ~Locked(p, k)
    /\ Step(p, [proc[p] EXCEPT !.pc = "commit", !.wrote = @ \cup hit,
                   !.snap = [x \in Ids |-> IF x \in hit THEN NoRow ELSE @[x]]], {})
    /\ UNCHANGED <<tables, templates, sent, history>>

Commit(p) ==
    LET r == proc[p] IN
    /\ r.pc = "commit"
    /\ rows' = [x \in Ids |-> IF x \in r.wrote THEN r.snap[x] ELSE rows[x]]
    /\ Step(p, Start("register", "done"), r.wrote)
    /\ pruned' = pruned \cup {k \in r.wrote : r.snap[k] = NoRow}
    /\ UNCHANGED <<lastKey, templates, sent, granted, unsafe>>

\* strategy.Dispatch: from here on workers handle jobs of the kind.
Dispatch(p) ==
    /\ proc[p].pc = "dispatch"
    /\ sent' = sent \cup proc[p].list
    /\ Step(p, Start("notify", "done"), {})
    /\ UNCHANGED <<tables, templates, history>>

-----------------------------------------------------------------------------
(* TemplatesLoader.LoadTemplates.                                          *)

\* `id` becomes the row that is to blame, `key` is not used.
LoadKind(p) ==
    \E k \in proc[p].list :
      /\ proc[p].op = "load" /\ proc[p].pc = "kind"
      /\ Read(p, [proc[p] EXCEPT
                    !.id = k,
                    !.vals[k].template = IF rows[k] = NoRow THEN None ELSE rows[k].template,
                    !.pc = IF rows[k] = NoRow THEN "failed"
                           ELSE IF rows[k].template = Default THEN "client" ELSE "template"])
      /\ UNCHANGED <<templates, sent, history>>

LoadClient(p) ==
    LET row == rows[Client] IN
    /\ proc[p].op = "load" /\ proc[p].pc = "client"
    /\ Read(p, [proc[p] EXCEPT
                  !.id = Client,
                  !.vals[Client].template = IF row = NoRow THEN None ELSE row.template,
                  !.pc = IF row = NoRow THEN "failed" ELSE "template"])
    /\ UNCHANGED <<templates, sent, history>>

LoadTemplate(p) ==
    LET r == proc[p] IN
    /\ r.op = "load" /\ r.pc = "template"
    /\ Read(p, [r EXCEPT !.pc = IF r.vals[r.id].template \in templates THEN "done" ELSE "failed"])
    /\ UNCHANGED <<templates, sent, history>>

-----------------------------------------------------------------------------
(* Templates.                                                              *)

\* POST /templates: a new identifier.
CreateTemplate(t) ==
    /\ t \notin templates \cup unsafe
    /\ templates' = templates \cup {t}
    /\ UNCHANGED <<tables, proc, sent, history>>

\* DELETE /templates/t, whoever refers to it, and whichever it is.
DeleteTemplate(t) ==
    /\ t \in templates /\ Cardinality(unsafe) < MaxUnsafe
    /\ templates' = templates \ {t}
    /\ unsafe' = unsafe \cup {t}
    /\ UNCHANGED <<tables, proc, sent, granted, pruned>>

\* Seed, when an instance boots, restores the default template.
Seed ==
    /\ Default \notin templates
    /\ templates' = templates \cup {Default}
    /\ UNCHANGED <<tables, proc, sent, history>>

-----------------------------------------------------------------------------
\* The client and some kinds may be registered already, some of them critical
\* or with a template, and mails of all of these are waiting.
Init ==
    /\ templates \in IF "templates" \in Ops THEN {{Default}, Templates \cup {Default}}
                                           ELSE {Templates \cup {Default}}
    /\ \E old \in SUBSET Ids, crit \in SUBSET Kinds, t \in templates :
         /\ old # {} => Client \in old
         /\ crit \subseteq old
         /\ rows = [x \in Ids |->
                      IF x \in old THEN [key |-> 1, critical |-> x \in crit, template |-> t]
                      ELSE NoRow]
         /\ sent = old \ {Client}
         /\ granted = crit
    /\ lastKey = 1
    /\ proc = [p \in Requests |-> Start("none", "idle")]
    /\ pruned = {} /\ unsafe = {}

Next ==
    \/ \E p \in Requests :
         \/ Begin(p) \/ Fail(p)
         \/ FindClient(p) \/ FindKind(p) \/ FindRow(p) \/ FindTemplate(p)
         \/ Find(p) \/ Insert(p) \/ Refind(p) \/ Write(p) \/ Confirm(p)
         \/ Prune(p) \/ Commit(p) \/ Dispatch(p)
         \/ LoadKind(p) \/ LoadClient(p) \/ LoadTemplate(p)
    \/ "templates" \in Ops /\
         \/ \E t \in Templates \cup {Default} : DeleteTemplate(t)
         \/ \E t \in Templates : CreateTemplate(t)
         \/ Seed

Spec == Init /\ [][Next]_vars

-----------------------------------------------------------------------------
(* Properties.                                                             *)

\* The variables have their types; in particular no row ever has an empty
\* template_id, whichever way its last writer got there.
TypeOK ==
    /\ rows \in [Ids -> Row]
    /\ lastKey \in Nat
    /\ templates \in SUBSET (Templates \cup {Default})
    /\ proc \in [Requests -> Progress]
    /\ sent \in SUBSET (Kinds \cup {None})
    /\ granted \in SUBSET Kinds /\ pruned \in SUBSET Kinds
    /\ unsafe \in SUBSET (Templates \cup {Default})

\* A kind is critical only if some request with the authority made it so: no
\* notify request and no overlap of requests makes one critical.
CriticalAuthorised ==
    \A k \in Kinds : rows[k].critical => k \in granted

\* A registration that commits leaves exactly the kinds it names, each as
\* critical as it says and with the template it names, if any, apart from kinds
\* others changed while it ran.
RegistrationTakesEffect ==
    [][\A p \in Requests : (proc[p].pc = "commit" /\ proc'[p].pc = "done") =>
         \A k \in Kinds \ proc[p].overlap :
           /\ k \in proc[p].list =>
                rows'[k] # NoRow /\ rows'[k].critical = proc[p].vals[k].critical
           /\ k \in proc[p].given => rows'[k].template = proc[p].vals[k].template
           /\ (proc[p].prune /\ k \notin proc[p].list) => rows'[k] = NoRow]_vars

\* A notify request writes the client and the kind back; a registration
\* writes them anew with the template they had, unless it names one.
\* Neither undoes an assignment that was made before it began: a row's template
\* changes only if somebody changed the row during the request, and for a
\* notify request nothing else changes either.
NoStaleWriteBack ==
    [][\A p \in Requests : proc'[p].pc # proc[p].pc =>
         \A x \in Ids \ proc[p].overlap : (rows[x] # NoRow /\ rows'[x] # NoRow) =>
           /\ proc[p].op \in {"notify", "register"} =>
                rows'[x].template = rows[x].template \/ x \in proc[p].given
           /\ proc[p].op = "notify" => rows'[x] = rows[x]]_vars

\* A notify request is dispatched only after the client and the kind have been
\* registered, whatever ran beside it: from then on a worker finds their rows,
\* unless a registration pruned the kind.
DispatchedRegistered ==
    \A k \in sent :
        /\ rows[Client] # NoRow
        /\ k # None => rows[k] # NoRow \/ k \in pruned

\* A worker finds a template for every mail that was dispatched, unless its
\* kind was pruned, or the template was deleted or never checked.
LoadExplained ==
    \A p \in Requests : (proc[p].op = "load" /\ proc[p].pc = "failed") =>
        \/ proc[p].id \in pruned
        \/ proc[p].vals[proc[p].id].template \in unsafe
=============================================================================
