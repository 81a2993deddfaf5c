----------------------------- MODULE Templates -----------------------------
(***************************************************************************)
(* The contents of the templates: POST, PUT and DELETE of /templates and   *)
(* /default_template, and the seeding of the default template by every     *)
(* boot of an instance with index 0 (models/database.go,                   *)
(* models/templates_repo.go, application/migrator.go).  Deployments of two *)
(* releases share the database, so that two such instances may boot at a   *)
(* time, with different default templates.                                 *)
(*                                                                         *)
(* Every statement is one action and commits by itself.  A template is     *)
(* found by its identifier, and written or deleted by its primary key.     *)
(***************************************************************************)
EXTENDS Integers

CONSTANTS
    Instances,  \* instances with index 0
    Releases,   \* what the file with the default template may hold
    Requests,   \* requests, each handled once, and the contents they send
    Others,     \* identifiers of templates other than "default" (version 4 UUIDs)
    MaxFaults   \* bound: failed statements and crashes

ASSUME TemplatesAssumption ==
    /\ Releases \cap Requests = {} /\ Instances \cap Requests = {}
    /\ "default" \notin Others
    /\ {"any", "gone"} \cap (Releases \cup Requests) = {}
    /\ MaxFaults \in Nat

VARIABLES
    rows,     \* `templates`: Ids -> row
    lastKey,  \* AUTO_INCREMENT
    boot,     \* Instances -> the progress of Seed
    req,      \* Requests -> the progress of its handler
    used,     \* identifiers handed out so far
    faults,   \* number of faults so far
    shown     \* history: Ids -> what the last completed operation left there

vars == <<rows, lastKey, boot, req, used, faults, shown>>

Default == "default"
Ids == Others \cup {Default}
Contents == Releases \cup Requests

\* Name, subject, text, HTML and metadata are always written together.
Row == [key: Nat \ {0}, content: Contents, overridden: BOOLEAN]
NoRow == [key |-> 0]
Absent(t) == rows[t].key = 0

\* `key`: the primary key of the row that was read.  History: `overlap`, was the
\* row changed since by somebody else; `deleted`, was it deleted?
Booting(pc, v) == [pc |-> pc, release |-> v, key |-> 0, overlap |-> FALSE, deleted |-> FALSE]
Handling(pc, t) == [pc |-> pc, id |-> t, key |-> 0, overlap |-> FALSE]

\* History: actor a has changed row t.
BootsSee(a, t, gone) ==
    [i \in Instances |->
        IF i # a /\ t = Default /\ boot[i].pc \notin {"down", "find"}
        THEN [boot[i] EXCEPT !.overlap = TRUE, !.deleted = @ \/ gone] ELSE boot[i]]

RequestsSee(a, t) ==
    [p \in Requests |->
        IF p # a /\ t = req[p].id /\ req[p].pc \in {"write", "delete"}
        THEN [req[p] EXCEPT !.overlap = TRUE] ELSE req[p]]

\* History: what is left of t after an operation that put c there.
Left(t, overlap, c) == [shown EXCEPT ![t] = IF overlap THEN "any" ELSE c]

-----------------------------------------------------------------------------
(* Boot and DB.Seed.                                                       *)

Boot(i) ==
    /\ boot[i].pc = "down"
    /\ \E v \in Releases : boot' = [boot EXCEPT ![i] = Booting("find", v)]
    /\ UNCHANGED <<rows, lastKey, req, used, faults, shown>>

\* Mutant of SeedFind: overridden or not.
SeedFindAlways(i) ==
    /\ boot[i].pc = "find"
    /\ boot' = [boot EXCEPT ![i].pc = IF Absent(Default) THEN "insert" ELSE "update",
                            ![i].key = rows[Default].key]
    /\ UNCHANGED <<rows, lastKey, req, used, faults, shown>>

\* Mutant of SeedFind: only a template that is there is looked after.
SeedFindPresent(i) ==
    /\ boot[i].pc = "find"
    /\ boot' = [boot EXCEPT ![i].pc = IF Absent(Default) \/ rows[Default].overridden THEN "up"
                                      ELSE "update",
                            ![i].key = rows[Default].key]
    /\ UNCHANGED <<rows, lastKey, req, used, faults, shown>>

\* FindByID: a missing template is created, and one that nobody has
\* overridden is brought up to date.
SeedFind(i) ==
    /\ boot[i].pc = "find"
    /\ boot' = [boot EXCEPT ![i].pc = IF Absent(Default) THEN "insert"
                                      ELSE IF rows[Default].overridden THEN "up"
                                      ELSE "update",
                            ![i].key = rows[Default].key]
    /\ UNCHANGED <<rows, lastKey, req, used, faults, shown>>

\* Mutant of SeedInsert: a duplicate is tried again and again.
SeedInsertAgain(i) ==
    /\ boot[i].pc = "insert" /\ Absent(Default)
    /\ lastKey' = lastKey + 1
    /\ rows' = [rows EXCEPT ![Default] =
                  [key |-> lastKey', content |-> boot[i].release, overridden |-> FALSE]]
    /\ boot' = [BootsSee(i, Default, FALSE) EXCEPT ![i].pc = "up"]
    /\ req' = RequestsSee(i, Default)
    /\ shown' = Left(Default, boot[i].overlap, boot[i].release)
    /\ UNCHANGED <<used, faults>>

\* create: panics if the template has appeared meanwhile (unique key `id`).
SeedInsert(i) ==
    /\ boot[i].pc = "insert"
    /\ IF Absent(Default)
       THEN /\ lastKey' = lastKey + 1
            /\ rows' = [rows EXCEPT ![Default] =
                          [key |-> lastKey', content |-> boot[i].release, overridden |-> FALSE]]
            /\ boot' = [BootsSee(i, Default, FALSE) EXCEPT ![i].pc = "up"]
            /\ req' = RequestsSee(i, Default)
            /\ shown' = Left(Default, boot[i].overlap, boot[i].release)
       ELSE /\ boot' = [boot EXCEPT ![i] = Booting("down", @.release)]
            /\ UNCHANGED <<rows, lastKey, req, shown>>
    /\ UNCHANGED <<used, faults>>

\* UPDATE of the whole row by its primary key, which may be gone.
SeedUpdate(i) ==
    /\ boot[i].pc = "update"
    /\ IF rows[Default].key = boot[i].key
       THEN /\ rows' = [rows EXCEPT ![Default].content = boot[i].release,
                                    ![Default].overridden = FALSE]
            /\ boot' = [BootsSee(i, Default, FALSE) EXCEPT ![i].pc = "up"]
            /\ req' = RequestsSee(i, Default)
            /\ shown' = Left(Default, boot[i].overlap, boot[i].release)
       ELSE /\ boot' = [boot EXCEPT ![i].pc = "up"]
            /\ UNCHANGED <<rows, req, shown>>
    /\ UNCHANGED <<lastKey, used, faults>>

\* A statement fails, which panics, or the instance is stopped.
Crash(i) ==
    /\ boot[i].pc # "down" /\ faults < MaxFaults
    /\ faults' = faults + 1
    /\ boot' = [boot EXCEPT ![i] = Booting("down", @.release)]
    /\ UNCHANGED <<rows, lastKey, req, used, shown>>

-----------------------------------------------------------------------------
(* Requests.                                                               *)

\* Mutant of Create: no key is generated.
CreateUnkeyed(p) ==
    /\ req[p].pc = "idle"
    /\ \E t \in Others \ used :
         /\ used' = used \cup {t}
         /\ rows' = [rows EXCEPT ![t] = [key |-> 0, content |-> p, overridden |-> FALSE]]
         /\ req' = [req EXCEPT ![p] = Handling("accepted", t)]
         /\ shown' = Left(t, FALSE, p)
    /\ UNCHANGED <<lastKey, boot, faults>>

\* POST /templates: TemplatesRepo.Create under a new identifier.
Create(p) ==
    /\ req[p].pc = "idle"
    /\ \E t \in Others \ used :
         /\ used' = used \cup {t}
         /\ lastKey' = lastKey + 1
         /\ rows' = [rows EXCEPT ![t] =
                       [key |-> lastKey', content |-> p, overridden |-> FALSE]]
         /\ req' = [req EXCEPT ![p] = Handling("accepted", t)]
         /\ shown' = Left(t, FALSE, p)
    /\ UNCHANGED <<boot, faults>>

\* PUT and DELETE of an existing template begin with FindByID.
Find(p) ==
    /\ req[p].pc = "idle"
    /\ \E t \in used \cup {Default}, next \in {"write", "delete"} :
         req' = [req EXCEPT ![p] = IF Absent(t) THEN Handling("refused", t)
                                   ELSE [Handling(next, t) EXCEPT !.key = rows[t].key]]
    /\ UNCHANGED <<rows, lastKey, boot, used, faults, shown>>

\* Mutant of Update: the flag is left as it is.
UpdateUnflagged(p) ==
    LET t == req[p].id IN
    /\ req[p].pc = "write"
    /\ rows[t].key = req[p].key
    /\ rows' = [rows EXCEPT ![t].content = p]
    /\ boot' = BootsSee(p, t, FALSE)
    /\ req' = [RequestsSee(p, t) EXCEPT ![p].pc = "accepted"]
    /\ shown' = Left(t, req[p].overlap, p)
    /\ UNCHANGED <<lastKey, used, faults>>

\* TemplatesRepo.Update: UPDATE by primary key, of all columns.  A row that is
\* gone is no error.
Update(p) ==
    LET t == req[p].id IN
    /\ req[p].pc = "write"
    /\ IF rows[t].key = req[p].key
       THEN /\ rows' = [rows EXCEPT ![t].content = p, ![t].overridden = TRUE]
            /\ boot' = BootsSee(p, t, FALSE)
            /\ req' = [RequestsSee(p, t) EXCEPT ![p].pc = "accepted"]
       ELSE /\ req' = [req EXCEPT ![p].pc = "accepted"]
            /\ UNCHANGED <<rows, boot>>
    /\ shown' = Left(t, req[p].overlap, p)
    /\ UNCHANGED <<lastKey, used, faults>>

\* Mutant of Destroy: DELETE by identifier.
DestroyById(p) ==
    LET t == req[p].id IN
    /\ req[p].pc = "delete"
    /\ rows' = [rows EXCEPT ![t] = NoRow]
    /\ boot' = BootsSee(p, t, TRUE)
    /\ req' = [RequestsSee(p, t) EXCEPT ![p].pc = "accepted"]
    /\ shown' = Left(t, req[p].overlap, "gone")
    /\ UNCHANGED <<lastKey, used, faults>>

\* Mutant of Destroy: the template is found and not deleted.
DestroyNothing(p) ==
    /\ req[p].pc = "delete"
    /\ req' = [req EXCEPT ![p].pc = "accepted"]
    /\ shown' = Left(req[p].id, req[p].overlap, "gone")
    /\ UNCHANGED <<rows, lastKey, boot, used, faults>>

\* TemplatesRepo.Destroy: DELETE by primary key.
Destroy(p) ==
    LET t == req[p].id IN
    /\ req[p].pc = "delete"
    /\ IF rows[t].key = req[p].key
       THEN /\ rows' = [rows EXCEPT ![t] = NoRow]
            /\ boot' = BootsSee(p, t, TRUE)
            /\ req' = [RequestsSee(p, t) EXCEPT ![p].pc = "accepted"]
       ELSE /\ req' = [req EXCEPT ![p].pc = "accepted"]
            /\ UNCHANGED <<rows, boot>>
    /\ shown' = Left(t, req[p].overlap, "gone")
    /\ UNCHANGED <<lastKey, used, faults>>

\* A statement fails, and the request with it.
Fail(p) ==
    /\ req[p].pc \in {"write", "delete"} /\ faults < MaxFaults
    /\ faults' = faults + 1
    /\ req' = [req EXCEPT ![p].pc = "refused"]
    /\ UNCHANGED <<rows, lastKey, boot, used, shown>>

-----------------------------------------------------------------------------
\* A new database, or one that was seeded by some release.
Init ==
    /\ \E row \in {NoRow} \cup [key: {1}, content: Releases, overridden: {FALSE}] :
         rows = [t \in Ids |-> IF t = Default THEN row ELSE NoRow]
    /\ lastKey = 1
    /\ \E v \in Releases : boot = [i \in Instances |-> Booting("down", v)]
    /\ req = [p \in Requests |-> Handling("idle", Default)]
    /\ used = {}
    /\ faults = 0
    /\ shown = [t \in Ids |-> "any"]

Seed(i) == SeedFind(i) \/ SeedInsert(i) \/ SeedUpdate(i)

Next ==
    \/ \E i \in Instances : Boot(i) \/ Seed(i) \/ Crash(i)
    \/ \E p \in Requests : Create(p) \/ Find(p) \/ Update(p) \/ Destroy(p) \/ Fail(p)

Spec == Init /\ [][Next]_vars

\* The platform starts an instance that is down, and Seed runs to its end.
FairSpec == Spec /\ \A i \in Instances : WF_vars(Boot(i)) /\ WF_vars(Seed(i))

-----------------------------------------------------------------------------
(* Properties.                                                             *)

\* Every variable has the type its declaration gives it.
TypeOK ==
    /\ rows \in [Ids -> Row \cup {NoRow}]
    /\ lastKey \in Nat
    /\ boot \in [Instances -> [pc: {"down", "find", "insert", "update", "up"},
                               release: Releases, key: Nat, overlap: BOOLEAN, deleted: BOOLEAN]]
    /\ req \in [Requests -> [pc: {"idle", "write", "delete", "accepted", "refused"},
                             id: Ids, key: Nat, overlap: BOOLEAN]]
    /\ used \in SUBSET Others
    /\ faults \in 0 .. MaxFaults
    /\ shown \in [Ids -> Contents \cup {"any", "gone"}]

\* What the last completed request or boot put into a template is what readers
\* get, unless somebody else changed the template while that operation ran:
\* a PUT that misses its row, a seed or a late write never shows anything else.
LastWriteShown ==
    \A t \in Ids :
        \/ shown[t] = "any"
        \/ shown[t] = "gone" /\ Absent(t)
        \/ ~Absent(t) /\ rows[t].content = shown[t]

\* No boot undoes an override: Seed changes an overridden default template only
\* if it was overridden after Seed had looked.
OverrideKept ==
    [][\A i \in Instances :
         (~Absent(Default) /\ rows[Default].overridden /\ Seed(i) /\ rows' # rows)
             => boot[i].overlap]_vars

\* A default template that holds what a request sent is marked as overridden,
\* and one that holds what a release brought is not: the flag the next Seed
\* goes by is right whatever the order of their writes.
FlagRight ==
    ~Absent(Default) => (rows[Default].overridden <=> rows[Default].content \in Requests)

\* Once an instance is up there is a default template, unless a request
\* deleted it after that instance had looked.
SeededUnlessDeleted ==
    \A i \in Instances : (boot[i].pc = "up" /\ Absent(Default)) => boot[i].deleted

\* A template that was created again is another row: what began before that
\* neither changes nor deletes it.
RecreatedUntouched ==
    [][\A t \in Ids : (~Absent(t) /\ rows'[t] # rows[t]) =>
         \/ \E p \in Requests : req[p].id = t /\ req[p].key = rows[t].key /\ req'[p].pc = "accepted"
         \/ \E i \in Instances : t = Default /\ boot[i].key = rows[t].key /\ boot'[i].pc = "up"]_vars

\* Two instances that seed an empty table make one of them panic, but the
\* restarts end: from some time on every instance is up.
AllUp == <>[](\A i \in Instances : boot[i].pc = "up")
=============================================================================
