--------------------------- MODULE RegistryProofs ---------------------------
(***************************************************************************)
(* The properties of Registry, for any number of kinds, templates and      *)
(* requests.                                                               *)
(***************************************************************************)
EXTENDS Registry, TLAPS

\* The templates a row may name: those that exist, and those whose loss is
\* accounted for.  A row that is there has a primary key.
Known == templates \cup unsafe
Proper(row) == row = NoRow \/ row.key > 0
Present(x) == rows[x] # NoRow

RowsInv ==
    /\ \A x \in Ids : Proper(rows[x]) /\ rows[x].template \in Known
    /\ Default \in Known
    /\ CriticalAuthorised
    /\ DispatchedRegistered

Upserting == {"find", "insert", "refind", "write", "confirm"}

\* Whatever a request has read or is to write is authorised and known.
Sane(p) ==
    LET r == proc[p] IN
    /\ \A x \in Ids : Proper(r.snap[x]) /\ r.snap[x].template \in Known
    /\ \A k \in Kinds : (r.snap[k].critical \/ r.vals[k].critical) => k \in granted
    /\ \A x \in Ids : \/ r.vals[x].template \in Known \cup {None}
                      \/ r.op = "assign" /\ r.pc \in {"row", "template"} /\ x = r.id
    /\ r.pc = "write" => r.key > 0 /\ r.vals[r.id].template # None
    /\ r.pc = "row" => r.op = "assign"
    /\ r.pc \in {"find", "insert"} => r.op \in {"notify", "register"}
    /\ r.pc \in Upserting => r.op \in {"notify", "register", "assign", "update"}
    /\ r.pc \in {"prune", "commit"} => r.op = "register"
    /\ r.pc = "dispatch" => r.op = "notify"

\* A notify request upserts the client and then the kind it is for.
Notifying(p) ==
    LET r == proc[p] IN
    r.op = "notify" /\ Active(p) =>
        /\ r.pc \in {"client", "kind", "dispatch"} \cup Upserting
        /\ \A k, l \in r.list : k = l
        /\ r.pc \in {"client", "kind"} => r.id = Client
        /\ r.pc = "kind" => r.list = r.todo
        /\ r.pc \in Upserting =>
             \/ r.id = Client /\ r.todo = r.list \ {None}
             \/ r.id \in Kinds /\ r.todo = {} /\ r.list \subseteq {r.id} /\ Present(Client)
        /\ r.pc = "dispatch" =>
             Present(Client) /\ \A k \in r.list \ {None} : Present(k) \/ k \in pruned

\* What a notify request is to write back is what is there, but for overlaps.
Pending(p, x) ==
    \/ proc[p].pc = "kind" /\ x = Client
    \/ proc[p].pc \in Upserting /\ x \in proc[p].todo
    \/ proc[p].pc \in Upserting \ {"confirm"} /\ x = proc[p].id

WritesBack(p) ==
    proc[p].op = "notify" =>
        \A x \in Ids \ proc[p].overlap : Pending(p, x) /\ Present(x) =>
            /\ proc[p].vals[x].critical = rows[x].critical
            /\ proc[p].vals[x].template = rows[x].template

\* The rows a registration goes through, and what its transaction has done.
Registering(p) ==
    LET r == proc[p] IN
    r.op = "register" /\ Active(p) =>
        /\ r.pc \in {"prune", "commit"} \cup Upserting
        /\ r.list \subseteq Kinds /\ r.todo \subseteq r.list /\ r.given \subseteq r.list
        /\ r.id = Client \/ r.id \in r.list \ r.todo
        /\ r.pc \in Upserting /\ r.id = Client => r.todo = r.list
        /\ r.pc \in {"prune", "commit"} => r.todo = {}
        /\ First(p) => r.wrote = {}
        /\ r.pc \in Upserting \ {"confirm"} => r.id \notin r.wrote
        /\ r.pc # "commit" => r.wrote \cap r.todo = {} /\ r.wrote \subseteq r.list \cup {Client}
        /\ \A x \in r.wrote : r.snap[x] = NoRow => x \in Kinds

\* Its view is the table but for what it wrote, with the templates unchanged
\* where it names none, and for overlaps.
Isolated(p) ==
    LET r == proc[p] IN
    r.op = "register" /\ Active(p) /\ ~First(p) =>
        \A x \in Ids \ r.overlap :
            /\ x \notin r.wrote => r.snap[x] = rows[x]
            /\ x \in r.wrote /\ Present(x) /\ r.snap[x] # NoRow =>
                 r.snap[x].template = rows[x].template \/ x \in r.given

\* What it is done with is as it was told, but for overlaps.
Registered(p) ==
    LET r == proc[p] IN
    r.op = "register" /\ Active(p) =>
        /\ \A x \in r.todo : r.vals[x].template = None <=> x \notin r.given
        /\ r.pc \in {"find", "insert", "refind"} =>
             (r.vals[r.id].template = None <=> r.id \notin r.given)
        /\ r.pc = "write" /\ r.id \notin r.overlap =>
             /\ r.snap[r.id] # NoRow /\ r.key = r.snap[r.id].key
             /\ r.vals[r.id].template = r.snap[r.id].template \/ r.id \in r.given
        /\ \A k \in (r.list \ r.todo) \ r.overlap :
             k # r.id \/ r.pc \in {"confirm", "prune", "commit"} =>
               /\ k \in r.wrote /\ r.snap[k] # NoRow
               /\ r.snap[k].critical = r.vals[k].critical
               /\ k \in r.given => r.snap[k].template = r.vals[k].template
        /\ r.pc = "commit" /\ r.prune =>
             \A k \in (Kinds \ r.list) \ r.overlap :
               IF k \in r.wrote THEN r.snap[k] = NoRow ELSE rows[k] = NoRow

\* A lookup is for a kind that was dispatched, and its failure is explained.
Loading(p) ==
    LET r == proc[p] IN
    r.op = "load" =>
        /\ r.pc \in {"kind", "client", "template", "done", "failed"}
        /\ r.pc \in {"client", "kind"} => r.list # {} /\ r.list \subseteq sent
        /\ r.pc = "kind" => r.list \subseteq Kinds
        /\ r.pc = "template" => r.vals[r.id].template \in Known
        /\ r.pc = "failed" => r.id \in pruned \/ r.vals[r.id].template \in unsafe

Good(p) ==
    Sane(p) /\ Notifying(p) /\ WritesBack(p) /\ Registering(p) /\ Isolated(p) /\ Registered(p)
    /\ Loading(p)

IndInv == TypeOK /\ RowsInv /\ \A p \in Requests : Good(p)

-----------------------------------------------------------------------------
(* Types.                                                                  *)

\* The names are different from each other.
LEMMA Names ==
    /\ Client \in Ids /\ Client \notin Kinds /\ Kinds \subseteq Ids /\ None \notin Ids
    /\ \A x \in Ids : x = Client \/ x \in Kinds
    /\ None \notin Templates \cup {Default} /\ None # Default
  BY RegistryAssumption, Zenon DEF Ids, Client, None, Default

\* A row that is absent, a value that is blank and what was found have types.
LEMMA Values ==
    /\ NoRow \in Row /\ Blank \in Value
    /\ \A row \in Row : Found(row) \in Value
    /\ \A row \in Row : row.key \in Nat /\ row.critical \in BOOLEAN
                        /\ row.template \in Templates \cup {Default}
    /\ \A v \in Value : v.critical \in BOOLEAN /\ v.template \in Templates \cup {Default, None}
  BY Zenon DEF Row, NoRow, Value, Blank, Found

\* A request that has just begun or ended.
LEMMA StartType ==
    ASSUME NEW op \in {"none", "notify", "register", "assign", "update", "load"}, NEW pc \in PC
    PROVE  Start(op, pc) \in Progress
  BY Names, Values, Zenon DEF Start, Progress

\* The fields of a request's progress.
LEMMA Fields ==
    ASSUME NEW r \in Progress
    PROVE  /\ r.op \in {"none", "notify", "register", "assign", "update", "load"}
           /\ r.pc \in PC /\ r.id \in Ids /\ r.key \in Nat
           /\ r.todo \subseteq Kinds /\ r.list \subseteq Kinds \cup {None}
           /\ r.given \subseteq Kinds /\ r.prune \in BOOLEAN /\ r.may \in BOOLEAN
           /\ r.vals \in [Ids -> Value] /\ r.snap \in [Ids -> Row]
           /\ r.wrote \subseteq Ids /\ r.overlap \subseteq Ids
  BY Zenon DEF Progress

\* q goes on as it was, but for its overlap.
Undisturbed(q, X) ==
    LET r == proc[q]  s == proc'[q] IN
    /\ s.op = r.op /\ s.pc = r.pc /\ s.id = r.id /\ s.key = r.key
    /\ s.todo = r.todo /\ s.list = r.list /\ s.given = r.given /\ s.prune = r.prune
    /\ s.vals = r.vals /\ s.snap = r.snap /\ s.wrote = r.wrote
    /\ s.overlap = (IF Active(q) THEN r.overlap \cup X ELSE r.overlap)

\* A step of p changes nothing for others but their overlaps.
LEMMA StepEffect ==
    ASSUME TypeOK, NEW p \in Requests, NEW r \in Progress, NEW X \in SUBSET Ids, Step(p, r, X)
    PROVE  /\ proc' \in [Requests -> Progress]
           /\ proc'[p] = r
           /\ \A q \in Requests : q # p => Undisturbed(q, X)
<1>1. \A q \in Requests : proc[q] \in Progress
  BY Zenon DEF TypeOK
<1>2. \A q \in Requests :
        [proc[q] EXCEPT !.overlap = @ \cup X] \in Progress
  BY <1>1, Zenon DEF Progress
<1>3. proc' \in [Requests -> Progress]
  BY <1>1, <1>2, Zenon DEF Step
<1>4. proc'[p] = r
  BY Zenon DEF Step
<1>5. ASSUME NEW q \in Requests, q # p PROVE Undisturbed(q, X)
  <2>1. proc'[q] = IF Active(q) THEN [proc[q] EXCEPT !.overlap = @ \cup X] ELSE proc[q]
    BY <1>5, Zenon DEF Step
  <2> QED
    BY <1>1, <2>1 DEF Undisturbed, Progress
<1> QED
  BY <1>3, <1>4, <1>5, Zenon

-----------------------------------------------------------------------------
(* What a step of one request does to the others.                          *)

\* What is known, authorised, dispatched or there stays so, but for pruning.
Grown ==
    /\ granted \subseteq granted' /\ pruned \subseteq pruned' /\ sent \subseteq sent'
    /\ unsafe \subseteq unsafe' /\ Known \subseteq Known'
    /\ \A x \in Ids : Present(x) => Present(x)' \/ (x \in pruned' /\ x # Client)

\* The invariant of q survives the changes of another to the rows in X.
LEMMA OthersKeep ==
    ASSUME TypeOK, TypeOK', NEW q \in Requests, NEW X \in SUBSET Ids, Good(q), Undisturbed(q, X),
           Grown, \A x \in Ids \ X : rows'[x] = rows[x]
    PROVE  Good(q)'
<1> DEFINE r == proc[q]
           s == proc'[q]
<1>0. proc[q] \in Progress /\ proc'[q] \in Progress
  BY Zenon DEF TypeOK
<1>1. Active(q)' <=> Active(q)
  BY Zenon DEF Undisturbed, Active
<1>2. Sane(q)'
  BY <1>0, Fields, Names, Values, Zenon DEF Good, Sane, Undisturbed, Grown
<1>3. Notifying(q)'
  BY <1>0, <1>1, Fields, Names, Zenon DEF Good, Notifying, Undisturbed, Grown
<1>4. WritesBack(q)'
  BY <1>0, <1>1, Fields, Names DEF Good, WritesBack, Pending, Undisturbed, Active, Upserting, Present
<1>5. Registering(q)'
  BY <1>0, <1>1, Fields, Zenon DEF Good, Registering, First, Undisturbed
<1>6. Isolated(q)'
  BY <1>0, <1>1, Fields DEF Good, Isolated, First, Undisturbed, Present
<1>7. Registered(q)'
  BY <1>0, <1>1, Fields, Names, SMTT(30) DEF Good, Registered, Undisturbed
<1>8. Loading(q)'
  BY <1>0, Fields, Zenon DEF Good, Loading, Undisturbed, Grown
<1> QED
  BY <1>2, <1>3, <1>4, <1>5, <1>6, <1>7, <1>8, Zenon DEF Good

\* So a step of p has to be looked at for p and for the rows only.
LEMMA StepKeeps ==
    ASSUME IndInv, TypeOK', NEW p \in Requests, NEW r \in Progress, NEW X \in SUBSET Ids,
           Step(p, r, X), \A x \in Ids \ X : rows'[x] = rows[x], Grown, RowsInv', Good(p)'
    PROVE  IndInv'
  BY StepEffect, OthersKeep, Zenon DEF IndInv

\* A request that is over.
LEMMA EndedGood ==
    ASSUME TypeOK', Default \in Known', NEW p \in Requests,
           NEW op \in {"none", "notify", "register", "assign", "update"},
           NEW pc \in {"idle", "done", "failed"}, proc'[p] = Start(op, pc)
    PROVE  Good(p)'
<1>1. /\ proc'[p].op = op /\ proc'[p].pc = pc
      /\ proc'[p].vals = [x \in Ids |-> Blank] /\ proc'[p].snap = [x \in Ids |-> NoRow]
  BY DEF Start
<1>2. ~Active(p)'
  BY <1>1, Zenon DEF Active
<1>3. Sane(p)'
  BY <1>1, Names DEF Sane, Proper, NoRow, Blank, Upserting
<1>4. WritesBack(p)'
  BY <1>1, Zenon DEF WritesBack, Pending, Upserting
<1>5. Notifying(p)' /\ Registering(p)' /\ Isolated(p)' /\ Registered(p)' /\ Loading(p)'
  BY <1>1, <1>2, Zenon DEF Notifying, Registering, Isolated, Registered, Loading
<1> QED
  BY <1>3, <1>4, <1>5, Zenon DEF Good

\* A SELECT changes the progress of p alone.
Others == <<templates, sent, granted, pruned, unsafe>>

Same ==
    /\ rows' = rows /\ lastKey' = lastKey /\ templates' = templates /\ sent' = sent
    /\ granted' = granted /\ pruned' = pruned /\ unsafe' = unsafe /\ Known' = Known
    /\ \A x \in Ids : Present(x)' <=> Present(x)

LEMMA ReadEffect ==
    ASSUME TypeOK, NEW p \in Requests, NEW r \in Progress, Read(p, r), UNCHANGED Others
    PROVE  TypeOK' /\ proc'[p] = r /\ Same
<1>1. Step(p, r, {}) /\ rows' = rows /\ lastKey' = lastKey
  BY Zenon DEF Read, tables
<1>2. proc' \in [Requests -> Progress] /\ proc'[p] = r
  BY <1>1, StepEffect, Zenon
<1> QED
  BY <1>1, <1>2, Zenon DEF TypeOK, Others, Known, Same, Present

LEMMA ReadKeeps ==
    ASSUME IndInv, NEW p \in Requests, NEW r \in Progress, Read(p, r), UNCHANGED Others,
           Good(p)'
    PROVE  IndInv'
<1> USE DEF IndInv, Same
<1>1. TypeOK' /\ proc'[p] = r /\ Same
  BY ReadEffect, Zenon
<1>2. RowsInv'
  BY <1>1, Zenon DEF RowsInv, CriticalAuthorised, DispatchedRegistered
<1>3. Grown
  BY <1>1, Zenon DEF Grown, Present
<1>4. Step(p, r, {}) /\ \A x \in Ids \ {} : rows'[x] = rows[x]
  BY <1>1, Zenon DEF Read
<1> QED
  BY <1>1, <1>2, <1>3, <1>4, StepKeeps, Zenon

\* A SELECT that ends the request.
LEMMA ReadEnds ==
    ASSUME IndInv, NEW p \in Requests,
           NEW op \in {"none", "notify", "register", "assign", "update"},
           NEW pc \in {"done", "failed"}, Read(p, Start(op, pc)), UNCHANGED Others
    PROVE  IndInv'
<1>1. Start(op, pc) \in Progress
  BY StartType, Zenon DEF PC
<1>2. TypeOK' /\ proc'[p] = Start(op, pc) /\ Known' = Known
  BY <1>1, ReadEffect, Zenon DEF IndInv, Same
<1>3. Good(p)'
  BY <1>2, EndedGood, Zenon DEF IndInv, RowsInv
<1> QED
  BY <1>1, <1>3, ReadKeeps, Zenon

LEMMA FindClientKeeps ==
    ASSUME IndInv, NEW p \in Requests, FindClient(p)
    PROVE  IndInv'
<1> USE DEF IndInv, Same
<1> PICK k \in proc[p].list :
         /\ proc[p].op = "notify" /\ proc[p].pc = "client"
         /\ Read(p, [proc[p] EXCEPT !.vals[Client] = Found(rows[Client]),
                                    !.todo = {k} \ {None},
                                    !.pc = IF k = None THEN "find" ELSE "kind"])
         /\ UNCHANGED Others
  BY Zenon DEF FindClient, history, Others
<1> DEFINE v == [proc[p].vals EXCEPT ![Client] = Found(rows[Client])]
           r == [proc[p] EXCEPT !.vals = v, !.todo = {k} \ {None},
                                !.pc = IF k = None THEN "find" ELSE "kind"]
<1>0. proc[p] \in Progress /\ rows \in [Ids -> Row] /\ rows[Client] \in Row
  BY Names, Zenon DEF TypeOK
<1>1. v \in [Ids -> Value] /\ {k} \ {None} \subseteq Kinds /\ k \in Kinds \cup {None}
  BY <1>0, Fields, Names, Values
<1>2. r \in Progress
  BY <1>0, <1>1, Zenon DEF Progress, PC
<1>3. Read(p, r)
  BY Zenon
<1> HIDE DEF r, v
<1>4. TypeOK' /\ proc'[p] = r /\ Same
  BY <1>2, <1>3, ReadEffect, Zenon
<1>5. /\ r.op = "notify" /\ r.pc = (IF k = None THEN "find" ELSE "kind") /\ r.id = proc[p].id
      /\ r.todo = {k} \ {None} /\ r.list = proc[p].list /\ r.snap = proc[p].snap
      /\ r.vals = v /\ r.wrote = proc[p].wrote /\ r.overlap = proc[p].overlap
  BY <1>0, Zenon DEF r, Progress
<1>6. /\ v[Client] = Found(rows[Client])
      /\ \A x \in Kinds : v[x] = proc[p].vals[x]
  BY <1>0, Fields, Names DEF v
<1>7. Sane(p)'
  BY <1>0, <1>4, <1>5, <1>6, Names DEF Good, Sane, RowsInv, Upserting, Found, Blank
<1>8. Notifying(p)'
  BY <1>0, <1>1, <1>4, <1>5, Names DEF Good, Notifying, Upserting, Active
<1>9. WritesBack(p)'
  BY <1>0, <1>4, <1>5, <1>6, <1>8, Names DEF WritesBack, Pending, Notifying, Upserting, Present, Found, Active
<1>10. Registering(p)' /\ Isolated(p)' /\ Registered(p)' /\ Loading(p)'
  BY <1>4, <1>5, Zenon DEF Registering, Isolated, Registered, Loading
<1> QED
  BY <1>2, <1>3, <1>7, <1>8, <1>9, <1>10, ReadKeeps, Zenon DEF Good

LEMMA FindKindKeeps ==
    ASSUME IndInv, NEW p \in Requests, FindKind(p)
    PROVE  IndInv'
<1> USE DEF IndInv, Same
<1> PICK k \in proc[p].list :
         /\ proc[p].op = "notify" /\ proc[p].pc = "kind"
         /\ Read(p, IF rows[k].critical /\ ~proc[p].may THEN Start("notify", "failed")
                    ELSE [proc[p] EXCEPT !.vals[k] = Found(rows[k]), !.pc = "find",
                                         !.may = FALSE])
         /\ UNCHANGED Others
  BY Zenon DEF FindKind, history, Others
<1>a. CASE rows[k].critical /\ ~proc[p].may
  BY <1>a, ReadEnds, Zenon
<1>b. CASE ~(rows[k].critical /\ ~proc[p].may)
  <2> DEFINE v == [proc[p].vals EXCEPT ![k] = Found(rows[k])]
             r == [proc[p] EXCEPT !.vals = v, !.pc = "find", !.may = FALSE]
  <2>0. proc[p] \in Progress /\ rows \in [Ids -> Row]
    BY Zenon DEF TypeOK
  <2>1. k \in Kinds /\ proc[p].todo = proc[p].list /\ proc[p].id = Client
    BY <2>0, Fields, Zenon DEF Good, Notifying, Active
  <2>2. v \in [Ids -> Value]
    BY <2>0, <2>1, Fields, Names, Values, Zenon
  <2>3. r \in Progress
    BY <2>0, <2>2, Zenon DEF Progress, PC
  <2>4. Read(p, r)
    BY <1>b, Zenon
  <2> HIDE DEF r, v
  <2>5. TypeOK' /\ proc'[p] = r /\ Same
    BY <2>3, <2>4, ReadEffect, Zenon
  <2>6. /\ r.op = "notify" /\ r.pc = "find" /\ r.id = proc[p].id
        /\ r.todo = proc[p].todo /\ r.list = proc[p].list /\ r.snap = proc[p].snap
        /\ r.vals = v /\ r.wrote = proc[p].wrote /\ r.overlap = proc[p].overlap
    BY <2>0, Zenon DEF r, Progress
  <2>7. /\ v[k] = Found(rows[k])
        /\ \A x \in Ids : x # k => v[x] = proc[p].vals[x]
    BY <2>0, <2>1, Fields, Names DEF v
  <2>8. Sane(p)'
    BY <2>0, <2>1, <2>5, <2>6, <2>7, Names
       DEF Good, Sane, RowsInv, CriticalAuthorised, Upserting, Found, Blank
  <2>9. Notifying(p)'
    BY <2>0, <2>1, <2>5, <2>6, Names DEF Good, Notifying, Upserting, Active
  <2>10. WritesBack(p)'
    BY <2>0, <2>1, <2>5, <2>6, <2>7, Names
       DEF Good, WritesBack, Pending, Notifying, Upserting, Present, Found, Active
  <2>11. Registering(p)' /\ Isolated(p)' /\ Registered(p)' /\ Loading(p)'
    BY <2>5, <2>6, Zenon DEF Registering, Isolated, Registered, Loading
  <2> QED
    BY <2>3, <2>4, <2>8, <2>9, <2>10, <2>11, ReadKeeps, Zenon DEF Good
<1> QED
  BY <1>a, <1>b, Zenon

\* Only the request itself is concerned where it is neither a notify request
\* nor a registration nor a lookup.
LEMMA PlainGood ==
    ASSUME NEW p \in Requests, Sane(p)', proc'[p].op \in {"assign", "update"}
    PROVE  Good(p)'
  BY Zenon DEF Good, Notifying, WritesBack, Registering, Isolated, Registered, Loading

LEMMA FindRowKeeps ==
    ASSUME IndInv, NEW p \in Requests, FindRow(p)
    PROVE  IndInv'
<1> USE DEF IndInv, Same
<1> DEFINE x == proc[p].id
           v == [proc[p].vals EXCEPT ![x].critical = rows[x].critical]
           r == [proc[p] EXCEPT !.vals = v, !.pc = "template"]
<1>0. proc[p] \in Progress /\ rows \in [Ids -> Row] /\ proc[p].pc = "row" /\ UNCHANGED Others
  BY Zenon DEF TypeOK, FindRow, history, Others
<1>1. proc[p].op = "assign" /\ x \in Ids
  BY <1>0, Fields, Zenon DEF Good, Sane
<1>a. CASE rows[x] = NoRow
  BY <1>a, <1>0, ReadEnds, Zenon DEF FindRow
<1>b. CASE rows[x] # NoRow
  <2>1. Read(p, r)
    BY <1>b, Zenon DEF FindRow
  <2>2. /\ v \in [Ids -> Value]
        /\ \A y \in Kinds : v[y].critical => proc[p].vals[y].critical \/ rows[y].critical
        /\ \A y \in Ids : v[y].template = proc[p].vals[y].template
    BY <1>0, <1>1, Fields, Names, Values, SMTT(60) DEF Value
  <2>3. r \in Progress
    BY <1>0, <2>2, Zenon DEF Progress, PC
  <2> HIDE DEF r, v
  <2>4. TypeOK' /\ proc'[p] = r /\ Same
    BY <1>0, <2>1, <2>3, ReadEffect, Zenon
  <2>5. /\ r.op = "assign" /\ r.pc = "template" /\ r.vals = v /\ r.snap = proc[p].snap
        /\ r.id = proc[p].id
    BY <1>0, <1>1, Zenon DEF r, Progress
  <2>6. Sane(p)'
    BY <2>2, <2>4, <2>5, Zenon DEF Good, Sane, RowsInv, CriticalAuthorised, Upserting
  <2> QED
    BY <1>0, <2>1, <2>3, <2>4, <2>5, <2>6, PlainGood, ReadKeeps, Zenon
<1> QED
  BY <1>a, <1>b, Zenon

LEMMA FindTemplateKeeps ==
    ASSUME IndInv, NEW p \in Requests, FindTemplate(p)
    PROVE  IndInv'
<1> USE DEF IndInv, Same
<1> DEFINE r == [proc[p] EXCEPT !.pc = "refind"]
           t == proc[p].vals[proc[p].id].template
<1>0. /\ proc[p] \in Progress /\ proc[p].op = "assign" /\ proc[p].pc = "template"
      /\ UNCHANGED Others
  BY Zenon DEF TypeOK, FindTemplate, history, Others
<1>a. CASE t \notin templates
  BY <1>a, <1>0, ReadEnds, Zenon DEF FindTemplate
<1>b. CASE t \in templates
  <2>1. Read(p, r)
    BY <1>b, Zenon DEF FindTemplate
  <2>3. r \in Progress
    BY <1>0, Zenon DEF Progress, PC
  <2>5. /\ r.op = "assign" /\ r.pc = "refind" /\ r.vals = proc[p].vals /\ r.snap = proc[p].snap
    BY <1>0, Zenon DEF Progress
  <2> HIDE DEF r
  <2>4. TypeOK' /\ proc'[p] = r /\ Same
    BY <1>0, <2>1, <2>3, ReadEffect, Zenon
  <2>6. Sane(p)'
    BY <1>b, <2>4, <2>5, Zenon DEF Good, Sane, Upserting, Known
  <2> QED
    BY <1>0, <2>1, <2>3, <2>4, <2>5, <2>6, PlainGood, ReadKeeps, Zenon
<1> QED
  BY <1>a, <1>b, Zenon

\* The first Find of a registration takes the snapshot.
LEMMA FindKeeps ==
    ASSUME IndInv, NEW p \in Requests, Find(p)
    PROVE  IndInv'
<1> DEFINE pc == IF View(p)[proc[p].id] = NoRow THEN "insert" ELSE "refind"
           s == IF First(p) THEN rows ELSE proc[p].snap
           r == [proc[p] EXCEPT !.pc = pc, !.snap = s]
<1>0. TypeOK /\ RowsInv /\ Good(p)
  BY Zenon DEF IndInv
<1>1. /\ proc[p] \in Progress /\ proc[p].pc = "find" /\ rows \in [Ids -> Row]
      /\ s \in [Ids -> Row] /\ Read(p, r) /\ UNCHANGED Others
  BY <1>0, Fields, Zenon DEF TypeOK, Find, history, Others
<1>2. pc \in {"insert", "refind"}
  BY Zenon
<1> HIDE DEF pc
<1>3. r \in Progress
  BY <1>1, <1>2, Zenon DEF Progress, PC
<1>4. TypeOK' /\ proc'[p] = r /\ Same
  BY <1>0, <1>1, <1>3, ReadEffect, Zenon
<1>5. /\ proc'[p].op = proc[p].op /\ proc'[p].pc = pc /\ proc'[p].id = proc[p].id
      /\ proc'[p].todo = proc[p].todo /\ proc'[p].list = proc[p].list
      /\ proc'[p].given = proc[p].given
      /\ proc'[p].prune = proc[p].prune /\ proc'[p].vals = proc[p].vals /\ proc'[p].snap = s
      /\ proc'[p].wrote = proc[p].wrote /\ proc'[p].overlap = proc[p].overlap
  BY <1>1, <1>4, Zenon DEF Progress
<1>6. Active(p) /\ Active(p)' /\ ~First(p)' /\ proc[p].op \in {"notify", "register"}
  BY <1>0, <1>1, <1>2, <1>5, Zenon DEF Active, First, Good, Sane
<1>7. First(p) => proc[p].op = "register" /\ proc[p].id = Client
  BY Zenon DEF First
<1> HIDE DEF r
<1>8. Sane(p)'
  BY <1>0, <1>1, <1>2, <1>4, <1>5, <1>6, Names, Zenon
     DEF Good, Sane, RowsInv, CriticalAuthorised, Upserting, Same
<1>9. Notifying(p)'
  BY <1>0, <1>1, <1>2, <1>4, <1>5, <1>6, Names, Zenon DEF Good, Notifying, Upserting, Same
<1>10. WritesBack(p)'
  BY <1>0, <1>1, <1>2, <1>4, <1>5, Zenon DEF Good, WritesBack, Pending, Upserting, Same
<1>11. Registering(p)'
  BY <1>0, <1>1, <1>2, <1>5, <1>6, Zenon DEF Good, Registering, Upserting, First
<1>12. Isolated(p)'
  <2>1. First(p) => proc[p].wrote = {}
    BY <1>0, <1>6, <1>7, Zenon DEF Good, Registering
  <2> QED
    BY <1>0, <1>4, <1>5, <1>6, <2>1, Zenon DEF Good, Isolated, Same
<1>13. Registered(p)'
  <2>1. First(p) => proc[p].list = proc[p].todo
    BY <1>0, <1>1, <1>6, <1>7, Zenon DEF Good, Registering, Upserting
  <2> QED
    BY <1>0, <1>1, <1>2, <1>5, <1>6, <2>1, ZenonT(40) DEF Good, Registered
<1>14. Loading(p)'
  BY <1>5, <1>6, Zenon DEF Loading
<1> QED
  BY <1>1, <1>3, <1>8, <1>9, <1>10, <1>11, <1>12, <1>13, <1>14, ReadKeeps, Zenon DEF Good

\* The Find of Update: the template is left alone if it is the empty one.
LEMMA RefindKeeps ==
    ASSUME IndInv, NEW p \in Requests, Refind(p)
    PROVE  IndInv'
<1> DEFINE x == proc[p].id
           row == View(p)[x]
           t == IF proc[p].vals[x].template = None THEN row.template
                ELSE proc[p].vals[x].template
           v == [proc[p].vals EXCEPT ![x].template = t]
           r == [proc[p] EXCEPT !.pc = "write", !.key = row.key, !.vals = v]
<1>0. TypeOK /\ RowsInv /\ Good(p)
  BY Zenon DEF IndInv
<1>1. /\ proc[p] \in Progress /\ proc[p].pc = "refind" /\ UNCHANGED Others
      /\ rows \in [Ids -> Row] /\ x \in Ids /\ Active(p) /\ ~First(p)
      /\ proc[p].op \in {"notify", "register", "assign", "update"}
  BY <1>0, Fields, Zenon DEF TypeOK, Refind, history, Others, Active, Good, Sane, Upserting, First
<1>2. /\ row \in Row /\ Proper(row) /\ row.template \in Known
      /\ row = IF proc[p].op = "register" THEN proc[p].snap[x] ELSE rows[x]
  BY <1>0, <1>1, Fields, Zenon DEF View, Good, Sane, RowsInv
<1>a. CASE row = NoRow
  BY <1>a, <1>1, ReadEnds, Zenon DEF Refind
<1>b. CASE row # NoRow
  <2>1. Read(p, r)
    BY <1>b, Zenon DEF Refind
  <2>2. row.key \in Nat /\ row.key > 0 /\ row.template \in Templates \cup {Default}
    BY <1>b, <1>2, Values, Zenon DEF Proper
  <2>3. /\ t \in Templates \cup {Default} /\ t \in Known
        /\ t = proc[p].vals[x].template \/ (t = row.template /\ proc[p].vals[x].template = None)
    <3>1. proc[p].vals[x].template \in Templates \cup {Default, None}
      BY <1>1, Fields, Values, Zenon
    <3>2. proc[p].vals[x].template \in Known \cup {None}
      BY <1>0, <1>1, Zenon DEF Good, Sane
    <3> QED
      BY <1>2, <2>2, <3>1, <3>2, Zenon
  <2> HIDE DEF t, row
  <2>4. /\ v \in [Ids -> Value] /\ v[x].template = t
        /\ \A y \in Ids : v[y].critical = proc[p].vals[y].critical
        /\ \A y \in Ids : y # x => v[y] = proc[p].vals[y]
    BY <1>1, <2>3, Fields, SMTT(30) DEF Value
  <2> HIDE DEF v
  <2>5. r \in Progress
    BY <1>1, <2>2, <2>4, Zenon DEF Progress, PC
  <2>6. TypeOK' /\ proc'[p] = r /\ Same
    BY <1>0, <1>1, <2>1, <2>5, ReadEffect, Zenon
  <2>7. /\ proc'[p].op = proc[p].op /\ proc'[p].pc = "write" /\ proc'[p].id = x
        /\ proc'[p].todo = proc[p].todo /\ proc'[p].list = proc[p].list
        /\ proc'[p].given = proc[p].given
        /\ proc'[p].prune = proc[p].prune /\ proc'[p].vals = v /\ proc'[p].key = row.key
        /\ proc'[p].snap = proc[p].snap /\ proc'[p].wrote = proc[p].wrote
        /\ proc'[p].overlap = proc[p].overlap
    BY <1>1, <2>6, Zenon DEF Progress
  <2> HIDE DEF r
  <2>8. Active(p)' /\ ~First(p)'
    BY <2>7, Zenon DEF Active, First
  <2>9. Sane(p)'
    BY <1>0, <1>1, <2>2, <2>3, <2>4, <2>6, <2>7, Names, ZenonT(30) DEF Good, Sane, Upserting, Same
  <2>10. Notifying(p)'
    BY <1>0, <1>1, <2>6, <2>7, <2>8, Names, Zenon DEF Good, Notifying, Upserting, Same
  <2>11. WritesBack(p)'
    <3> SUFFICES ASSUME proc[p].op = "notify", NEW y \in Ids \ proc[p].overlap,
                        Pending(p, y), Present(y)
                 PROVE  v[y].critical = rows[y].critical /\ v[y].template = rows[y].template
      BY <1>1, <2>6, <2>7, Zenon DEF WritesBack, Pending, Upserting, Same
    <3>1. /\ proc[p].vals[y].critical = rows[y].critical
          /\ proc[p].vals[y].template = rows[y].template
      BY <1>0, Zenon DEF Good, WritesBack
    <3> QED
      BY <1>1, <1>2, <2>3, <2>4, <3>1, Zenon
  <2>12. Registering(p)'
    BY <1>0, <1>1, <2>7, <2>8, Zenon DEF Good, Registering, Upserting
  <2>13. Isolated(p)'
    BY <1>0, <1>1, <2>6, <2>7, <2>8, Zenon DEF Good, Isolated, Same
  <2>14. Registered(p)'
    <3>1. ASSUME proc[p].op = "register"
          PROVE  /\ proc[p].todo \subseteq Kinds /\ x \notin proc[p].todo
                 /\ proc[p].vals[x].template = None <=> x \notin proc[p].given
                 /\ row = proc[p].snap[x]
      BY <3>1, <1>0, <1>1, <1>2, Names, Zenon DEF Good, Registering, Registered
    <3>2. proc[p].list \subseteq Ids \cup {None}
      BY <1>1, Fields, Names, Zenon
    <3> SUFFICES ASSUME proc[p].op = "register" PROVE Registered(p)'
      BY <2>7, Zenon DEF Registered
    <3>3. \A y \in proc[p].todo : v[y].template = None <=> y \notin proc[p].given
      <4>1. Active(p) /\ \A y \in proc[p].todo : y \in Ids /\ y # x
        BY <1>1, <3>1, Names, Zenon DEF Active
      <4>2. \A y \in proc[p].todo : proc[p].vals[y].template = None <=> y \notin proc[p].given
        BY <1>0, <4>1, Zenon DEF Good, Registered
      <4> QED
        BY <2>4, <4>1, <4>2, Zenon
    <3>4. t = row.template \/ x \in proc[p].given
      BY <2>3, <3>1, Names, Zenon
    <3>5. \A k \in (proc[p].list \ proc[p].todo) \ proc[p].overlap : k # x =>
            /\ k \in proc[p].wrote /\ proc[p].snap[k] # NoRow
            /\ proc[p].snap[k].critical = proc[p].vals[k].critical
            /\ k \in proc[p].given => proc[p].snap[k].template = proc[p].vals[k].template
      BY <1>0, <1>1, Zenon DEF Good, Registered
    <3>6. proc[p].list \subseteq Ids
      BY <1>0, <1>1, Names, Zenon DEF Good, Registering
    <3>7. \A k \in (proc[p].list \ proc[p].todo) \ proc[p].overlap : k # x =>
            /\ k \in proc'[p].wrote /\ proc'[p].snap[k] # NoRow
            /\ proc'[p].snap[k].critical = proc'[p].vals[k].critical
            /\ k \in proc'[p].given => proc'[p].snap[k].template = proc'[p].vals[k].template
      BY <2>4, <2>7, <3>5, <3>6, Zenon
    <3> QED
      BY <1>b, <2>4, <2>7, <3>1, <3>3, <3>4, <3>7, Zenon DEF Registered
  <2>15. Loading(p)'
    BY <1>1, <2>7, Zenon DEF Loading
  <2> QED
    BY <1>1, <2>1, <2>5, <2>9, <2>10, <2>11, <2>12, <2>13, <2>14, <2>15, ReadKeeps, Zenon DEF Good
<1> QED
  BY <1>a, <1>b, Zenon

\* A lookup finds the kind, or a registration has removed it.
LEMMA LoadKindKeeps ==
    ASSUME IndInv, NEW p \in Requests, LoadKind(p)
    PROVE  IndInv'
<1> PICK k \in proc[p].list :
         /\ proc[p].op = "load" /\ proc[p].pc = "kind"
         /\ Read(p, [proc[p] EXCEPT
                       !.id = k,
                       !.vals[k].template = IF rows[k] = NoRow THEN None ELSE rows[k].template,
                       !.pc = IF rows[k] = NoRow THEN "failed"
                              ELSE IF rows[k].template = Default THEN "client" ELSE "template"])
         /\ UNCHANGED Others
  BY Zenon DEF LoadKind, history, Others
<1> DEFINE t == IF rows[k] = NoRow THEN None ELSE rows[k].template
           pc == IF rows[k] = NoRow THEN "failed"
                 ELSE IF rows[k].template = Default THEN "client" ELSE "template"
           v == [proc[p].vals EXCEPT ![k].template = t]
           r == [proc[p] EXCEPT !.id = k, !.vals = v, !.pc = pc]
<1>0. TypeOK /\ RowsInv /\ Good(p) /\ proc[p] \in Progress /\ rows \in [Ids -> Row]
  BY Zenon DEF IndInv, TypeOK
<1>1. k \in Kinds /\ k \in sent /\ k \in Ids /\ k # None
  BY <1>0, Names, Zenon DEF Good, Loading
<1>2. /\ t \in Templates \cup {Default, None} /\ t \in Known \cup {None}
      /\ pc \in {"failed", "client", "template"}
      /\ pc = "failed" => k \in pruned
      /\ pc = "template" => t \in Known
  BY <1>0, <1>1, Values, Zenon DEF RowsInv, DispatchedRegistered
<1>3. Read(p, r) /\ UNCHANGED Others
  BY Zenon
<1> HIDE DEF t, pc
<1>4. /\ v \in [Ids -> Value] /\ v[k].template = t
      /\ \A y \in Ids : v[y].critical = proc[p].vals[y].critical
      /\ \A y \in Ids : y # k => v[y] = proc[p].vals[y]
  BY <1>0, <1>1, <1>2, Fields, SMTT(30) DEF Value
<1> HIDE DEF v
<1>5. r \in Progress
  BY <1>0, <1>1, <1>2, <1>4, Zenon DEF Progress, PC
<1>6. TypeOK' /\ proc'[p] = r /\ Same
  BY <1>0, <1>3, <1>5, ReadEffect, Zenon
<1>7. /\ proc'[p].op = "load" /\ proc'[p].pc = pc /\ proc'[p].id = k
      /\ proc'[p].list = proc[p].list /\ proc'[p].vals = v /\ proc'[p].snap = proc[p].snap
  BY <1>0, <1>6, Zenon DEF Progress
<1> HIDE DEF r
<1>8. Sane(p)'
  BY <1>0, <1>2, <1>4, <1>6, <1>7, Names, Zenon DEF Good, Sane, Upserting, Same
<1>9. Loading(p)'
  BY <1>0, <1>2, <1>4, <1>6, <1>7, Zenon DEF Good, Loading, Same
<1>10. /\ Notifying(p)' /\ WritesBack(p)' /\ Registering(p)' /\ Isolated(p)' /\ Registered(p)'
  BY <1>7, Zenon DEF Notifying, WritesBack, Registering, Isolated, Registered
<1> QED
  BY <1>3, <1>5, <1>8, <1>9, <1>10, ReadKeeps, Zenon DEF Good

\* The client of a kind that was dispatched is there.
LEMMA LoadClientKeeps ==
    ASSUME IndInv, NEW p \in Requests, LoadClient(p)
    PROVE  IndInv'
<1> DEFINE t == rows[Client].template
           v == [proc[p].vals EXCEPT ![Client].template = t]
           r == [proc[p] EXCEPT !.id = Client, !.vals = v, !.pc = "template"]
<1>0. TypeOK /\ RowsInv /\ Good(p) /\ proc[p] \in Progress /\ rows \in [Ids -> Row]
  BY Zenon DEF IndInv, TypeOK
<1>1. /\ proc[p].op = "load" /\ proc[p].pc = "client" /\ UNCHANGED Others
      /\ rows[Client] # NoRow
  BY <1>0, Zenon DEF LoadClient, history, Others, Good, Loading, RowsInv, DispatchedRegistered
<1>2. t \in Templates \cup {Default} /\ t \in Known
  BY <1>0, Names, Values, Zenon DEF RowsInv
<1>3. Read(p, r)
  BY <1>1, Zenon DEF LoadClient
<1> HIDE DEF t
<1>4. /\ v \in [Ids -> Value] /\ v[Client].template = t
      /\ \A y \in Ids : v[y].critical = proc[p].vals[y].critical
      /\ \A y \in Ids : y # Client => v[y] = proc[p].vals[y]
  BY <1>0, <1>2, Fields, Names DEF Value
<1> HIDE DEF v
<1>5. r \in Progress
  BY <1>0, <1>4, Names, Zenon DEF Progress, PC
<1>6. TypeOK' /\ proc'[p] = r /\ Same
  BY <1>0, <1>1, <1>3, <1>5, ReadEffect, Zenon
<1>7. /\ proc'[p].op = "load" /\ proc'[p].pc = "template" /\ proc'[p].id = Client
      /\ proc'[p].list = proc[p].list /\ proc'[p].vals = v /\ proc'[p].snap = proc[p].snap
  BY <1>0, <1>1, <1>6, Zenon DEF Progress
<1> HIDE DEF r
<1>8. Sane(p)'
  BY <1>0, <1>1, <1>2, <1>4, <1>6, <1>7, Names, Zenon DEF Good, Sane, Upserting, Same
<1>9. Loading(p)'
  BY <1>2, <1>4, <1>6, <1>7, Zenon DEF Loading, Same
<1>10. /\ Notifying(p)' /\ WritesBack(p)' /\ Registering(p)' /\ Isolated(p)' /\ Registered(p)'
  BY <1>7, Zenon DEF Notifying, WritesBack, Registering, Isolated, Registered
<1> QED
  BY <1>1, <1>3, <1>5, <1>8, <1>9, <1>10, ReadKeeps, Zenon DEF Good

\* A template that a row names and that does not exist is accounted for.
LEMMA LoadTemplateKeeps ==
    ASSUME IndInv, NEW p \in Requests, LoadTemplate(p)
    PROVE  IndInv'
<1> DEFINE t == proc[p].vals[proc[p].id].template
           pc == IF t \in templates THEN "done" ELSE "failed"
           r == [proc[p] EXCEPT !.pc = pc]
<1>0. TypeOK /\ RowsInv /\ Good(p) /\ proc[p] \in Progress
  BY Zenon DEF IndInv, TypeOK
<1>1. /\ proc[p].op = "load" /\ proc[p].pc = "template" /\ UNCHANGED Others /\ Read(p, r)
  BY Zenon DEF LoadTemplate, history, Others
<1>2. pc \in {"done", "failed"} /\ (pc = "failed" => t \in unsafe)
  BY <1>0, <1>1, Zenon DEF Good, Loading, Known
<1> HIDE DEF pc
<1>5. r \in Progress
  BY <1>0, <1>2, Zenon DEF Progress, PC
<1>6. TypeOK' /\ proc'[p] = r /\ Same
  BY <1>0, <1>1, <1>5, ReadEffect, Zenon
<1>7. /\ proc'[p].op = "load" /\ proc'[p].pc = pc /\ proc'[p].id = proc[p].id
      /\ proc'[p].vals = proc[p].vals /\ proc'[p].snap = proc[p].snap
  BY <1>0, <1>1, <1>6, Zenon DEF Progress
<1> HIDE DEF r
<1>8. Sane(p)'
  BY <1>0, <1>1, <1>2, <1>6, <1>7, Zenon DEF Good, Sane, Upserting, Same
<1>9. Loading(p)'
  BY <1>2, <1>6, <1>7, Zenon DEF Loading, Same
<1>10. /\ Notifying(p)' /\ WritesBack(p)' /\ Registering(p)' /\ Isolated(p)' /\ Registered(p)'
  BY <1>7, Zenon DEF Notifying, WritesBack, Registering, Isolated, Registered
<1> QED
  BY <1>1, <1>5, <1>8, <1>9, <1>10, ReadKeeps, Zenon DEF Good

-----------------------------------------------------------------------------
(* From one row to the next.                                               *)

\* What NextRow does to a notify request or a registration.
Onward(p, r) ==
    /\ r.op = proc[p].op /\ r.list = proc[p].list /\ r.prune = proc[p].prune
    /\ r.vals = proc[p].vals /\ r.snap = proc[p].snap /\ r.wrote = proc[p].wrote
    /\ r.overlap = proc[p].overlap /\ r.given = proc[p].given
    /\ \/ r.id \in proc[p].todo /\ r.pc = "find" /\ r.todo = proc[p].todo \ {r.id}
       \/ /\ proc[p].todo = {} /\ r.todo = {} /\ r.id = proc[p].id
          /\ r.pc \in {"dispatch", "prune", "commit"}
          /\ r.pc = "dispatch" <=> r.op = "notify"
          /\ r.pc = "commit" => ~r.prune

LEMMA NextRowOnward ==
    ASSUME NEW p \in Requests, proc[p] \in Progress, proc[p].op \in {"notify", "register"},
           NEW r \in NextRow(p)
    PROVE  r \in Progress /\ Onward(p, r)
<1>1. proc[p].todo \subseteq Kinds /\ proc[p].prune \in BOOLEAN
  BY Fields, Zenon
<1>2. CASE proc[p].todo # {}
  <2>1. PICK k \in proc[p].todo : r = [proc[p] EXCEPT !.pc = "find", !.id = k, !.todo = @ \ {k}]
    BY <1>2, Zenon DEF NextRow
  <2> QED
    BY <1>1, <2>1, Names, Zenon DEF Onward, Progress, PC
<1>3. CASE proc[p].todo = {}
  <2> DEFINE pc == IF proc[p].op = "notify" THEN "dispatch"
                   ELSE IF proc[p].prune THEN "prune" ELSE "commit"
  <2>1. r = [proc[p] EXCEPT !.pc = pc]
    BY <1>3, Zenon DEF NextRow
  <2> QED
    BY <1>1, <1>3, <2>1, Zenon DEF Onward, Progress, PC
<1> QED
  BY <1>2, <1>3, Zenon

\* The client is there before the kind is looked at, and both are there before
\* the notify request is dispatched.
LEMMA OnwardNotifying ==
    ASSUME NEW p \in Requests, TypeOK, Notifying(p), proc[p].op = "notify",
           proc[p].pc \in Upserting, Onward(p, proc'[p]), rows'[proc[p].id] # NoRow,
           Present(Client) => Present(Client)'
    PROVE  Notifying(p)'
<1>0. proc[p] \in Progress /\ proc[p].todo \subseteq Kinds /\ proc[p].list \subseteq Kinds \cup {None}
  BY Fields, Zenon DEF TypeOK
<1>1. Active(p)
  BY Zenon DEF Active, Upserting
<1>2. \A k, l \in proc[p].list : k = l
  BY <1>1, Zenon DEF Notifying
<1>3. \/ proc[p].id = Client /\ proc[p].todo = proc[p].list \ {None}
      \/ proc[p].id \in Kinds /\ proc[p].todo = {} /\ proc[p].list \subseteq {proc[p].id}
         /\ Present(Client)
  BY <1>1, Zenon DEF Notifying
<1>4. Present(Client)'
  BY <1>3, Zenon DEF Present
<1>5. CASE proc'[p].id \in proc[p].todo
  <2>1. proc'[p].pc = "find" /\ proc'[p].todo = proc[p].todo \ {proc'[p].id}
        /\ proc'[p].list = proc[p].list
    BY <1>5, Zenon DEF Onward
  <2>2. proc'[p].id \in Kinds /\ proc'[p].id \in proc[p].list /\ proc[p].todo \subseteq proc[p].list
    BY <1>0, <1>3, <1>5, Zenon
  <2>3. proc'[p].todo = {} /\ proc'[p].list \subseteq {proc'[p].id}
    BY <1>2, <2>1, <2>2, Zenon
  <2> QED
    BY <1>2, <1>4, <2>1, <2>2, <2>3, Zenon DEF Notifying, Upserting
<1>6. CASE proc'[p].id \notin proc[p].todo
  <2>1. proc'[p].pc = "dispatch" /\ proc[p].todo = {} /\ proc'[p].list = proc[p].list
    BY <1>6, Zenon DEF Onward
  <2>2. \A k \in proc[p].list \ {None} : Present(k)'
    BY <1>3, <2>1, Zenon DEF Present
  <2> QED
    BY <1>2, <1>4, <2>1, <2>2, Zenon DEF Notifying, Upserting
<1> QED
  BY <1>5, <1>6, Zenon

\* The Find that ends an Update: on to the next row.
LEMMA ConfirmKeeps ==
    ASSUME IndInv, NEW p \in Requests, Confirm(p)
    PROVE  IndInv'
<1> DEFINE x == proc[p].id
<1>0. TypeOK /\ RowsInv /\ Good(p)
  BY Zenon DEF IndInv
<1>1. /\ proc[p] \in Progress /\ proc[p].pc = "confirm" /\ UNCHANGED Others /\ x \in Ids
      /\ proc[p].op \in {"notify", "register", "assign", "update"} /\ Active(p) /\ ~First(p)
  BY <1>0, Fields, Zenon DEF TypeOK, Confirm, history, Others, Active, Good, Sane, Upserting, First
<1>a. CASE View(p)[x] = NoRow
  BY <1>a, <1>1, ReadEnds, Zenon DEF Confirm
<1>b. CASE View(p)[x] # NoRow
  <2>0. PICK r \in NextRow(p) : Read(p, r)
    BY <1>b, Zenon DEF Confirm
  <2>a. CASE proc[p].op \in {"assign", "update"}
    <3>1. r = Start(proc[p].op, "done")
      BY <2>a, Zenon DEF NextRow
    <3> QED
      BY <1>1, <2>0, <2>a, <3>1, ReadEnds, Zenon
  <2>b. CASE proc[p].op \in {"notify", "register"}
    <3>1. r \in Progress /\ Onward(p, r)
      BY <1>1, <2>b, NextRowOnward, Zenon
    <3>2. TypeOK' /\ proc'[p] = r /\ Same
      BY <1>0, <1>1, <2>0, <3>1, ReadEffect, Zenon
    <3>3. Onward(p, proc'[p])
      BY <3>1, <3>2, Zenon
    <3>4. proc[p].todo \subseteq Kinds
      BY <1>1, Fields, Zenon
    <3>5. ~First(p)' /\ Active(p)'
      BY <3>3, <3>4, <1>1, <2>b, Names, Zenon DEF Onward, First, Active
    <3>6. Sane(p)'
      BY <1>0, <1>1, <2>b, <3>2, <3>3, Zenon DEF Good, Sane, Onward, Upserting, Same
    <3>7. Notifying(p)'
      <4>1. CASE proc[p].op = "notify"
        <5>1. rows'[x] # NoRow
          BY <1>b, <3>2, <4>1, Zenon DEF View, Same
        <5> QED
          BY <1>0, <1>1, <3>2, <3>3, <4>1, <5>1, OnwardNotifying, Names, Zenon DEF Good, Upserting, Same
      <4>2. CASE proc[p].op # "notify"
        BY <3>3, <4>2, Zenon DEF Notifying, Onward
      <4> QED
        BY <4>1, <4>2, Zenon
    <3>8. WritesBack(p)'
      BY <1>0, <1>1, <3>2, <3>3, ZenonT(30) DEF Good, WritesBack, Pending, Onward, Upserting, Same
    <3>9. Registering(p)'
      BY <1>0, <1>1, <3>3, <3>4, <3>5, Names, Zenon DEF Good, Registering, Onward, Upserting
    <3>10. Isolated(p)'
      BY <1>0, <1>1, <3>2, <3>3, <3>5, ZenonT(30) DEF Good, Isolated, Onward, Same
    <3>11. Registered(p)'
      BY <1>0, <1>1, <3>3, <3>5, ZenonT(30) DEF Good, Registered, Onward
    <3>12. Loading(p)'
      BY <2>b, <3>3, Zenon DEF Loading, Onward
    <3> QED
      BY <1>1, <2>0, <3>1, <3>6, <3>7, <3>8, <3>9, <3>10, <3>11, <3>12, ReadKeeps, Zenon DEF Good
  <2> QED
    BY <1>1, <2>a, <2>b, Zenon
<1> QED
  BY <1>a, <1>b, Zenon

\* The rows after row x has been written by a statement that commits.
LEMMA RowWritten ==
    ASSUME IndInv, NEW x \in Ids, NEW row \in Row, row.key > 0, row.template \in Known,
           x \in Kinds /\ row.critical => x \in granted,
           rows' = [rows EXCEPT ![x] = row], UNCHANGED Others
    PROVE  RowsInv' /\ Grown /\ Known' = Known /\ rows'[x] = row /\ row # NoRow
<1>0. rows \in [Ids -> Row]
  BY Zenon DEF IndInv, TypeOK
<1>1. row # NoRow
  BY DEF NoRow
<1>2. rows'[x] = row /\ \A y \in Ids : y # x => rows'[y] = rows[y]
  BY <1>0, Zenon
<1>3. /\ templates' = templates /\ sent' = sent /\ granted' = granted /\ pruned' = pruned
      /\ unsafe' = unsafe /\ Known' = Known
  BY Zenon DEF Others, Known
<1>4. Grown
  BY <1>1, <1>2, <1>3, Zenon DEF Grown, Present
<1>5. RowsInv'
  <2>1. \A y \in Ids : Proper(rows'[y]) /\ rows'[y].template \in Known
    BY <1>2, Zenon DEF IndInv, RowsInv, Proper
  <2>2. CriticalAuthorised'
    BY <1>2, <1>3, Names, Zenon DEF IndInv, RowsInv, CriticalAuthorised
  <2>3. DispatchedRegistered'
    <3>1. \A k \in sent : k # None => k \in Ids
      BY Names, Zenon DEF IndInv, TypeOK
    <3> QED
      BY <1>1, <1>2, <1>3, <3>1, Names, Zenon DEF IndInv, RowsInv, DispatchedRegistered
  <2> QED
    BY <1>3, <2>1, <2>2, <2>3, Zenon DEF IndInv, RowsInv, Proper
<1> QED
  BY <1>1, <1>2, <1>3, <1>4, <1>5, Zenon

\* The row at hand is none of those still to come.
LEMMA NotToCome ==
    ASSUME NEW p \in Requests, TypeOK, Good(p), proc[p].op \in {"notify", "register"},
           proc[p].pc \in Upserting
    PROVE  proc[p].id \notin proc[p].todo /\ proc[p].todo \subseteq Kinds /\ Active(p)
<1>1. Active(p) /\ proc[p].todo \subseteq Kinds
  BY Fields, Zenon DEF Active, Upserting, TypeOK
<1> QED
  BY <1>1, Names, Zenon DEF Good, Notifying, Registering

\* A transaction's write of row x, and where it goes from there.
Buffers(x, row, r) ==
    [r EXCEPT !.snap[x] = row, !.wrote = @ \cup {x}]

LEMMA BufferEffect ==
    ASSUME NEW x \in Ids, NEW row \in Row, NEW r \in Progress
    PROVE  LET s == Buffers(x, row, r) IN
           /\ s \in Progress
           /\ s.op = r.op /\ s.pc = r.pc /\ s.id = r.id /\ s.key = r.key /\ s.todo = r.todo
           /\ s.list = r.list /\ s.prune = r.prune /\ s.vals = r.vals /\ s.overlap = r.overlap
           /\ s.wrote = r.wrote \cup {x} /\ s.given = r.given
           /\ s.snap[x] = row /\ \A y \in Ids : y # x => s.snap[y] = r.snap[y]
<1>1. r.snap \in [Ids -> Row]
  BY Fields, Zenon
<1>2. [r.snap EXCEPT ![x] = row] \in [Ids -> Row]
  BY <1>1, Zenon
<1> QED
  BY <1>1, <1>2, Zenon DEF Buffers, Progress

\* INSERT by a notify request.
LEMMA InsertNotify ==
    ASSUME IndInv, NEW p \in Requests, Insert(p), proc[p].op = "notify"
    PROVE  IndInv'
<1> DEFINE x == proc[p].id
           v == proc[p].vals[x]
           row == [key |-> lastKey + 1, critical |-> v.critical,
                   template |-> IF v.template = None THEN Default ELSE v.template]
<1>0. TypeOK /\ RowsInv /\ Good(p)
  BY Zenon DEF IndInv
<1>1. /\ proc[p] \in Progress /\ proc[p].pc = "insert" /\ UNCHANGED Others /\ x \in Ids
      /\ v \in Value /\ lastKey \in Nat /\ lastKey' = lastKey + 1
  BY <1>0, Fields, Zenon DEF TypeOK, Insert, history, Others
<1>2. x \notin proc[p].todo /\ proc[p].todo \subseteq Kinds /\ Active(p)
  BY <1>0, <1>1, NotToCome, Zenon DEF Upserting
<1>3. v.template \in Known \cup {None} /\ (x \in Kinds /\ v.critical => x \in granted)
  BY <1>0, <1>1, Zenon DEF Good, Sane
<1>4. row \in Row /\ row.key > 0 /\ row.template \in Known /\ row.critical = v.critical
  BY <1>0, <1>1, <1>3, Values DEF Row, RowsInv
<1>5. PICK r \in NextRow(p) : Step(p, r, {x}) /\ rows' = [rows EXCEPT ![x] = row]
  BY Zenon DEF Insert, Put
<1> HIDE DEF row
<1>6. r \in Progress /\ Onward(p, r)
  BY <1>1, NextRowOnward, Zenon
<1>7. RowsInv' /\ Grown /\ Known' = Known /\ rows'[x] = row /\ row # NoRow
  BY <1>1, <1>3, <1>4, <1>5, RowWritten, Zenon
<1>8. \A y \in Ids \ {x} : rows'[y] = rows[y]
  BY <1>0, <1>5, Zenon DEF TypeOK
<1>9. proc' \in [Requests -> Progress] /\ Onward(p, proc'[p])
  BY <1>0, <1>1, <1>5, <1>6, StepEffect, Zenon
<1>10. TypeOK'
  BY <1>0, <1>1, <1>4, <1>5, <1>9 DEF TypeOK, Others
<1>11. Sane(p)'
  BY <1>0, <1>1, <1>7, <1>9, Zenon DEF Good, Sane, Onward, Upserting, Others
<1>12. Notifying(p)'
  <2>1. Present(Client) => Present(Client)'
    BY <1>7, <1>8, Names, Zenon DEF Present
  <2> QED
    BY <1>0, <1>1, <1>7, <1>9, <2>1, OnwardNotifying, Zenon DEF Good, Upserting
<1>13. WritesBack(p)'
  BY <1>0, <1>1, <1>2, <1>8, <1>9, Names DEF Good, WritesBack, Pending, Onward, Upserting, Present
<1>14. Registering(p)' /\ Isolated(p)' /\ Registered(p)' /\ Loading(p)'
  BY <1>9, Zenon DEF Registering, Isolated, Registered, Loading, Onward
<1> QED
  BY <1>1, <1>5, <1>6, <1>7, <1>8, <1>10, <1>11, <1>12, <1>13, <1>14, StepKeeps, Zenon DEF Good

\* The table is as it was: only p has moved on.
LEMMA TablesKeep ==
    ASSUME IndInv, NEW p \in Requests, NEW r \in Progress, Step(p, r, {}), UNCHANGED rows,
           lastKey' \in Nat, UNCHANGED Others
    PROVE  /\ TypeOK' /\ proc'[p] = r /\ Known' = Known
           /\ Good(p)' => IndInv'
<1>1. proc' \in [Requests -> Progress] /\ proc'[p] = r
  BY StepEffect, Zenon DEF IndInv
<1>2. TypeOK' /\ Known' = Known
  BY <1>1, Zenon DEF IndInv, TypeOK, Others, Known
<1>3. RowsInv'
  BY <1>2, Zenon DEF IndInv, RowsInv, CriticalAuthorised, DispatchedRegistered, Others
<1>4. Grown
  BY <1>2, Zenon DEF Grown, Present, Others
<1> QED
  BY <1>1, <1>2, <1>3, <1>4, StepKeeps, Zenon

\* INSERT by a registration.
LEMMA InsertRegister ==
    ASSUME IndInv, NEW p \in Requests, Insert(p), proc[p].op = "register"
    PROVE  IndInv'
<1> DEFINE x == proc[p].id
           v == proc[p].vals[x]
           row == [key |-> lastKey + 1, critical |-> v.critical,
                   template |-> IF v.template = None THEN Default ELSE v.template]
<1>0. TypeOK /\ RowsInv /\ Good(p)
  BY Zenon DEF IndInv
<1>1. /\ proc[p] \in Progress /\ proc[p].pc = "insert" /\ UNCHANGED Others /\ x \in Ids
      /\ v \in Value /\ lastKey \in Nat /\ lastKey' \in Nat /\ rows[x] = NoRow /\ ~First(p)
  BY <1>0, Fields DEF TypeOK, Insert, history, Others, First
<1>2. x \notin proc[p].todo /\ proc[p].todo \subseteq Kinds /\ Active(p)
  BY <1>0, <1>1, NotToCome, Zenon DEF Upserting
<1>3. v.template \in Known \cup {None} /\ (x \in Kinds /\ v.critical => x \in granted)
  BY <1>0, <1>1, Zenon DEF Good, Sane
<1>4. row \in Row /\ row.key > 0 /\ row.template \in Known /\ row.critical = v.critical
      /\ row # NoRow /\ (v.template # None => row.template = v.template)
  BY <1>0, <1>1, <1>3, Values, SMTT(30) DEF Row, RowsInv, NoRow
<1>5. PICK r \in NextRow(p) : Step(p, Buffers(x, row, r), {}) /\ UNCHANGED rows
  BY Zenon DEF Insert, Put, Buffers
<1> HIDE DEF row
<1>6. r \in Progress /\ Onward(p, r)
  BY <1>1, NextRowOnward, Zenon
<1> DEFINE s == Buffers(x, row, r)
<1>7. s \in Progress
  BY <1>1, <1>4, <1>6, BufferEffect, Zenon
<1>8. TypeOK' /\ proc'[p] = s /\ Known' = Known /\ (Good(p)' => IndInv')
  BY <1>1, <1>5, <1>7, TablesKeep, Zenon
<1>9. /\ proc'[p].op = r.op /\ proc'[p].pc = r.pc /\ proc'[p].id = r.id /\ proc'[p].key = r.key
      /\ proc'[p].todo = r.todo /\ proc'[p].list = r.list /\ proc'[p].prune = r.prune
      /\ proc'[p].vals = r.vals /\ proc'[p].overlap = r.overlap
      /\ proc'[p].wrote = r.wrote \cup {x} /\ proc'[p].given = r.given
      /\ proc'[p].snap[x] = row /\ \A y \in Ids : y # x => proc'[p].snap[y] = r.snap[y]
  BY <1>1, <1>4, <1>6, <1>8, BufferEffect, SMTT(30)
<1> HIDE DEF s
<1>10. ~First(p)' /\ Active(p)'
  BY <1>2, <1>6, <1>9, Names, Zenon DEF Onward, First, Active
<1>11. Sane(p)'
  <2>1. \A y \in Ids : Proper(proc[p].snap[y]) /\ proc[p].snap[y].template \in Known
    BY <1>0, Zenon DEF Good, Sane
  <2>2. \A y \in Ids : Proper(proc'[p].snap[y]) /\ proc'[p].snap[y].template \in Known'
    <3>1. Proper(row)
      BY <1>4, Zenon DEF Proper
    <3>2. r.snap = proc[p].snap
      BY <1>6, Zenon DEF Onward
    <3> QED
      BY <1>4, <1>8, <1>9, <2>1, <3>1, <3>2, Zenon
  <2>3. \A k \in Kinds : (proc[p].snap[k].critical \/ proc[p].vals[k].critical) => k \in granted
    BY <1>0, Zenon DEF Good, Sane
  <2>4. \A k \in Kinds : (proc'[p].snap[k].critical \/ proc'[p].vals[k].critical) => k \in granted'
    <3>1. r.snap = proc[p].snap /\ r.vals = proc[p].vals /\ granted' = granted
      BY <1>1, <1>6, Zenon DEF Onward, Others
    <3>2. ASSUME NEW k \in Kinds, k = x
          PROVE  (proc'[p].snap[k].critical \/ proc'[p].vals[k].critical) => k \in granted'
      BY <1>3, <1>4, <1>9, <3>1, <3>2, Zenon
    <3>3. ASSUME NEW k \in Kinds, k # x
          PROVE  (proc'[p].snap[k].critical \/ proc'[p].vals[k].critical) => k \in granted'
      BY <1>9, <2>3, <3>1, <3>3, Names, Zenon
    <3> QED
      BY <3>2, <3>3, Zenon
  <2>5. \A y \in Ids : proc'[p].vals[y].template \in Known' \cup {None}
    BY <1>0, <1>1, <1>6, <1>8, <1>9, Zenon DEF Good, Sane, Onward
  <2>6. proc'[p].op = "register" /\ proc'[p].pc \in {"find", "prune", "commit"}
    BY <1>6, <1>9, Zenon DEF Onward
  <2> QED
    BY <2>2, <2>4, <2>5, <2>6, Zenon DEF Sane, Upserting
<1>12. Registering(p)'
  <2>1. /\ proc[p].list \subseteq Kinds /\ proc[p].todo \subseteq proc[p].list
        /\ proc[p].given \subseteq proc[p].list
        /\ x = Client \/ x \in proc[p].list \ proc[p].todo
        /\ proc[p].wrote \cap proc[p].todo = {}
        /\ proc[p].wrote \subseteq proc[p].list \cup {Client}
        /\ \A y \in proc[p].wrote : proc[p].snap[y] = NoRow => y \in Kinds
    BY <1>0, <1>1, <1>2, Zenon DEF Good, Registering
  <2>2. \A y \in proc'[p].wrote : proc'[p].snap[y] = NoRow => y \in Kinds
    BY <1>4, <1>6, <1>9, <2>1, Names, SMTT(30) DEF Onward
  <2>3. CASE r.id \in proc[p].todo
    BY <1>2, <1>6, <1>9, <1>10, <2>1, <2>2, <2>3, Names, SMTT(30) DEF Registering, Onward, Upserting
  <2>4. CASE r.id \notin proc[p].todo
    BY <1>2, <1>6, <1>9, <1>10, <2>1, <2>2, <2>4, Names, Zenon DEF Registering, Onward, Upserting
  <2> QED
    BY <2>3, <2>4, Zenon
<1>13. Isolated(p)'
  BY <1>0, <1>1, <1>2, <1>5, <1>6, <1>9, <1>10, SMTT(30) DEF Good, Isolated, Onward, Present
<1>14. Registered(p)'
  <2>1. /\ proc[p].list \subseteq Ids /\ r.list = proc[p].list /\ r.vals = proc[p].vals
        /\ r.overlap = proc[p].overlap /\ r.snap = proc[p].snap /\ r.wrote = proc[p].wrote
        /\ r.given = proc[p].given
    BY <1>0, <1>1, <1>2, <1>6, Names, Zenon DEF Good, Registering, Onward
  <2>2. /\ \A y \in proc[p].todo : proc[p].vals[y].template = None <=> y \notin proc[p].given
        /\ v.template = None <=> x \notin proc[p].given
        /\ \A k \in (proc[p].list \ proc[p].todo) \ proc[p].overlap : k # x =>
             /\ k \in proc[p].wrote /\ proc[p].snap[k] # NoRow
             /\ proc[p].snap[k].critical = proc[p].vals[k].critical
             /\ k \in proc[p].given => proc[p].snap[k].template = proc[p].vals[k].template
    BY <1>0, <1>1, <1>2, Zenon DEF Good, Registered
  <2>3. \A k \in (proc[p].list \ proc[p].todo) \ proc[p].overlap :
             /\ k \in proc'[p].wrote /\ proc'[p].snap[k] # NoRow
             /\ proc'[p].snap[k].critical = proc'[p].vals[k].critical
             /\ k \in proc'[p].given => proc'[p].snap[k].template = proc'[p].vals[k].template
    BY <1>4, <1>9, <2>1, <2>2, SMTT(30)
  <2>4. CASE r.id \in proc[p].todo
    BY <1>6, <1>9, <2>1, <2>2, <2>3, <2>4, SMTT(30) DEF Registered, Onward
  <2>5. CASE r.id \notin proc[p].todo
    BY <1>6, <1>9, <2>1, <2>2, <2>3, <2>5, SMTT(30) DEF Registered, Onward
  <2> QED
    BY <2>4, <2>5, Zenon
<1>15. Notifying(p)' /\ WritesBack(p)' /\ Loading(p)'
  BY <1>6, <1>9, Zenon DEF Notifying, WritesBack, Loading, Onward
<1> QED
  BY <1>8, <1>11, <1>12, <1>13, <1>14, <1>15, Zenon DEF Good

\* UPDATE of a row that is there or is not, committed at once or buffered.
LEMMA WriteKeeps ==
    ASSUME IndInv, NEW p \in Requests, Write(p)
    PROVE  IndInv'
<1> DEFINE x == proc[p].id
           v == proc[p].vals[x]
           r == [proc[p] EXCEPT !.pc = "confirm"]
           row == [key |-> proc[p].key, critical |-> v.critical, template |-> v.template]
<1>0. TypeOK /\ RowsInv /\ Good(p)
  BY Zenon DEF IndInv
<1>1. /\ proc[p] \in Progress /\ proc[p].pc = "write" /\ UNCHANGED Others /\ x \in Ids
      /\ v \in Value /\ lastKey \in Nat /\ lastKey' = lastKey /\ proc[p].key \in Nat
      /\ Active(p) /\ ~First(p)
  BY <1>0, Fields, Zenon DEF TypeOK, Write, history, Others, First, Active
<1>2. /\ proc[p].key > 0 /\ v.template # None /\ v.template \in Known \cup {None}
      /\ (x \in Kinds /\ v.critical => x \in granted)
      /\ proc[p].op \in {"notify", "register", "assign", "update"}
  BY <1>0, <1>1, Zenon DEF Good, Sane, Upserting
<1>3. /\ row \in Row /\ row.key > 0 /\ row.template \in Known /\ row.critical = v.critical
      /\ row.template = v.template /\ row # NoRow
  BY <1>1, <1>2, Values, SMTT(30) DEF Row, NoRow
<1>4. /\ r \in Progress /\ r.op = proc[p].op /\ r.pc = "confirm" /\ r.id = x /\ r.key = proc[p].key
      /\ r.todo = proc[p].todo /\ r.list = proc[p].list /\ r.prune = proc[p].prune
      /\ r.vals = proc[p].vals /\ r.snap = proc[p].snap /\ r.wrote = proc[p].wrote
      /\ r.overlap = proc[p].overlap /\ r.given = proc[p].given
  BY <1>1, Zenon DEF Progress, PC
<1>5. IF rows[x].key = proc[p].key THEN Put(p, x, row, r) ELSE Step(p, r, {}) /\ UNCHANGED rows
  BY Zenon DEF Write
<1> HIDE DEF r, row
<1>a. CASE rows[x].key # proc[p].key
  <2>1. TypeOK' /\ proc'[p] = r /\ Known' = Known /\ (Good(p)' => IndInv') /\ rows' = rows
    BY <1>1, <1>4, <1>5, <1>a, TablesKeep, Zenon
  <2>2. Active(p)' /\ ~First(p)'
    BY <1>4, <2>1, Zenon DEF Active, First
  <2>3. Sane(p)'
    BY <1>0, <1>1, <1>2, <1>4, <2>1, Zenon DEF Good, Sane, Upserting, Others
  <2>4. Notifying(p)'
    BY <1>0, <1>1, <1>4, <2>1, <2>2, Zenon DEF Good, Notifying, Upserting, Present
  <2>5. WritesBack(p)'
    BY <1>0, <1>1, <1>4, <2>1, SMTT(30) DEF Good, WritesBack, Pending, Upserting, Present
  <2>6. Registering(p)'
    BY <1>0, <1>1, <1>4, <2>1, <2>2, Zenon DEF Good, Registering, Upserting
  <2>7. Isolated(p)'
    BY <1>0, <1>1, <1>4, <2>1, <2>2, SMTT(30) DEF Good, Isolated, Present
  <2>8. Registered(p)'
    <3>1. proc[p].op = "register" => x \in proc[p].overlap
      BY <1>0, <1>1, <1>a, Zenon DEF Good, Registered, Registering, Isolated, Upserting
    <3> QED
      BY <1>0, <1>1, <1>4, <2>1, <2>2, <3>1, ZenonT(30) DEF Good, Registered
  <2>9. Loading(p)'
    BY <1>2, <1>4, <2>1, Zenon DEF Loading
  <2> QED
    BY <2>1, <2>3, <2>4, <2>5, <2>6, <2>7, <2>8, <2>9, Zenon DEF Good
<1>b. CASE rows[x].key = proc[p].key /\ proc[p].op # "register"
  <2>1. Step(p, r, {x}) /\ rows' = [rows EXCEPT ![x] = row]
    BY <1>5, <1>b, Zenon DEF Put
  <2>2. RowsInv' /\ Grown /\ Known' = Known /\ rows'[x] = row
    BY <1>1, <1>2, <1>3, <2>1, RowWritten, Zenon
  <2>3. \A y \in Ids \ {x} : rows'[y] = rows[y]
    BY <1>0, <2>1, Zenon DEF TypeOK
  <2>4. proc' \in [Requests -> Progress] /\ proc'[p] = r
    BY <1>0, <1>1, <1>4, <2>1, StepEffect, Zenon
  <2>5. TypeOK'
    BY <1>0, <1>1, <1>3, <2>1, <2>4, Zenon DEF TypeOK, Others
  <2>6. Active(p)' /\ (Present(Client) => Present(Client)')
    BY <1>3, <1>4, <2>2, <2>3, <2>4, Names, Zenon DEF Active, Present
  <2>7. Sane(p)'
    BY <1>0, <1>1, <1>2, <1>4, <2>2, <2>4, Zenon DEF Good, Sane, Upserting, Others
  <2>8. Notifying(p)'
    BY <1>0, <1>1, <1>4, <2>4, <2>6, Zenon DEF Good, Notifying, Upserting
  <2>9. WritesBack(p)'
    <3>1. proc[p].op = "notify" => x \notin proc[p].todo /\ proc[p].todo \subseteq Kinds
      BY <1>0, <1>1, NotToCome, Zenon DEF Upserting
    <3> QED
      BY <1>0, <1>1, <1>4, <2>3, <2>4, <3>1, Names, SMTT(30) DEF Good, WritesBack, Pending, Upserting, Present
  <2>10. Registering(p)' /\ Isolated(p)' /\ Registered(p)' /\ Loading(p)'
    BY <1>2, <1>4, <1>b, <2>4, Zenon DEF Registering, Isolated, Registered, Loading
  <2> QED
    BY <1>1, <1>4, <2>1, <2>2, <2>3, <2>5, <2>7, <2>8, <2>9, <2>10, StepKeeps, Zenon DEF Good
<1>c. CASE rows[x].key = proc[p].key /\ proc[p].op = "register"
  <2> DEFINE s == Buffers(x, row, r)
  <2>1. Step(p, s, {}) /\ UNCHANGED rows
    BY <1>5, <1>c, Zenon DEF Put, Buffers
  <2>2. s \in Progress
    BY <1>1, <1>3, <1>4, BufferEffect, Zenon
  <2>3. TypeOK' /\ proc'[p] = s /\ Known' = Known /\ (Good(p)' => IndInv')
    BY <1>1, <2>1, <2>2, TablesKeep, Zenon
  <2>4. /\ proc'[p].op = "register" /\ proc'[p].pc = "confirm" /\ proc'[p].id = x
        /\ proc'[p].todo = proc[p].todo /\ proc'[p].list = proc[p].list
        /\ proc'[p].given = proc[p].given
        /\ proc'[p].prune = proc[p].prune /\ proc'[p].vals = proc[p].vals
        /\ proc'[p].overlap = proc[p].overlap /\ proc'[p].wrote = proc[p].wrote \cup {x}
        /\ proc'[p].snap[x] = row /\ \A y \in Ids : y # x => proc'[p].snap[y] = proc[p].snap[y]
    BY <1>1, <1>3, <1>4, <1>c, <2>3, BufferEffect, SMTT(30)
  <2> HIDE DEF s
  <2>5. Active(p)' /\ ~First(p)'
    BY <2>4, Zenon DEF Active, First
  <2>6. x \notin proc[p].todo /\ proc[p].todo \subseteq Kinds
    BY <1>0, <1>1, <1>c, NotToCome, Zenon DEF Upserting
  <2>7. Sane(p)'
    BY <1>0, <1>1, <1>2, <1>3, <2>3, <2>4, Names, Zenon DEF Good, Sane, Upserting, Others, Proper
  <2>8. Registering(p)'
    <3>1. /\ proc[p].list \subseteq Kinds /\ proc[p].todo \subseteq proc[p].list
          /\ proc[p].given \subseteq proc[p].list
          /\ x = Client \/ x \in proc[p].list \ proc[p].todo
          /\ x = Client => proc[p].todo = proc[p].list
          /\ proc[p].wrote \cap proc[p].todo = {}
          /\ proc[p].wrote \subseteq proc[p].list \cup {Client}
          /\ \A y \in proc[p].wrote : y \in Ids /\ (proc[p].snap[y] = NoRow => y \in Kinds)
      BY <1>0, <1>1, <1>c, Fields, Zenon DEF Good, Registering, Upserting
    <3>2. \A y \in proc'[p].wrote : proc'[p].snap[y] = NoRow => y \in Kinds
      BY <1>3, <2>4, <3>1, Zenon
    <3> QED
      BY <2>4, <2>5, <2>6, <3>1, <3>2, Zenon DEF Registering, Upserting
  <2>9. Isolated(p)'
    <3>1. /\ x \notin proc[p].wrote
          /\ x \notin proc[p].overlap => v.template = rows[x].template \/ x \in proc[p].given
      BY <1>0, <1>1, <1>c, Zenon DEF Good, Registering, Isolated, Registered, Upserting
    <3> QED
      BY <1>0, <1>1, <1>3, <1>c, <2>1, <2>4, <2>5, <3>1, ZenonT(30) DEF Good, Isolated, Present
  <2>10. Registered(p)'
    <3>1. proc[p].list \subseteq Ids
      BY <1>0, <1>1, <1>c, Names, Zenon DEF Good, Registering
    <3> QED
      BY <1>0, <1>1, <1>3, <1>c, <2>4, <2>5, <3>1, ZenonT(60) DEF Good, Registered
  <2>11. Notifying(p)' /\ WritesBack(p)' /\ Loading(p)'
    BY <2>4, Zenon DEF Notifying, WritesBack, Loading
  <2> QED
    BY <2>3, <2>7, <2>8, <2>9, <2>10, <2>11, Zenon DEF Good
<1> QED
  BY <1>a, <1>b, <1>c, Zenon

-----------------------------------------------------------------------------
(* The end of a request, and its beginning.                                *)

\* Trim takes away what the registration does not name, but for overlaps.
LEMMA PruneKeeps ==
    ASSUME IndInv, NEW p \in Requests, Prune(p)
    PROVE  IndInv'
<1> DEFINE trim == {k \in Kinds \ proc[p].list : View(p)[k] # NoRow}
           hit == {k \in trim : rows[k].key = View(p)[k].key}
           s == [x \in Ids |-> IF x \in hit THEN NoRow ELSE proc[p].snap[x]]
           r == [proc[p] EXCEPT !.pc = "commit", !.wrote = @ \cup hit, !.snap = s]
<1>0. TypeOK /\ RowsInv /\ Good(p)
  BY Zenon DEF IndInv
<1>1. /\ proc[p] \in Progress /\ proc[p].pc = "prune" /\ UNCHANGED Others /\ Step(p, r, {})
      /\ UNCHANGED rows /\ lastKey' \in Nat /\ Active(p) /\ ~First(p) /\ proc[p].op = "register"
  BY <1>0, Fields, Zenon DEF TypeOK, Prune, history, tables, Others, Active, First, Good, Sane
<1>2. proc[p].snap \in [Ids -> Row] /\ hit \subseteq Kinds /\ hit \subseteq Ids
  BY <1>1, Fields, Names, Zenon
<1>3. \A k \in Kinds \ proc[p].list : k \in hit <=>
        proc[p].snap[k] # NoRow /\ rows[k].key = proc[p].snap[k].key
  BY <1>1, Zenon DEF View
<1>4. hit \cap proc[p].list = {}
  BY Zenon
<1> HIDE DEF hit
<1>5. s \in [Ids -> Row] /\ \A x \in Ids : s[x] = IF x \in hit THEN NoRow ELSE proc[p].snap[x]
  BY <1>2, Values, Zenon
<1> HIDE DEF s
<1>6. r \in Progress
  BY <1>1, <1>2, <1>5, Zenon DEF Progress, PC
<1>7. TypeOK' /\ proc'[p] = r /\ Known' = Known /\ (Good(p)' => IndInv')
  BY <1>1, <1>6, TablesKeep, Zenon
<1>8. /\ proc'[p].op = "register" /\ proc'[p].pc = "commit" /\ proc'[p].id = proc[p].id
      /\ proc'[p].todo = proc[p].todo /\ proc'[p].list = proc[p].list
      /\ proc'[p].given = proc[p].given
      /\ proc'[p].prune = proc[p].prune /\ proc'[p].vals = proc[p].vals
      /\ proc'[p].overlap = proc[p].overlap /\ proc'[p].wrote = proc[p].wrote \cup hit
      /\ proc'[p].snap = s
  BY <1>1, <1>7, Zenon DEF Progress
<1> HIDE DEF r
<1>9. Active(p)' /\ ~First(p)'
  BY <1>8, Zenon DEF Active, First
<1>10. /\ proc[p].list \subseteq Kinds /\ proc[p].todo = {} /\ proc[p].given \subseteq proc[p].list
       /\ proc[p].id = Client \/ proc[p].id \in proc[p].list
       /\ proc[p].wrote \subseteq proc[p].list \cup {Client} /\ proc[p].wrote \subseteq Ids
       /\ \A y \in proc[p].wrote : proc[p].snap[y] = NoRow => y \in Kinds
  BY <1>0, <1>1, Fields, Zenon DEF Good, Registering
<1>11. Sane(p)'
  <2>1. \A x \in Ids : Proper(proc[p].snap[x]) /\ proc[p].snap[x].template \in Known
    BY <1>0, Zenon DEF Good, Sane
  <2>2. Proper(NoRow) /\ NoRow.template \in Known /\ ~NoRow.critical
    BY <1>0, Zenon DEF RowsInv, Proper, NoRow
  <2>3. \A x \in Ids : Proper(proc'[p].snap[x]) /\ proc'[p].snap[x].template \in Known'
    BY <1>5, <1>7, <1>8, <2>1, <2>2, Zenon
  <2>4. \A k \in Kinds : (proc[p].snap[k].critical \/ proc[p].vals[k].critical) => k \in granted
    BY <1>0, Zenon DEF Good, Sane
  <2>5. \A k \in Kinds : (proc'[p].snap[k].critical \/ proc'[p].vals[k].critical) => k \in granted'
    BY <1>1, <1>5, <1>8, <2>2, <2>4, Names, Zenon DEF Others
  <2>6. \A x \in Ids : proc'[p].vals[x].template \in Known' \cup {None}
    BY <1>0, <1>1, <1>7, <1>8, Zenon DEF Good, Sane
  <2> QED
    BY <1>8, <2>3, <2>5, <2>6, Zenon DEF Sane, Upserting
<1>12. Registering(p)'
  BY <1>2, <1>5, <1>8, <1>9, <1>10, Zenon DEF Registering, Upserting
<1>13. Isolated(p)'
  BY <1>0, <1>1, <1>5, <1>8, <1>9, ZenonT(30) DEF Good, Isolated, Present
<1>14. Registered(p)'
  <2>1. \A k \in proc[p].list \ proc[p].overlap :
          /\ k \in proc'[p].wrote /\ proc'[p].snap[k] # NoRow
          /\ proc'[p].snap[k].critical = proc'[p].vals[k].critical
          /\ k \in proc'[p].given => proc'[p].snap[k].template = proc'[p].vals[k].template
    BY <1>0, <1>1, <1>4, <1>5, <1>8, <1>10, Names, ZenonT(30) DEF Good, Registered
  <2>2. \A k \in (Kinds \ proc[p].list) \ proc[p].overlap :
          IF k \in proc'[p].wrote THEN proc'[p].snap[k] = NoRow ELSE rows[k] = NoRow
    <3> SUFFICES ASSUME NEW k \in (Kinds \ proc[p].list) \ proc[p].overlap
                 PROVE  IF k \in proc'[p].wrote THEN proc'[p].snap[k] = NoRow ELSE rows[k] = NoRow
      BY Zenon
    <3>1. k \notin proc[p].wrote /\ k \in Ids
      BY <1>10, Names, Zenon
    <3>2. proc[p].snap[k] = rows[k]
      BY <1>0, <1>1, <3>1, Zenon DEF Good, Isolated
    <3> QED
      BY <1>3, <1>5, <1>8, <3>1, <3>2, Zenon
  <2> QED
    BY <1>1, <1>8, <1>10, <2>1, <2>2, Zenon DEF Registered
<1>15. Notifying(p)' /\ WritesBack(p)' /\ Loading(p)'
  BY <1>8, Zenon DEF Notifying, WritesBack, Loading
<1> QED
  BY <1>7, <1>11, <1>12, <1>13, <1>14, <1>15, Zenon DEF Good

\* What a registration removes is on record when it commits.
LEMMA CommitKeeps ==
    ASSUME IndInv, NEW p \in Requests, Commit(p)
    PROVE  IndInv'
<1> DEFINE r == proc[p]
<1>0. TypeOK /\ RowsInv /\ Good(p)
  BY Zenon DEF IndInv
<1>1. /\ r \in Progress /\ r.pc = "commit" /\ r.op = "register" /\ Active(p)
      /\ r.snap \in [Ids -> Row] /\ r.wrote \subseteq Ids
  BY <1>0, Fields, Zenon DEF TypeOK, Commit, Active, Good, Sane
<1>2. /\ rows' = [x \in Ids |-> IF x \in r.wrote THEN r.snap[x] ELSE rows[x]]
      /\ pruned' = pruned \cup {k \in r.wrote : r.snap[k] = NoRow}
      /\ Step(p, Start("register", "done"), r.wrote)
      /\ lastKey' = lastKey /\ templates' = templates /\ sent' = sent /\ granted' = granted
      /\ unsafe' = unsafe
  BY Zenon DEF Commit
<1>3. Start("register", "done") \in Progress
  BY StartType, Zenon DEF PC
<1>4. proc' \in [Requests -> Progress] /\ proc'[p] = Start("register", "done")
  BY <1>0, <1>1, <1>2, <1>3, StepEffect, SMTT(30)
<1>5. \A x \in r.wrote : r.snap[x] = NoRow => x \in Kinds
  BY <1>0, <1>1, Zenon DEF Good, Registering
<1>6. TypeOK' /\ Known' = Known
  BY <1>0, <1>1, <1>2, <1>4, <1>5, Zenon DEF TypeOK, Known
<1>7. \A x \in Ids : /\ x \in r.wrote => rows'[x] = r.snap[x]
                     /\ x \notin r.wrote => rows'[x] = rows[x]
  BY <1>2, Zenon
<1>8. \A x \in Ids : Present(x) => Present(x)' \/ (x \in pruned' /\ x # Client)
  BY <1>2, <1>5, <1>7, Names, Zenon DEF Present
<1>9. Grown
  BY <1>2, <1>6, <1>8, Zenon DEF Grown
<1>10. RowsInv'
  <2>1. \A x \in Ids : Proper(rows'[x]) /\ rows'[x].template \in Known
    BY <1>0, <1>7, Zenon DEF Good, Sane, RowsInv
  <2>2. CriticalAuthorised'
    BY <1>0, <1>2, <1>7, Names, Zenon DEF Good, Sane, RowsInv, CriticalAuthorised
  <2>3. DispatchedRegistered'
    <3>1. \A k \in sent : k # None => k \in Ids
      BY <1>0, Names, Zenon DEF TypeOK
    <3> QED
      BY <1>0, <1>2, <1>8, <3>1, Names, Zenon DEF RowsInv, DispatchedRegistered, Present
  <2> QED
    BY <1>0, <1>6, <2>1, <2>2, <2>3, Zenon DEF RowsInv, Proper
<1>11. Good(p)'
  BY <1>4, <1>6, <1>10, EndedGood, Zenon DEF RowsInv
<1> QED
  BY <1>1, <1>2, <1>3, <1>6, <1>7, <1>9, <1>10, <1>11, StepKeeps, Zenon

LEMMA DispatchKeeps ==
    ASSUME IndInv, NEW p \in Requests, Dispatch(p)
    PROVE  IndInv'
<1>0. TypeOK /\ RowsInv /\ Good(p)
  BY Zenon DEF IndInv
<1>1. /\ proc[p] \in Progress /\ proc[p].pc = "dispatch" /\ proc[p].op = "notify" /\ Active(p)
      /\ proc[p].list \subseteq Kinds \cup {None}
  BY <1>0, Fields, Zenon DEF TypeOK, Dispatch, Active, Good, Sane
<1>2. /\ sent' = sent \cup proc[p].list /\ Step(p, Start("notify", "done"), {}) /\ rows' = rows
      /\ lastKey' = lastKey /\ templates' = templates /\ granted' = granted
      /\ pruned' = pruned /\ unsafe' = unsafe
  BY Zenon DEF Dispatch, tables, history
<1>3. Start("notify", "done") \in Progress
  BY StartType, Zenon DEF PC
<1>4. proc' \in [Requests -> Progress] /\ proc'[p] = Start("notify", "done")
  BY <1>0, <1>1, <1>2, <1>3, StepEffect
<1>5. TypeOK' /\ Known' = Known
  BY <1>0, <1>1, <1>2, <1>4, Zenon DEF TypeOK, Known
<1>6. Grown
  BY <1>2, <1>5, Zenon DEF Grown, Present
<1>7. RowsInv'
  <2>1. Present(Client) /\ \A k \in proc[p].list \ {None} : Present(k) \/ k \in pruned
    BY <1>0, <1>1, Zenon DEF Good, Notifying
  <2> QED
    BY <1>0, <1>2, <1>5, <2>1, Zenon DEF RowsInv, CriticalAuthorised, DispatchedRegistered, Present
<1>8. Good(p)'
  BY <1>4, <1>5, <1>7, EndedGood, Zenon DEF RowsInv
<1> QED
  BY <1>1, <1>2, <1>3, <1>5, <1>6, <1>7, <1>8, StepKeeps

LEMMA FailKeeps ==
    ASSUME IndInv, NEW p \in Requests, Fail(p)
    PROVE  IndInv'
<1>1. proc[p].op \in {"none", "notify", "register", "assign", "update"}
  BY Fields, Zenon DEF IndInv, TypeOK, Fail
<1>2. Read(p, Start(proc[p].op, "failed")) /\ UNCHANGED Others
  BY Zenon DEF Fail, Read, history, Others
<1> QED
  BY <1>1, <1>2, ReadEnds, Zenon

\* A request begins, with what it may make critical and the templates it does
\* not look up on record.
LEMMA BeginKeeps ==
    ASSUME IndInv, NEW p \in Requests, NEW r \in Progress, Step(p, r, {}), UNCHANGED tables,
           UNCHANGED <<templates, sent, pruned>>,
           granted \subseteq granted', granted' \subseteq Kinds,
           unsafe \subseteq unsafe', unsafe' \subseteq Templates \cup {Default}
    PROVE  /\ TypeOK' /\ proc'[p] = r /\ Known \subseteq Known' /\ Default \in Known'
           /\ Good(p)' => IndInv'
<1>0. TypeOK /\ RowsInv
  BY Zenon DEF IndInv
<1>1. proc' \in [Requests -> Progress] /\ proc'[p] = r /\ rows' = rows
  BY <1>0, StepEffect, Zenon DEF tables
<1>2. TypeOK' /\ Known \subseteq Known'
  BY <1>0, <1>1, Zenon DEF TypeOK, tables, Known
<1>3. RowsInv'
  BY <1>0, <1>1, <1>2, Zenon DEF RowsInv, CriticalAuthorised, DispatchedRegistered
<1>4. Grown
  BY <1>1, <1>2, Zenon DEF Grown, Present
<1>5. Good(p)' => IndInv'
  BY <1>1, <1>2, <1>3, <1>4, StepKeeps, Zenon
<1> QED
  BY <1>1, <1>2, <1>3, <1>5, Zenon DEF RowsInv

\* What is in a request that has just begun, whatever its particulars.
Clear(snap) == \A x \in Ids : Proper(snap[x]) /\ snap[x].template = Default /\ ~snap[x].critical

LEMMA StartFields ==
    ASSUME NEW op, NEW pc
    PROVE  LET s == Start(op, pc) IN
           /\ s.op = op /\ s.pc = pc /\ s.id = Client /\ s.todo = {} /\ s.list = {} /\ s.given = {}
           /\ s.wrote = {} /\ s.overlap = {} /\ s.vals = [x \in Ids |-> Blank] /\ Clear(s.snap)
<1>1. \A x \in Ids : [y \in Ids |-> NoRow][x] = NoRow
  BY Zenon
<1>2. Clear([y \in Ids |-> NoRow])
  BY <1>1, Zenon DEF Clear, Proper, NoRow
<1> QED
  BY <1>2, Zenon DEF Start

LEMMA BlankWith ==
    /\ \A t \in Templates \cup {Default} : LET v == [Blank EXCEPT !.template = t] IN
         v \in Value /\ v.template = t /\ ~v.critical
    /\ \A b \in BOOLEAN, t \in Templates \cup {Default, None} :
         LET v == [critical |-> b, template |-> t] IN
         v \in Value /\ v.template = t /\ v.critical = b
  BY Zenon DEF Blank, Value

\* What a registration names: no template means "leave it alone".
LEMMA NamedValues ==
    ASSUME NEW list \in SUBSET Kinds, NEW crit \in SUBSET list,
           NEW template \in [list -> Templates \cup {Default, None}], NEW x \in Ids
    PROVE  LET v == Named(list, crit, template)[x] IN
           /\ v \in Value
           /\ v.template = None <=> x \notin {k \in list : template[k] # None}
           /\ v.template \in {template[k] : k \in list} \cup {None}
           /\ v.critical => x \in crit
<1> DEFINE v == Named(list, crit, template)[x]
           b == x \in crit
<1>1. CASE x \in list
  <2>1. v = [critical |-> b, template |-> template[x]]
    BY <1>1, Zenon DEF Named
  <2>2. template[x] \in Templates \cup {Default, None}
    BY <1>1, Zenon
  <2>3. b \in BOOLEAN
    OBVIOUS
  <2> HIDE DEF v, b
  <2>4. v \in Value /\ v.template = template[x] /\ v.critical = b
    BY <2>1, <2>2, <2>3, BlankWith, Zenon
  <2>5. v.critical => x \in crit
    BY <2>4 DEF b
  <2> QED
    BY <1>1, <2>4, <2>5, Zenon DEF v
<1>2. CASE x \notin list
  <2>1. v = Blank
    BY <1>2, Zenon DEF Named
  <2>2. Blank \in Value /\ Blank.template = None /\ ~Blank.critical
    BY Values, Zenon DEF Blank
  <2> QED
    BY <1>2, <2>1, <2>2, Zenon
<1> QED
  BY <1>1, <1>2, Zenon

\* How a registration begins.
Registers(p, list, prune, may, crit, template) ==
    /\ list # {} => prune
    /\ crit # {} => may
    /\ Step(p, [Start("register", "find") EXCEPT
                  !.list = list, !.todo = list, !.prune = prune,
                  !.given = {k \in list : template[k] # None},
                  !.vals = Named(list, crit, template)], {})
    /\ (\E k \in list : template[k] # None) => Cardinality(list) <= MaxNamed
    /\ granted' = IF may THEN granted \cup crit ELSE granted
    /\ unsafe' = unsafe \cup ({template[k] : k \in list} \ (templates \cup {None}))
    /\ UNCHANGED <<tables, templates, sent, pruned>>

LEMMA RegisterKeeps ==
    ASSUME IndInv, NEW p \in Requests, Register(p)
    PROVE  IndInv'
<1>a. PICK list \in SUBSET Kinds, prune \in BOOLEAN, may \in BOOLEAN :
        \E crit \in SUBSET list, template \in [list -> Templates \cup {Default, None}] :
          Registers(p, list, prune, may, crit, template)
  BY Zenon DEF Register, Registers
<1>b. PICK crit \in SUBSET list, template \in [list -> Templates \cup {Default, None}] :
        Registers(p, list, prune, may, crit, template)
  BY <1>a, Zenon
<1> USE <1>b DEF Registers
<1> DEFINE v == Named(list, crit, template)
           g == {k \in list : template[k] # None}
           r == [Start("register", "find") EXCEPT !.list = list, !.todo = list, !.prune = prune,
                                                  !.given = g, !.vals = v]
<1>0. TypeOK /\ RowsInv
  BY Zenon DEF IndInv
<1>1. /\ granted \subseteq granted' /\ granted' \subseteq Kinds /\ crit \subseteq granted'
      /\ unsafe \subseteq unsafe' /\ unsafe' \subseteq Templates \cup {Default}
      /\ \A k \in list : template[k] \in templates \cup unsafe' \cup {None}
  BY <1>0, Zenon DEF TypeOK
<1>2. /\ v \in [Ids -> Value]
      /\ \A x \in Ids : /\ v[x].template = None <=> x \notin g
                        /\ v[x].template \in templates \cup unsafe' \cup {None}
                        /\ v[x].critical => x \in crit
  <2>1. ASSUME NEW x \in Ids
        PROVE  /\ v[x] \in Value
               /\ v[x].template = None <=> x \notin g
               /\ v[x].template \in templates \cup unsafe' \cup {None}
               /\ v[x].critical => x \in crit
    <3> HIDE <1>b
    <3>1. /\ v[x] \in Value
          /\ v[x].template = None <=> x \notin g
          /\ v[x].template \in {template[k] : k \in list} \cup {None}
          /\ v[x].critical => x \in crit
      BY NamedValues, Zenon
    <3> HIDE DEF v, g
    <3> QED
      BY <1>1, <3>1, Zenon
  <2>2. v = [x \in Ids |-> v[x]]
    BY Zenon DEF Named
  <2> HIDE DEF v, g
  <2>3. v \in [Ids -> Value]
    BY <2>1, <2>2, Zenon
  <2> QED
    BY <2>1, <2>3, Zenon
<1>3. Step(p, r, {})
  BY Zenon
<1>g. g \subseteq list /\ g \subseteq Kinds
  BY Zenon
<1> HIDE DEF v, g
<1>4. Start("register", "find") \in Progress
  BY StartType, Zenon DEF PC
<1>5. r \in Progress
  BY <1>2, <1>4, <1>g, Zenon DEF Progress
<1>6. /\ r.op = "register" /\ r.pc = "find" /\ r.id = Client /\ r.todo = list /\ r.list = list
      /\ r.wrote = {} /\ r.overlap = {} /\ r.vals = v /\ Clear(r.snap) /\ r.given = g
  BY <1>4, StartFields DEF Progress
<1> HIDE DEF r
<1>7. TypeOK' /\ proc'[p] = r /\ Default \in Known' /\ templates \cup unsafe' \subseteq Known' /\ (Good(p)' => IndInv')
  BY <1>1, <1>3, <1>5, BeginKeeps, Zenon DEF Known
<1>8. First(p)'
  BY <1>6, <1>7, Zenon DEF First
<1>9. Sane(p)'
  BY <1>1, <1>2, <1>6, <1>7, Names, Zenon DEF Sane, Clear, Upserting
<1>10. Registering(p)'
  BY <1>g, <1>6, <1>7, Names, Zenon DEF Registering, Upserting
<1>11. Registered(p)'
  BY <1>g, <1>2, <1>6, <1>7, Names, Zenon DEF Registered
<1>12. Isolated(p)' /\ Notifying(p)' /\ WritesBack(p)' /\ Loading(p)'
  BY <1>6, <1>7, <1>8, Zenon DEF Isolated, Notifying, WritesBack, Loading
<1> QED
  BY <1>7, <1>9, <1>10, <1>11, <1>12, Zenon DEF Good

LEMMA NotifyKeeps ==
    ASSUME IndInv, NEW p \in Requests, Notify(p)
    PROVE  IndInv'
<1> PICK k \in Kinds \cup {None}, may \in BOOLEAN :
         /\ Step(p, [Start("notify", "client") EXCEPT !.list = {k}, !.may = may], {})
         /\ UNCHANGED <<tables, templates, sent, history>>
  BY Zenon DEF Notify
<1> DEFINE r == [Start("notify", "client") EXCEPT !.list = {k}, !.may = may]
<1>0. TypeOK /\ RowsInv
  BY Zenon DEF IndInv
<1>1. /\ granted \subseteq granted' /\ granted' \subseteq Kinds
      /\ unsafe' = unsafe /\ unsafe' \subseteq Templates \cup {Default} /\ pruned' = pruned
  BY <1>0, Zenon DEF TypeOK, history
<1>2. Start("notify", "client") \in Progress
  BY StartType, Zenon DEF PC
<1>3. r \in Progress /\ Step(p, r, {})
  BY <1>2, Zenon DEF Progress
<1>4. /\ r.op = "notify" /\ r.pc = "client" /\ r.id = Client /\ r.list = {k}
      /\ r.vals = [x \in Ids |-> Blank] /\ Clear(r.snap)
  BY <1>2, StartFields DEF Progress
<1> HIDE DEF r
<1>5. TypeOK' /\ proc'[p] = r /\ Default \in Known' /\ (Good(p)' => IndInv')
  BY <1>1, <1>3, BeginKeeps, Zenon
<1>6. Sane(p)'
  BY <1>4, <1>5, Names DEF Sane, Clear, Blank, Upserting
<1>7. Notifying(p)'
  BY <1>4, <1>5, Zenon DEF Notifying, Upserting
<1>8. WritesBack(p)'
  BY <1>4, <1>5, Zenon DEF WritesBack, Pending, Upserting
<1>9. Isolated(p)' /\ Registering(p)' /\ Registered(p)' /\ Loading(p)'
  BY <1>4, <1>5, Zenon DEF Isolated, Registering, Registered, Loading
<1> QED
  BY <1>5, <1>6, <1>7, <1>8, <1>9, Zenon DEF Good

LEMMA AssignKeeps ==
    ASSUME IndInv, NEW p \in Requests, Assign(p)
    PROVE  IndInv'
<1> PICK x \in Ids, t \in Templates \cup {Default} :
         /\ Step(p, [Start("assign", "row") EXCEPT !.id = x, !.vals[x].template = t], {})
         /\ UNCHANGED <<tables, templates, sent, history>>
  BY Zenon DEF Assign
<1> DEFINE v == [Start("assign", "row").vals EXCEPT ![x].template = t]
           r == [Start("assign", "row") EXCEPT !.id = x, !.vals = v]
<1>0. TypeOK /\ RowsInv
  BY Zenon DEF IndInv
<1>1. /\ granted \subseteq granted' /\ granted' \subseteq Kinds
      /\ unsafe' = unsafe /\ unsafe' \subseteq Templates \cup {Default} /\ pruned' = pruned
  BY <1>0, Zenon DEF TypeOK, history
<1>2. Start("assign", "row") \in Progress
  BY StartType, Zenon DEF PC
<1>3. /\ v \in [Ids -> Value] /\ \A y \in Ids : ~v[y].critical
      /\ \A y \in Ids : y # x => v[y].template = None
  <2>1. Start("assign", "row").vals = [y \in Ids |-> Blank]
    BY StartFields
  <2>2. v = [y \in Ids |-> IF y = x THEN [Blank EXCEPT !.template = t] ELSE Blank]
    BY <2>1, Zenon
  <2> HIDE DEF v
  <2>3. \A y \in Ids : v[y] = IF y = x THEN [Blank EXCEPT !.template = t] ELSE Blank
    BY <2>2, Zenon
  <2>4. Blank \in Value /\ Blank.template = None /\ ~Blank.critical
    BY Values, Zenon DEF Blank
  <2>5. \A y \in Ids : v[y] \in Value /\ ~v[y].critical /\ (y # x => v[y].template = None)
    BY <2>3, <2>4, BlankWith, Zenon
  <2>6. v \in [Ids -> Value]
    BY <2>2, <2>4, BlankWith, Zenon
  <2> QED
    BY <2>5, <2>6, Zenon
<1>4. Step(p, r, {})
  BY Zenon
<1> HIDE DEF v
<1>5. r \in Progress
  BY <1>2, <1>3, Zenon DEF Progress
<1>6. r.op = "assign" /\ r.pc = "row" /\ r.id = x /\ r.vals = v /\ Clear(r.snap)
  BY <1>2, StartFields DEF Progress
<1> HIDE DEF r
<1>7. TypeOK' /\ proc'[p] = r /\ Default \in Known' /\ (Good(p)' => IndInv')
  BY <1>1, <1>4, <1>5, BeginKeeps, Zenon
<1>8. Sane(p)'
  BY <1>3, <1>6, <1>7, Names, Zenon DEF Sane, Clear, Upserting
<1> QED
  BY <1>6, <1>7, <1>8, PlainGood, Zenon

LEMMA UpdateKeeps ==
    ASSUME IndInv, NEW p \in Requests, Update(p)
    PROVE  IndInv'
<1> PICK k \in Kinds, c \in BOOLEAN, t \in Templates \cup {Default, None} :
         /\ Step(p, [Start("update", "refind") EXCEPT
                       !.id = k, !.vals[k] = [critical |-> c, template |-> t]], {})
         /\ granted' = IF c THEN granted \cup {k} ELSE granted
         /\ unsafe' = IF t \in templates \cup {None} THEN unsafe ELSE unsafe \cup {t}
         /\ UNCHANGED <<tables, templates, sent, pruned>>
  BY Zenon DEF Update
<1> DEFINE w == [critical |-> c, template |-> t]
           v == [Start("update", "refind").vals EXCEPT ![k] = w]
           r == [Start("update", "refind") EXCEPT !.id = k, !.vals = v]
<1>0. TypeOK /\ RowsInv
  BY Zenon DEF IndInv
<1>1. /\ granted \subseteq granted' /\ granted' \subseteq Kinds /\ (c => k \in granted')
      /\ unsafe \subseteq unsafe' /\ unsafe' \subseteq Templates \cup {Default}
      /\ t \in Known' \cup {None}
  BY <1>0, Zenon DEF TypeOK, Known
<1>2. Start("update", "refind") \in Progress
  BY StartType, Zenon DEF PC
<1>3. /\ v \in [Ids -> Value] /\ \A y \in Kinds : v[y].critical => c /\ y = k
      /\ \A y \in Ids : v[y].template \in {t, None}
  <2>1. Start("update", "refind").vals = [y \in Ids |-> Blank]
    BY StartFields
  <2>2. v = [y \in Ids |-> IF y = k THEN w ELSE Blank]
    BY <2>1, Zenon
  <2>3. w \in Value /\ w.critical = c /\ w.template = t
    BY Zenon DEF Value
  <2> HIDE DEF v, w
  <2>4. Blank \in Value /\ Blank.template = None /\ ~Blank.critical
    BY Values, Zenon DEF Blank
  <2>5. \A y \in Ids : v[y] = IF y = k THEN w ELSE Blank
    BY <2>2, Zenon
  <2> QED
    BY <2>2, <2>3, <2>4, <2>5, Names, Zenon
<1>4. Step(p, r, {})
  BY Zenon
<1> HIDE DEF v
<1>5. r \in Progress
  BY <1>2, <1>3, Names, Zenon DEF Progress
<1>6. r.op = "update" /\ r.pc = "refind" /\ r.id = k /\ r.vals = v /\ Clear(r.snap)
  BY <1>2, StartFields DEF Progress
<1> HIDE DEF r
<1>7. TypeOK' /\ proc'[p] = r /\ Default \in Known' /\ (Good(p)' => IndInv')
  BY <1>1, <1>4, <1>5, BeginKeeps, Zenon
<1>8. Sane(p)'
  BY <1>1, <1>3, <1>6, <1>7, Names, Zenon DEF Sane, Clear, Upserting
<1> QED
  BY <1>6, <1>7, <1>8, PlainGood, Zenon

LEMMA LoadKeeps ==
    ASSUME IndInv, NEW p \in Requests, Load(p)
    PROVE  IndInv'
<1> PICK k \in sent :
         /\ Step(p, [Start("load", IF k = None THEN "client" ELSE "kind") EXCEPT !.list = {k}], {})
         /\ UNCHANGED <<tables, templates, sent, history>>
  BY Zenon DEF Load
<1> DEFINE pc == IF k = None THEN "client" ELSE "kind"
           r == [Start("load", pc) EXCEPT !.list = {k}]
<1>0. TypeOK /\ RowsInv /\ k \in Kinds \cup {None}
  BY Zenon DEF IndInv, TypeOK
<1>1. /\ granted \subseteq granted' /\ granted' \subseteq Kinds /\ sent' = sent
      /\ unsafe' = unsafe /\ unsafe' \subseteq Templates \cup {Default} /\ pruned' = pruned
  BY <1>0, Zenon DEF TypeOK, history
<1>2. pc \in {"client", "kind"} /\ (pc = "kind" => k \in Kinds)
  BY <1>0, Zenon
<1>3. Step(p, r, {})
  BY Zenon
<1> HIDE DEF pc
<1>4. Start("load", pc) \in Progress
  BY <1>2, StartType, Zenon DEF PC
<1>5. r \in Progress
  BY <1>0, <1>4, Zenon DEF Progress
<1>6. /\ r.op = "load" /\ r.pc = pc /\ r.list = {k}
      /\ r.vals = [x \in Ids |-> Blank] /\ Clear(r.snap)
  BY <1>4, StartFields DEF Progress
<1> HIDE DEF r
<1>7. TypeOK' /\ proc'[p] = r /\ Default \in Known' /\ (Good(p)' => IndInv')
  BY <1>1, <1>3, <1>5, BeginKeeps, Zenon
<1>8. Sane(p)'
  BY <1>2, <1>6, <1>7, Names DEF Sane, Clear, Blank, Upserting
<1>9. Loading(p)'
  BY <1>1, <1>2, <1>6, <1>7, Zenon DEF Loading
<1>10. /\ Notifying(p)' /\ WritesBack(p)' /\ Registering(p)' /\ Isolated(p)' /\ Registered(p)'
  BY <1>6, <1>7, Zenon DEF Notifying, WritesBack, Registering, Isolated, Registered
<1> QED
  BY <1>7, <1>8, <1>9, <1>10, Zenon DEF Good

\* Templates come and go: one that goes is on record.
LEMMA TemplatesKeep ==
    ASSUME IndInv, UNCHANGED <<tables, proc, sent, granted, pruned>>,
           templates' \subseteq Templates \cup {Default}, unsafe' \subseteq Templates \cup {Default},
           unsafe \subseteq unsafe', Known \subseteq Known'
    PROVE  IndInv'
<1>0. TypeOK /\ RowsInv
  BY Zenon DEF IndInv
<1>1. rows' = rows /\ proc' = proc /\ lastKey' = lastKey
  BY Zenon DEF tables
<1>2. TypeOK'
  BY <1>0, <1>1, Zenon DEF TypeOK
<1>3. RowsInv' /\ Grown
  BY <1>0, <1>1, Zenon DEF RowsInv, CriticalAuthorised, DispatchedRegistered, Grown, Present
<1>4. ASSUME NEW q \in Requests PROVE Good(q)'
  <2>1. Undisturbed(q, {})
    BY <1>1, Zenon DEF Undisturbed
  <2> QED
    BY <1>0, <1>1, <1>2, <1>3, <2>1, OthersKeep, Zenon DEF IndInv
<1> QED
  BY <1>2, <1>3, <1>4, Zenon DEF IndInv

LEMMA TemplateSteps ==
    ASSUME IndInv,
           \/ \E t \in Templates \cup {Default} : DeleteTemplate(t)
           \/ \E t \in Templates : CreateTemplate(t)
           \/ Seed
    PROVE  IndInv'
<1>0. templates \subseteq Templates \cup {Default} /\ unsafe \subseteq Templates \cup {Default}
  BY Zenon DEF IndInv, TypeOK
<1>1. ASSUME NEW t \in Templates \cup {Default}, DeleteTemplate(t) PROVE IndInv'
  BY <1>0, <1>1, TemplatesKeep, Zenon DEF DeleteTemplate, Known
<1>2. ASSUME NEW t \in Templates, CreateTemplate(t) PROVE IndInv'
  BY <1>0, <1>2, TemplatesKeep, Zenon DEF CreateTemplate, Known, history
<1>3. ASSUME Seed PROVE IndInv'
  BY <1>0, <1>3, TemplatesKeep, Zenon DEF Seed, Known, history
<1> QED
  BY <1>1, <1>2, <1>3, Zenon

-----------------------------------------------------------------------------
(* The invariant.                                                          *)

\* A step of request p.
Own(p) ==
    \/ Begin(p) \/ Fail(p)
    \/ FindClient(p) \/ FindKind(p) \/ FindRow(p) \/ FindTemplate(p)
    \/ Find(p) \/ Insert(p) \/ Refind(p) \/ Write(p) \/ Confirm(p)
    \/ Prune(p) \/ Commit(p) \/ Dispatch(p)
    \/ LoadKind(p) \/ LoadClient(p) \/ LoadTemplate(p)

LEMMA InsertKeeps ==
    ASSUME IndInv, NEW p \in Requests, Insert(p)
    PROVE  IndInv'
<1>1. proc[p].op \in {"notify", "register"}
  BY Zenon DEF Insert, IndInv, Good, Sane
<1> QED
  BY <1>1, InsertNotify, InsertRegister, Zenon

LEMMA IndInvStep ==
    ASSUME IndInv, [Next]_vars
    PROVE  IndInv'
<1>1. ASSUME NEW p \in Requests, Own(p) PROVE IndInv'
  <2>1. CASE Begin(p)
    BY <2>1, RegisterKeeps, NotifyKeeps, AssignKeeps, UpdateKeeps, LoadKeeps, Zenon DEF Begin
  <2> QED
    BY <1>1, <2>1, FailKeeps, FindClientKeeps, FindKindKeeps, FindRowKeeps, FindTemplateKeeps,
       FindKeeps, InsertKeeps, RefindKeeps, WriteKeeps, ConfirmKeeps, PruneKeeps, CommitKeeps,
       DispatchKeeps, LoadKindKeeps, LoadClientKeeps, LoadTemplateKeeps, Zenon DEF Own
<1>2. CASE UNCHANGED vars
  <2>1. UNCHANGED <<tables, proc, sent, granted, pruned>> /\ templates' = templates
        /\ unsafe' = unsafe
    BY <1>2, Zenon DEF vars, tables
  <2> QED
    BY <2>1, TemplatesKeep, Zenon DEF IndInv, TypeOK, Known
<1> QED
  BY <1>1, <1>2, TemplateSteps, Zenon DEF Next, Own

\* IndInv holds in every state the service can reach.
THEOREM IndInvCorrect == Spec => []IndInv
<1>1. Init => IndInv
  <2> SUFFICES ASSUME Init PROVE IndInv
    BY Zenon
  <2>1. templates \subseteq Templates \cup {Default} /\ Default \in templates
    BY Zenon DEF Init
  <2>2. PICK old \in SUBSET Ids, crit \in SUBSET Kinds, t \in templates :
         /\ old # {} => Client \in old
         /\ rows = [x \in Ids |->
                      IF x \in old THEN [key |-> 1, critical |-> x \in crit, template |-> t]
                      ELSE NoRow]
         /\ sent = old \ {Client}
         /\ granted = crit
    BY Zenon DEF Init
  <2>3. ASSUME NEW x \in Ids
        PROVE  /\ rows[x] \in Row /\ Proper(rows[x]) /\ rows[x].template \in templates
               /\ x \in old => rows[x] # NoRow
               /\ rows[x].critical => x \in crit
    <3>1. CASE x \notin old
      <4>1. rows[x] = NoRow
        BY <2>2, <3>1, Zenon
      <4> QED
        BY <2>1, <3>1, <4>1, Values DEF Proper, NoRow
    <3>2. CASE x \in old
      <4> DEFINE row(b) == [key |-> 1, critical |-> b, template |-> t]
      <4>1. \A b \in BOOLEAN : row(b) \in Row /\ row(b).key = 1 /\ row(b).critical = b
                               /\ row(b).template = t
        BY <2>1, Zenon DEF Row
      <4>2. rows[x] = row(x \in crit) /\ (x \in crit) \in BOOLEAN
        BY <2>2, <3>2
      <4> HIDE DEF row
      <4>3. rows[x] \in Row /\ rows[x].key = 1 /\ rows[x].template = t
            /\ (rows[x].critical => x \in crit)
        BY <4>1, <4>2, Zenon
      <4> QED
        BY <2>1, <4>3 DEF Proper, NoRow
    <3> QED
      BY <3>1, <3>2, Zenon
  <2>4. \A p \in Requests : proc[p] = Start("none", "idle")
    BY Zenon DEF Init
  <2>5. TypeOK
    <3>1. rows \in [Ids -> Row]
      BY <2>2, <2>3, Zenon
    <3>2. proc \in [Requests -> Progress]
      BY StartType, Zenon DEF Init, PC
    <3> QED
      BY <2>1, <2>2, <3>1, <3>2, Names, Zenon DEF Init, TypeOK
  <2>6. RowsInv
    BY <2>1, <2>2, <2>3, Names, Zenon DEF RowsInv, Known, CriticalAuthorised, DispatchedRegistered
  <2>7. ASSUME NEW p \in Requests PROVE Good(p)
    <3>1. /\ proc[p].op = "none" /\ proc[p].pc = "idle"
          /\ proc[p].vals = [x \in Ids |-> Blank] /\ Clear(proc[p].snap)
      BY <2>4, StartFields
    <3>2. Sane(p)
      BY <2>1, <3>1, Names DEF Sane, Clear, Blank, Upserting, Known
    <3> QED
      BY <3>1, <3>2, Zenon
         DEF Good, Notifying, WritesBack, Registering, Isolated, Registered, Loading
  <2> QED
    BY <2>5, <2>6, <2>7, Zenon DEF IndInv
<1>2. IndInv /\ [Next]_vars => IndInv'
  BY IndInvStep, Zenon
<1> QED
  BY <1>1, <1>2, PTL DEF Spec

-----------------------------------------------------------------------------
(* The properties.                                                         *)

\* Every row has a template, and every request its type, whatever ran beside
\* it (TypeOK).
THEOREM TypeCorrect == Spec => []TypeOK
<1>1. IndInv => TypeOK
  BY Zenon DEF IndInv
<1> QED
  BY <1>1, IndInvCorrect, PTL

\* No notify request and no overlap of requests makes a kind critical that
\* nobody with the authority made critical (CriticalAuthorised).
THEOREM CriticalNeedsAuthority == Spec => []CriticalAuthorised
<1>1. IndInv => CriticalAuthorised
  BY Zenon DEF IndInv, RowsInv
<1> QED
  BY <1>1, IndInvCorrect, PTL

\* From the dispatch of a notify request on, the rows of the client and the
\* kind are there, unless a registration prunes the kind (DispatchedRegistered).
THEOREM RegisteredBeforeDispatch == Spec => []DispatchedRegistered
<1>1. IndInv => DispatchedRegistered
  BY Zenon DEF IndInv, RowsInv
<1> QED
  BY <1>1, IndInvCorrect, PTL

\* A worker's lookup of a template fails only for a pruned kind, or a template
\* that was deleted or named in a request unchecked (LoadExplained).
THEOREM LookupsExplained == Spec => []LoadExplained
<1>1. IndInv => LoadExplained
  BY Zenon DEF IndInv, Good, Loading, LoadExplained
<1> QED
  BY <1>1, IndInvCorrect, PTL

\* A request is moved by its own steps only.
LEMMA OthersStay ==
    ASSUME TypeOK, NEW p \in Requests, NEW q \in Requests, p # q, NEW r, NEW X, Step(q, r, X)
    PROVE  proc'[p].pc = proc[p].pc
<1>1. proc[p] \in Progress
  BY Zenon DEF TypeOK
<1>2. proc'[p] = [proc[p] EXCEPT !.overlap = @ \cup X] \/ proc'[p] = proc[p]
  BY Zenon DEF Step
<1> QED
  BY <1>1, <1>2, Zenon DEF Progress

LEMMA OwnSteps ==
    ASSUME TypeOK, Next, NEW p \in Requests, proc'[p].pc # proc[p].pc
    PROVE  Own(p)
<1>1. ASSUME NEW q \in Requests, Own(q) PROVE \E r, X : Step(q, r, X)
  <2>1. CASE Begin(q)
    BY <2>1, Zenon DEF Begin, Register, Notify, Assign, Update, Load
  <2>2. CASE Fail(q) \/ FindClient(q) \/ FindKind(q) \/ FindRow(q) \/ FindTemplate(q)
    BY <2>2, Zenon DEF Fail, FindClient, FindKind, FindRow, FindTemplate, Read
  <2>3. CASE Find(q) \/ Refind(q) \/ Confirm(q) \/ Prune(q) \/ Commit(q) \/ Dispatch(q)
    BY <2>3, Zenon DEF Find, Refind, Confirm, Prune, Commit, Dispatch, Read
  <2>4. CASE Insert(q) \/ Write(q)
    BY <2>4, Zenon DEF Insert, Write, Put
  <2>5. CASE LoadKind(q) \/ LoadClient(q) \/ LoadTemplate(q)
    BY <2>5, Zenon DEF LoadKind, LoadClient, LoadTemplate, Read
  <2> QED
    BY <1>1, <2>1, <2>2, <2>3, <2>4, <2>5, Zenon DEF Own
<1>2. ASSUME NEW q \in Requests, Own(q), q # p PROVE FALSE
  BY <1>1, <1>2, OthersStay, Zenon
<1>3. ASSUME \/ \E t \in Templates \cup {Default} : DeleteTemplate(t)
             \/ \E t \in Templates : CreateTemplate(t)
             \/ Seed
      PROVE  FALSE
  BY <1>3, Zenon DEF DeleteTemplate, CreateTemplate, Seed
<1> QED
  BY <1>2, <1>3, Zenon DEF Next, Own

\* A registration leaves exactly the kinds it names, as critical as it says and
\* with the templates it names, apart from those others changed meanwhile (RegistrationTakesEffect).
THEOREM RegistrationsTakeEffect == Spec => RegistrationTakesEffect
<1> DEFINE Done(p) ==
        (proc[p].pc = "commit" /\ proc'[p].pc = "done") =>
          \A k \in Kinds \ proc[p].overlap :
            /\ k \in proc[p].list =>
                 rows'[k] # NoRow /\ rows'[k].critical = proc[p].vals[k].critical
            /\ k \in proc[p].given => rows'[k].template = proc[p].vals[k].template
            /\ (proc[p].prune /\ k \notin proc[p].list) => rows'[k] = NoRow
<1>1. ASSUME IndInv, [Next]_vars, NEW p \in Requests PROVE Done(p)
  <2> SUFFICES ASSUME proc[p].pc = "commit", proc'[p].pc = "done",
                      NEW k \in Kinds \ proc[p].overlap
               PROVE  /\ k \in proc[p].list =>
                           rows'[k] # NoRow /\ rows'[k].critical = proc[p].vals[k].critical
                      /\ k \in proc[p].given => rows'[k].template = proc[p].vals[k].template
                      /\ (proc[p].prune /\ k \notin proc[p].list) => rows'[k] = NoRow
    BY Zenon
  <2>1. TypeOK /\ Good(p) /\ Next
    BY <1>1, Zenon DEF IndInv, vars
  <2>2. Own(p)
    BY <2>1, OwnSteps, Zenon
  <2>3. /\ proc[p].op = "register" /\ Active(p)
    BY <2>1, Zenon DEF Good, Sane, Active
  <2>4. ~Fail(p)
    <3>1. SUFFICES ASSUME Fail(p) PROVE FALSE
      BY Zenon
    <3>2. Start(proc[p].op, "failed") \in Progress
      BY <2>3, StartType, Zenon DEF PC
    <3>3. proc'[p] = Start(proc[p].op, "failed")
      BY <2>1, <3>1, <3>2, StepEffect DEF Fail
    <3> QED
      BY <3>3, StartFields
  <2>5. Commit(p)
    BY <2>2, <2>3, <2>4, Zenon
       DEF Own, Begin, FindClient, FindKind, FindRow, FindTemplate, Find, Insert, Refind, Write,
           Confirm, Prune, Dispatch, LoadKind, LoadClient, LoadTemplate
  <2>6. rows'[k] = IF k \in proc[p].wrote THEN proc[p].snap[k] ELSE rows[k]
    BY <2>5, Names, Zenon DEF Commit
  <2>7. proc[p].todo = {} /\ proc[p].given \subseteq proc[p].list
    BY <2>1, <2>3, Zenon DEF Good, Registering
  <2> QED
    BY <2>1, <2>3, <2>6, <2>7, Zenon DEF Good, Registered
<1>2. IndInv /\ [Next]_vars => [\A p \in Requests : Done(p)]_vars
  BY <1>1, Zenon
<1> QED
  BY <1>2, IndInvCorrect, PTL DEF Spec, RegistrationTakesEffect

\* What a notify request writes back and a registration writes anew undoes no
\* assignment made before it began (NoStaleWriteBack).
THEOREM NothingUndone == Spec => NoStaleWriteBack
<1> DEFINE Undone(p) ==
        proc'[p].pc # proc[p].pc =>
          \A x \in Ids \ proc[p].overlap : (rows[x] # NoRow /\ rows'[x] # NoRow) =>
            /\ proc[p].op \in {"notify", "register"} =>
                 rows'[x].template = rows[x].template \/ x \in proc[p].given
            /\ proc[p].op = "notify" => rows'[x] = rows[x]
<1>1. ASSUME IndInv, [Next]_vars, NEW p \in Requests PROVE Undone(p)
  <2> SUFFICES ASSUME proc'[p].pc # proc[p].pc, NEW x \in Ids \ proc[p].overlap,
                      rows[x] # NoRow, rows'[x] # NoRow,
                      proc[p].op \in {"notify", "register"}
               PROVE  /\ rows'[x].template = rows[x].template \/ x \in proc[p].given
                      /\ proc[p].op = "notify" => rows'[x] = rows[x]
    BY Zenon
  <2>1. TypeOK /\ Good(p) /\ Next /\ rows \in [Ids -> Row]
    BY <1>1, Zenon DEF IndInv, TypeOK, vars
  <2>2. Own(p)
    BY <2>1, OwnSteps, Zenon
  <2>3. CASE Insert(p)
    <3>1. rows[proc[p].id] = NoRow
      BY <2>3, Zenon DEF Insert
    <3>2. rows' = rows \/ \E row : rows' = [rows EXCEPT ![proc[p].id] = row]
      BY <2>3, Zenon DEF Insert, Put
    <3> QED
      BY <2>1, <3>1, <3>2, Zenon
  <2>4. CASE Write(p) /\ proc[p].op = "notify"
    <3> DEFINE row == [key |-> proc[p].key, critical |-> proc[p].vals[proc[p].id].critical,
                       template |-> proc[p].vals[proc[p].id].template]
    <3>1. /\ proc[p].pc = "write"
          /\ rows' = rows \/ (rows' = [rows EXCEPT ![proc[p].id] = row]
                              /\ rows[proc[p].id].key = proc[p].key)
      BY <2>4, Zenon DEF Write, Put
    <3>2. x = proc[p].id => /\ proc[p].vals[x].critical = rows[x].critical
                            /\ proc[p].vals[x].template = rows[x].template
      BY <2>1, <2>4, <3>1, Zenon DEF Good, WritesBack, Pending, Upserting, Present
    <3>3. x = proc[p].id /\ rows[x].key = proc[p].key => row = rows[x]
      BY <2>1, <3>2, Zenon DEF Row
    <3> HIDE DEF row
    <3> QED
      BY <2>1, <3>1, <3>3, Zenon
  <2>5. CASE Write(p) /\ proc[p].op = "register"
    BY <2>5, Zenon DEF Write, Put
  <2>6. CASE Commit(p)
    <3>1. /\ rows'[x] = IF x \in proc[p].wrote THEN proc[p].snap[x] ELSE rows[x]
          /\ proc[p].pc = "commit" /\ proc[p].op = "register" /\ Active(p) /\ ~First(p)
      BY <2>1, <2>6, Zenon DEF Commit, Good, Sane, Active, First
    <3> QED
      BY <2>1, <3>1, Zenon DEF Good, Isolated, Present
  <2>7. CASE \/ Begin(p) \/ Fail(p)
             \/ FindClient(p) \/ FindKind(p) \/ FindRow(p) \/ FindTemplate(p)
             \/ Find(p) \/ Refind(p) \/ Confirm(p) \/ Prune(p) \/ Dispatch(p)
             \/ LoadKind(p) \/ LoadClient(p) \/ LoadTemplate(p)
    <3>1. rows' = rows
      BY <2>7, Zenon DEF Begin, Register, Notify, Assign, Update, Load, Fail, FindClient, FindKind,
             FindRow, FindTemplate, Find, Refind, Confirm, Prune, Dispatch, LoadKind, LoadClient,
             LoadTemplate, Read, tables
    <3> QED
      BY <3>1, Zenon
  <2> QED
    BY <2>2, <2>3, <2>4, <2>5, <2>6, <2>7, Zenon DEF Own
<1>2. IndInv /\ [Next]_vars => [\A p \in Requests : Undone(p)]_vars
  BY <1>1, Zenon
<1> QED
  BY <1>2, IndInvCorrect, PTL DEF Spec, NoStaleWriteBack
=============================================================================
