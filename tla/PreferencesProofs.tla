------------------------- MODULE PreferencesProofs -------------------------
(* What Preferences guarantees for any number of kinds, updates, readers and
   changes: accepted updates take effect, as a whole and only as far as they
   may, workers honour what was promised, and which updates deadlock. *)
EXTENDS Preferences, TLAPS

UType == [pc: Closed \cup {"loop", "insert", "shared", "delete"},
          asked: [Settings -> {"on", "off", "none"}],
          todo: SUBSET Kinds, cur: Settings, view: [Settings -> Keys],
          sees: SUBSET Kinds, wrote: SUBSET Settings, overlap: SUBSET Settings]

Types ==
    /\ kinds \in [Kinds -> {"absent", "ordinary", "critical"}]
    /\ rows \in [Settings -> Keys]
    /\ upd \in [Updates -> UType]
    /\ promise \in [Settings -> {"on", "off", "any"}]
    /\ ordinary \in SUBSET Kinds

\* In the view of update u, setting x is as asked.
Agrees(u, x) ==
    /\ u.asked[x] = "off" => u.view[x] # Absent
    /\ u.asked[x] = "on" => u.view[x] = Absent

\* What holds of an update, given the rows and the kinds that ever were
\* ordinary: its view is that of the table, but for what it wrote and what
\* others changed; it only writes what was asked, of kinds it may change; what
\* it is done with is as asked, or was changed by others; and the global
\* setting comes first.
Sound(u, rws, ord) ==
    /\ u.pc \in Closed => u.wrote = {}
    /\ u.pc \notin Closed =>
         /\ u.sees \subseteq ord
         /\ \A x \in Settings \ (u.wrote \cup u.overlap) : u.view[x] = rws[x]
         /\ \A x \in u.wrote : u.asked[x] # "none" /\ Agrees(u, x) /\ x \notin u.todo
         /\ \A k \in u.wrote \cap Kinds : k \in ord
         /\ \A x \in Settings : x \notin u.todo /\ (u.pc = "loop" \/ x # u.cur) =>
              Agrees(u, x) \/ x \in u.overlap
    /\ u.pc \in {"insert", "shared", "delete"} =>
         /\ u.cur \notin u.wrote /\ u.cur \notin u.todo
         /\ u.cur \in Kinds => u.cur \in ord
         /\ u.cur = Global => u.wrote = {}
         /\ u.pc \in {"insert", "shared"} => u.asked[u.cur] = "off"
         /\ u.pc = "delete" => u.asked[u.cur] = "on" /\ u.view[u.cur] # Absent

\* No two updates have written the same row.
Apart == \A p, q \in Updates : p # q => upd[p].wrote \cap upd[q].wrote = {}

KnownOrdinary == \A k \in Kinds : kinds[k] = "ordinary" => k \in ordinary

UpdInv ==
    /\ Types /\ Apart /\ KnownOrdinary
    /\ \A p \in Updates : Sound(upd[p], rows, ordinary)
    /\ PromiseKept /\ UnsubscribeAllowed

-----------------------------------------------------------------------------
LEMMA SettingsFacts ==
    /\ Kinds \subseteq Settings /\ Global \in Settings /\ Global \notin Kinds
    /\ \A x \in Settings : x \in Kinds \/ x = Global
    /\ Absent \in Keys /\ "old" \in Keys /\ "old" # Absent
    /\ \A p \in Updates : p \in Keys /\ p # Absent
  BY PreferencesAssumption, Zenon DEF Settings, Keys, Absent

\* A closed request holds nothing.
LEMMA IdleSound ==
    ASSUME NEW pc \in Closed
    PROVE  /\ Idle(pc) \in UType /\ Idle(pc).wrote = {}
           /\ \A rws, ord : Sound(Idle(pc), rws, ord)
<1>1. Idle(pc) \in UType
  BY SettingsFacts, Zenon DEF Idle, UType
<1>2. Idle(pc).wrote = {} /\ Idle(pc).pc = pc
  BY Zenon DEF Idle
<1> QED
  BY <1>1, <1>2, Zenon DEF Sound, Closed

\* When one update goes on and nothing else changes, it is enough to look at
\* that update.
LEMMA OneUpdate ==
    ASSUME UpdInv, NEW p \in Updates, NEW u \in UType,
           upd' = [upd EXCEPT ![p] = u], UNCHANGED <<kinds, rows, promise, ordinary>>,
           Sound(u, rows, ordinary),
           \A q \in Updates \ {p} : u.wrote \cap upd[q].wrote = {}
    PROVE  UpdInv'
<1>1. Types'
  BY Zenon DEF UpdInv, Types
<1>2. \A q \in Updates : upd'[q] = IF q = p THEN u ELSE upd[q]
  BY Zenon DEF UpdInv, Types
<1>3. Apart'
  BY <1>2 DEF UpdInv, Apart
<1>4. \A q \in Updates : Sound(upd[q], rows, ordinary)'
  <2> SUFFICES ASSUME NEW q \in Updates PROVE Sound(upd'[q], rows, ordinary)
    BY DEF Sound, Agrees
  <2> QED
    BY <1>2, Zenon DEF UpdInv
<1> QED
  BY <1>1, <1>3, <1>4, Zenon DEF UpdInv, KnownOrdinary, PromiseKept, UnsubscribeAllowed

LEMMA RefuseStep == ASSUME UpdInv, NEW p \in Updates, Refuse(p) PROVE UpdInv'
<1>1. /\ Idle("refused") \in UType /\ Idle("refused").wrote = {}
      /\ Sound(Idle("refused"), rows, ordinary)
  BY IdleSound, Zenon DEF Closed
<1> QED
  BY <1>1, OneUpdate, Zenon DEF Refuse

\* The view is the table.
LEMMA UpdateStep == ASSUME UpdInv, NEW p \in Updates, Update(p) PROVE UpdInv'
<1>1. PICK asked \in Asks :
        upd' = [upd EXCEPT ![p] = [Idle(Todo(asked, rows, Global)) EXCEPT
                   !.asked = asked, !.todo = {k \in Kinds : asked[k] # "none"},
                   !.view = rows, !.sees = {k \in Kinds : kinds[k] = "ordinary"}]]
  BY Zenon DEF Update
<1> DEFINE u == [Idle(Todo(asked, rows, Global)) EXCEPT
                   !.asked = asked, !.todo = {k \in Kinds : asked[k] # "none"},
                   !.view = rows, !.sees = {k \in Kinds : kinds[k] = "ordinary"}]
<1>2. /\ u.pc = Todo(asked, rows, Global) /\ u.asked = asked
      /\ u.todo = {k \in Kinds : asked[k] # "none"} /\ u.cur = Global /\ u.view = rows
      /\ u.sees = {k \in Kinds : kinds[k] = "ordinary"} /\ u.wrote = {} /\ u.overlap = {}
  BY Zenon DEF Idle
<1>3. asked \in [Settings -> {"on", "off", "none"}] /\ asked[Global] # "none"
  BY PreferencesAssumption, Zenon DEF Ask
<1>4. /\ u.pc \in {"insert", "delete", "loop"}
      /\ u.pc = "insert" => asked[Global] = "off" /\ rows[Global] = Absent
      /\ u.pc = "delete" => asked[Global] = "on" /\ rows[Global] # Absent
      /\ u.pc = "loop" => Agrees(u, Global)
  BY <1>2, <1>3, SettingsFacts DEF Todo, Agrees
<1>5. u \in UType
  <2>1. Todo(asked, rows, Global) \in {"insert", "delete", "loop"}
    BY Zenon DEF Todo
  <2>2. Idle(Todo(asked, rows, Global)) \in UType
    BY <2>1, SettingsFacts, Zenon DEF Idle, UType
  <2>3. rows \in [Settings -> Keys]
    BY Zenon DEF UpdInv, Types
  <2> QED
    BY <1>3, <2>2, <2>3, Zenon DEF UType
<1> HIDE DEF u
<1>6. Sound(u, rows, ordinary)
  <2>1. \A x \in Settings : x \notin u.todo /\ x # Global => Agrees(u, x)
    BY <1>2, <1>3, SettingsFacts, Zenon DEF Agrees
  <2> QED
    BY <1>2, <1>4, <2>1, SettingsFacts, Zenon DEF Sound, Closed, UpdInv, KnownOrdinary
<1>7. upd' = [upd EXCEPT ![p] = u] /\ UNCHANGED <<kinds, rows, promise, ordinary>>
  BY <1>1, Zenon DEF Update, u
<1>8. \A q \in Updates \ {p} : u.wrote \cap upd[q].wrote = {}
  BY <1>2, Zenon
<1> QED
  BY <1>5, <1>6, <1>7, <1>8, OneUpdate, Zenon

\* Only ordinary kinds of the snapshot get past the checks.
LEMMA FindKindStep == ASSUME UpdInv, NEW p \in Updates, FindKind(p) PROVE UpdInv'
<1>1. PICK k \in upd[p].todo :
        IF k \in upd[p].sees
        THEN /\ upd' = [upd EXCEPT ![p].pc = Todo(upd[p].asked, upd[p].view, k), ![p].cur = k,
                                   ![p].todo = @ \ {k}]
             /\ UNCHANGED <<kinds, rows, promise, ordinary>>
        ELSE Refuse(p)
  BY Zenon DEF FindKind
<1>2. CASE k \notin upd[p].sees
  BY <1>1, <1>2, RefuseStep, Zenon
<1>3. CASE k \in upd[p].sees
  <2> DEFINE o == upd[p]
             u == [o EXCEPT !.pc = Todo(o.asked, o.view, k), !.cur = k, !.todo = @ \ {k}]
  <2>1. o \in UType /\ o.pc = "loop" /\ Sound(o, rows, ordinary)
    BY Zenon DEF UpdInv, Types, FindKind
  <2>2. upd' = [upd EXCEPT ![p] = u] /\ UNCHANGED <<kinds, rows, promise, ordinary>>
    BY <1>1, <1>3, Zenon
  <2>3. /\ u.pc = Todo(o.asked, o.view, k) /\ u.cur = k /\ u.todo = o.todo \ {k}
        /\ u.asked = o.asked /\ u.view = o.view /\ u.sees = o.sees /\ u.wrote = o.wrote
        /\ u.overlap = o.overlap
    BY <2>1, Zenon DEF UType
  <2>4. /\ u.pc \in {"insert", "delete", "loop"}
        /\ u.pc = "insert" => o.asked[k] = "off" /\ o.view[k] = Absent
        /\ u.pc = "delete" => o.asked[k] = "on" /\ o.view[k] # Absent
        /\ u.pc = "loop" => Agrees(u, k)
    BY <2>3 DEF Todo, Agrees
  <2>5. k \in Kinds /\ k \in ordinary /\ k \notin o.wrote
    BY <2>1, <1>3, Zenon DEF UType, Sound, Closed
  <2>6. u \in UType
    BY <2>1, <2>4, <2>5, SettingsFacts, Zenon DEF UType
  <2> HIDE DEF u, o
  <2>7. \A x \in Settings : Agrees(u, x) <=> Agrees(o, x)
    BY <2>3, Zenon DEF Agrees
  <2>8. Sound(u, rows, ordinary)
    BY <2>1, <2>3, <2>4, <2>5, <2>7, SettingsFacts DEF Sound, Closed, UType
  <2>9. \A q \in Updates \ {p} : u.wrote \cap upd[q].wrote = {}
    BY <2>3, Zenon DEF o, UpdInv, Apart
  <2> QED
    BY <2>2, <2>6, <2>8, <2>9, OneUpdate, Zenon
<1> QED
  BY <1>2, <1>3, Zenon

\* The shared lock changes nothing but who waits for whom.
LEMMA ShareStep == ASSUME UpdInv, NEW p \in Updates, Share(p) PROVE UpdInv'
<1> DEFINE o == upd[p]
           u == [o EXCEPT !.pc = "shared"]
<1>1. o \in UType /\ o.pc = "insert" /\ Sound(o, rows, ordinary)
  BY Zenon DEF UpdInv, Types, Share
<1>2. upd' = [upd EXCEPT ![p] = u] /\ UNCHANGED <<kinds, rows, promise, ordinary>>
  BY Zenon DEF Share
<1>3. /\ u.pc = "shared" /\ u.cur = o.cur /\ u.todo = o.todo
      /\ u.asked = o.asked /\ u.view = o.view /\ u.sees = o.sees /\ u.wrote = o.wrote
      /\ u.overlap = o.overlap
  BY <1>1, Zenon DEF UType
<1>4. u \in UType
  BY <1>1, Zenon DEF UType
<1> HIDE DEF u, o
<1>5. Sound(u, rows, ordinary)
  BY <1>1, <1>3 DEF Sound, Closed, Agrees
<1>6. \A q \in Updates \ {p} : u.wrote \cap upd[q].wrote = {}
  BY <1>3, Zenon DEF o, UpdInv, Apart
<1> QED
  BY <1>2, <1>4, <1>5, <1>6, OneUpdate, Zenon

\* The row is inserted only where the table has none, and nobody else wrote it.
LEMMA InsertStep == ASSUME UpdInv, NEW p \in Updates, Insert(p) PROVE UpdInv'
<1> DEFINE o == upd[p]
           x == upd[p].cur
           u == [o EXCEPT !.pc = "loop", !.view[x] = p, !.wrote = @ \cup {x}]
<1>1. CASE rows[x] # Absent
  BY <1>1, RefuseStep, Zenon DEF Insert
<1>2. CASE rows[x] = Absent
  <2>1. o \in UType /\ o.pc = "shared" /\ Sound(o, rows, ordinary)
    BY Zenon DEF UpdInv, Types, Insert
  <2>2. upd' = [upd EXCEPT ![p] = u] /\ UNCHANGED <<kinds, rows, promise, ordinary>>
    BY <1>2, Zenon DEF Insert
  <2>3. /\ u.pc = "loop" /\ u.cur = o.cur /\ u.todo = o.todo
        /\ u.asked = o.asked /\ u.sees = o.sees /\ u.wrote = o.wrote \cup {x}
        /\ u.overlap = o.overlap
        /\ \A y \in Settings : u.view[y] = IF y = x THEN p ELSE o.view[y]
    BY <2>1, Zenon DEF UType
  <2>4. u \in UType /\ x \in Settings
    BY <2>1, SettingsFacts, Zenon DEF UType
  <2>5. \A q \in Updates \ {p} : x \notin upd[q].wrote
    BY <1>2, Zenon DEF Insert, Locked
  <2>6. x = o.cur
    BY Zenon
  <2> HIDE DEF u, o, x
  <2>7. Agrees(u, x) /\ \A y \in Settings \ {x} : Agrees(u, y) <=> Agrees(o, y)
    BY <2>1, <2>3, <2>4, <2>6, SettingsFacts, Zenon DEF Agrees, Sound
  <2>8. Sound(u, rows, ordinary)
    BY <2>1, <2>3, <2>4, <2>6, <2>7 DEF Sound, Closed, UType
  <2>9. \A q \in Updates \ {p} : u.wrote \cap upd[q].wrote = {}
    BY <2>3, <2>5, Zenon DEF o, UpdInv, Apart
  <2> QED
    BY <2>2, <2>4, <2>8, <2>9, OneUpdate, Zenon
<1> QED
  BY <1>1, <1>2, Zenon

\* A row that is deleted is the one that was found; if there is none, another
\* update has changed the setting.
LEMMA DeleteStep == ASSUME UpdInv, NEW p \in Updates, Delete(p) PROVE UpdInv'
<1> DEFINE o == upd[p]
           x == upd[p].cur
<1>1. o \in UType /\ o.pc = "delete" /\ Sound(o, rows, ordinary) /\ x \in Settings
  BY Zenon DEF UpdInv, Types, Delete, UType
<1>2. UNCHANGED <<kinds, rows, promise, ordinary>>
  BY Zenon DEF Delete
<1>3. CASE rows[x] = o.view[x]
  <2> DEFINE u == [o EXCEPT !.pc = "loop", !.view[x] = Absent, !.wrote = @ \cup {x}]
  <2>2. upd' = [upd EXCEPT ![p] = u]
    BY <1>3, Zenon DEF Delete
  <2>3. /\ u.pc = "loop" /\ u.cur = o.cur /\ u.todo = o.todo
        /\ u.asked = o.asked /\ u.sees = o.sees /\ u.wrote = o.wrote \cup {x}
        /\ u.overlap = o.overlap
        /\ \A y \in Settings : u.view[y] = IF y = x THEN Absent ELSE o.view[y]
    BY <1>1, Zenon DEF UType
  <2>4. u \in UType
    BY <1>1, SettingsFacts, Zenon DEF UType
  <2>5. \A q \in Updates \ {p} : x \notin upd[q].wrote
    BY Zenon DEF Delete, Locked
  <2>6. x = o.cur
    BY Zenon
  <2> HIDE DEF u, o, x
  <2>7. Agrees(u, x) /\ \A y \in Settings \ {x} : Agrees(u, y) <=> Agrees(o, y)
    BY <1>1, <2>3, <2>6, Zenon DEF Agrees, Sound
  <2>8. Sound(u, rows, ordinary)
    BY <1>1, <2>3, <2>6, <2>7 DEF Sound, Closed, UType
  <2>9. \A q \in Updates \ {p} : u.wrote \cap upd[q].wrote = {}
    BY <2>3, <2>5, Zenon DEF o, UpdInv, Apart
  <2> QED
    BY <1>2, <2>2, <2>4, <2>8, <2>9, OneUpdate, Zenon
<1>4. CASE rows[x] # o.view[x]
  <2> DEFINE u == [o EXCEPT !.pc = "loop"]
  <2>2. upd' = [upd EXCEPT ![p] = u]
    BY <1>4, Zenon DEF Delete
  <2>3. /\ u.pc = "loop" /\ u.cur = o.cur /\ u.todo = o.todo
        /\ u.asked = o.asked /\ u.sees = o.sees /\ u.wrote = o.wrote
        /\ u.overlap = o.overlap /\ u.view = o.view
    BY <1>1, Zenon DEF UType
  <2>4. u \in UType
    BY <1>1, Zenon DEF UType
  <2>6. x = o.cur
    BY Zenon
  <2> HIDE DEF u, o, x
  <2>7. x \in o.overlap /\ \A y \in Settings : Agrees(u, y) <=> Agrees(o, y)
    BY <1>1, <1>4, <2>3, <2>6, Zenon DEF Agrees, Sound, Closed
  <2>8. Sound(u, rows, ordinary)
    BY <1>1, <2>3, <2>6, <2>7, Zenon DEF Sound, Closed, UType
  <2>9. \A q \in Updates \ {p} : u.wrote \cap upd[q].wrote = {}
    BY <2>3, Zenon DEF o, UpdInv, Apart
  <2> QED
    BY <1>2, <2>2, <2>4, <2>8, <2>9, OneUpdate, Zenon
<1> QED
  BY <1>3, <1>4, Zenon

\* What a commit does to the table: each setting that was asked for is as asked,
\* or was changed by others.
LEMMA CommitRows ==
    ASSUME UpdInv, NEW p \in Updates, Commit(p), NEW x \in Settings
    PROVE  /\ rows'[x] = IF x \in upd[p].wrote THEN upd[p].view[x] ELSE rows[x]
           /\ upd[p].asked[x] = "none" => rows'[x] = rows[x]
           /\ upd[p].asked[x] = "off" => rows'[x] # Absent \/ x \in upd[p].overlap \ upd[p].wrote
           /\ upd[p].asked[x] = "on" => rows'[x] = Absent \/ x \in upd[p].overlap \ upd[p].wrote
<1> DEFINE u == upd[p]
<1>1. u.pc = "loop" /\ u.todo = {} /\ Sound(u, rows, ordinary)
  BY Zenon DEF UpdInv, Commit
<1>2. rows'[x] = IF x \in u.wrote THEN u.view[x] ELSE rows[x]
  BY Zenon DEF Commit
<1> HIDE DEF u
<1>3. Agrees(u, x) \/ x \in u.overlap
  BY <1>1, Zenon DEF Sound, Closed
<1>4. x \in u.wrote => Agrees(u, x) /\ u.asked[x] # "none"
  BY <1>1, Zenon DEF Sound, Closed
<1>5. x \notin u.wrote /\ x \notin u.overlap => u.view[x] = rows[x]
  BY <1>1, Zenon DEF Sound, Closed
<1> QED
  BY <1>2, <1>3, <1>4, <1>5, Zenon DEF Agrees, u

\* Others learn of the rows that changed, and none of those is their own.
LEMMA CommitStep == ASSUME UpdInv, NEW p \in Updates, Commit(p) PROVE UpdInv'
<1> DEFINE u == upd[p]
<1>1. u \in UType /\ u.pc = "loop" /\ u.todo = {} /\ Sound(u, rows, ordinary)
  BY Zenon DEF UpdInv, Commit, Types
<1>2. UNCHANGED <<kinds, ordinary>>
  BY Zenon DEF Commit
<1>3. upd'[p] = Idle("accepted")
  BY Zenon DEF Commit
<1>4. ASSUME NEW q \in Updates, q # p
      PROVE  /\ upd'[q] \in UType /\ upd'[q].wrote = upd[q].wrote
             /\ Sound(upd'[q], rows', ordinary)
  <2> DEFINE o == upd[q]
             v == upd'[q]
  <2>1. o \in UType /\ Sound(o, rows, ordinary) /\ u.wrote \in SUBSET Settings
    BY <1>1, Zenon DEF UpdInv, Types, UType
  <2>2. v = IF o.pc \notin Closed THEN [o EXCEPT !.overlap = @ \cup u.wrote] ELSE o
    BY <1>4, Zenon DEF Commit, Open
  <2>3. /\ v \in UType /\ v.pc = o.pc /\ v.cur = o.cur /\ v.todo = o.todo /\ v.asked = o.asked
        /\ v.sees = o.sees /\ v.wrote = o.wrote /\ v.view = o.view
        /\ o.pc \notin Closed => v.overlap = o.overlap \cup u.wrote
    BY <2>1, <2>2 DEF UType
  <2>4. \A x \in Settings : x \notin u.wrote => rows'[x] = rows[x]
    BY CommitRows, Zenon
  <2> HIDE DEF v, o, u
  <2>5. \A x \in Settings : Agrees(v, x) <=> Agrees(o, x)
    BY <2>3, Zenon DEF Agrees
  <2>6. Sound(v, rows', ordinary)
    BY <2>1, <2>3, <2>4, <2>5 DEF Sound, UType
  <2> QED
    BY <2>3, <2>6, Zenon DEF v, o
<1>5. /\ Idle("accepted") \in UType /\ Idle("accepted").wrote = {}
      /\ Sound(Idle("accepted"), rows', ordinary)
  BY IdleSound, Zenon DEF Closed
<1>6. \A q \in Updates : upd'[q] \in UType /\ Sound(upd'[q], rows', ordinary)
  BY <1>3, <1>4, <1>5, Zenon
<1>7. Apart'
  BY <1>3, <1>4, <1>5, Zenon DEF UpdInv, Apart
<1>8. \A x \in Settings : rows'[x] \in Keys /\ promise'[x] \in {"on", "off", "any"}
  BY <1>1, CommitRows, Zenon DEF Commit, UpdInv, Types, UType
<1>9. Types'
  <2>1. rows' = [x \in Settings |-> rows'[x]] /\ promise' = [x \in Settings |-> promise'[x]]
        /\ upd' = [q \in Updates |-> upd'[q]]
    BY Zenon DEF Commit
  <2> QED
    BY <1>2, <1>6, <1>8, <2>1, Zenon DEF UpdInv, Types
<1>10. PromiseKept'
  <2> SUFFICES ASSUME NEW x \in Settings
               PROVE  /\ promise'[x] = "off" => rows'[x] # Absent
                      /\ promise'[x] = "on" => rows'[x] = Absent
    BY Zenon DEF PromiseKept
  <2>1. promise'[x] = IF u.asked[x] = "none" THEN promise[x]
                      ELSE IF x \in u.overlap \ u.wrote /\ promise[x] # u.asked[x] THEN "any"
                      ELSE u.asked[x]
    BY Zenon DEF Commit
  <2> QED
    BY <2>1, CommitRows, Zenon DEF UpdInv, PromiseKept
<1>11. UnsubscribeAllowed'
  <2> SUFFICES ASSUME NEW k \in Kinds, rows'[k] # Absent PROVE k \in ordinary
    BY <1>2, Zenon DEF UnsubscribeAllowed
  <2>1. rows'[k] = IF k \in u.wrote THEN u.view[k] ELSE rows[k]
    BY CommitRows, SettingsFacts, Zenon
  <2>2. k \in u.wrote => k \in ordinary
    BY <1>1, Zenon DEF Sound, Closed
  <2> QED
    BY <2>1, <2>2, Zenon DEF UpdInv, UnsubscribeAllowed
<1>12. (\A q \in Updates : Sound(upd[q], rows, ordinary))' /\ KnownOrdinary'
  BY <1>2, <1>6, Zenon DEF UpdInv, KnownOrdinary, Sound, Agrees
<1> QED
  BY <1>7, <1>9, <1>10, <1>11, <1>12, Zenon DEF UpdInv

\* A registration only adds to the kinds that ever were ordinary.
LEMMA ChangeStep == ASSUME UpdInv, Change PROVE UpdInv'
<1>1. PICK k \in Kinds, c \in {"absent", "ordinary", "critical"} :
        /\ kinds' = [kinds EXCEPT ![k] = c]
        /\ ordinary' = IF c = "ordinary" THEN ordinary \cup {k} ELSE ordinary
  BY Zenon DEF Change
<1>2. UNCHANGED <<rows, upd, promise>> /\ ordinary \subseteq ordinary'
  BY <1>1, Zenon DEF Change
<1>3. Types' /\ KnownOrdinary'
  BY <1>1, <1>2, Zenon DEF UpdInv, Types, KnownOrdinary
<1>4. Apart' /\ PromiseKept' /\ UnsubscribeAllowed'
  BY <1>2, Zenon DEF UpdInv, Apart, PromiseKept, UnsubscribeAllowed
<1>5. \A q \in Updates : Sound(upd[q], rows, ordinary)'
  BY <1>2 DEF UpdInv, Sound, Agrees
<1> QED
  BY <1>3, <1>4, <1>5, Zenon DEF UpdInv

\* Readers, and steps that change nothing, leave the updates alone.
LEMMA OtherStep ==
    ASSUME UpdInv, UNCHANGED <<kinds, rows, upd, promise, ordinary>> PROVE UpdInv'
<1>1. Types' /\ KnownOrdinary' /\ Apart' /\ PromiseKept' /\ UnsubscribeAllowed'
  BY Zenon DEF UpdInv, Types, KnownOrdinary, Apart, PromiseKept, UnsubscribeAllowed
<1>2. \A q \in Updates : Sound(upd[q], rows, ordinary)'
  BY DEF UpdInv, Sound, Agrees
<1> QED
  BY <1>1, <1>2, Zenon DEF UpdInv

LEMMA InitUpdates == Init => UpdInv
<1> SUFFICES ASSUME Init PROVE UpdInv
  BY Zenon
<1>1. PICK off \in SUBSET ({Global} \cup ordinary) :
        rows = [x \in Settings |-> IF x \in off THEN "old" ELSE Absent]
  BY Zenon DEF Init
<1>2. /\ kinds \in [Kinds -> {"ordinary", "critical"}] /\ promise = [x \in Settings |-> "any"]
      /\ ordinary = {k \in Kinds : kinds[k] = "ordinary"}
      /\ upd = [p \in Updates |-> Idle("idle")]
  BY Zenon DEF Init
<1>3. /\ Idle("idle") \in UType /\ Idle("idle").wrote = {}
      /\ Sound(Idle("idle"), rows, ordinary)
  BY IdleSound, Zenon DEF Closed
<1>4. Types /\ KnownOrdinary /\ Apart
  BY <1>1, <1>2, <1>3, SettingsFacts, Zenon DEF Types, KnownOrdinary, Apart
<1>5. PromiseKept /\ UnsubscribeAllowed
  BY <1>1, <1>2, SettingsFacts, Zenon DEF PromiseKept, UnsubscribeAllowed
<1> QED
  BY <1>2, <1>3, <1>4, <1>5, Zenon DEF UpdInv

LEMMA ReadersLeaveUpdates ==
    ASSUME NEW r \in Readers, ReaderStep(r) PROVE UNCHANGED <<kinds, rows, upd, promise, ordinary>>
  BY Zenon DEF ReaderStep, Attempt, IsCritical, ReadSetting, GetGlobal, GetKinds, GetUnsubscribes,
         GetFails

LEMMA NextUpdates == UpdInv /\ [Next]_vars => UpdInv'
<1> SUFFICES ASSUME UpdInv, [Next]_vars PROVE UpdInv'
  BY Zenon
<1>1. ASSUME NEW p \in Updates,
             Update(p) \/ FindKind(p) \/ Share(p) \/ Insert(p) \/ Delete(p) \/ Commit(p) \/ Fail(p) \/ Victim(p)
      PROVE  UpdInv'
  BY <1>1, UpdateStep, FindKindStep, ShareStep, InsertStep, DeleteStep, CommitStep, RefuseStep, Zenon
  DEF Fail, Victim
<1>2. ASSUME NEW r \in Readers, ReaderStep(r) PROVE UpdInv'
  BY <1>2, ReadersLeaveUpdates, OtherStep, Zenon
<1>3. CASE UNCHANGED vars
  BY <1>3, OtherStep, Zenon DEF vars
<1> QED
  BY <1>1, <1>2, <1>3, ChangeStep, Zenon DEF Next

LEMMA UpdatesSound == Spec => []UpdInv
  BY InitUpdates, NextUpdates, PTL DEF Spec

-----------------------------------------------------------------------------
\* What an accepted update asked for is in the table, for any number of
\* concurrent updates (PreferenceUpdater.Execute).
THEOREM UpdatesTakeEffect == Spec => []PromiseKept
<1>1. UpdInv => PromiseKept
  BY Zenon DEF UpdInv
<1> QED
  BY <1>1, UpdatesSound, PTL

\* Nobody is unsubscribed from a kind that has always been critical.
THEOREM CriticalKept == Spec => []UnsubscribeAllowed
<1>1. UpdInv => UnsubscribeAllowed
  BY Zenon DEF UpdInv
<1> QED
  BY <1>1, UpdatesSound, PTL

\* An update changes the table as a whole or not at all.
THEOREM AllOrNothing == Spec => Atomic
<1> DEFINE A == rows' # rows => \E p \in Updates :
         /\ Open(p) /\ upd'[p].pc = "accepted"
         /\ \A x \in Settings :
              CASE upd[p].asked[x] = "none" -> rows'[x] = rows[x]
                [] upd[p].asked[x] = "off" -> rows'[x] # Absent \/ x \in upd[p].overlap \ upd[p].wrote
                [] upd[p].asked[x] = "on" -> rows'[x] = Absent \/ x \in upd[p].overlap \ upd[p].wrote
<1>1. UpdInv /\ [Next]_vars => [A]_vars
  <2> SUFFICES ASSUME UpdInv, Next, rows' # rows PROVE A
    BY Zenon DEF vars
  <2>1. PICK p \in Updates : Commit(p)
    BY ReadersLeaveUpdates, Zenon
    DEF Next, Update, FindKind, Share, Insert, Delete, Fail, Victim, Refuse, Change
  <2>2. Open(p) /\ upd'[p].pc = "accepted"
    BY <2>1, Zenon DEF Commit, Open, Closed, Idle
  <2>3. ASSUME NEW x \in Settings
        PROVE  CASE upd[p].asked[x] = "none" -> rows'[x] = rows[x]
                 [] upd[p].asked[x] = "off" -> rows'[x] # Absent \/ x \in upd[p].overlap \ upd[p].wrote
                 [] upd[p].asked[x] = "on" -> rows'[x] = Absent \/ x \in upd[p].overlap \ upd[p].wrote
    <3>1. upd[p].asked[x] \in {"on", "off", "none"}
      BY Zenon DEF UpdInv, Types, UType
    <3> QED
      BY <2>1, <3>1, CommitRows, Zenon
  <2> QED
    BY <2>2, <2>3, Zenon
<1> QED
  BY <1>1, UpdatesSound, PTL DEF Spec, Atomic

\* An update on a cycle of transactions that wait for each other names two kinds
\* or inserts a row that another one inserts as well.
THEOREM DeadlocksNeedCause == Spec => []DeadlocksExplained
<1>1. UpdInv => DeadlocksExplained
  <2> SUFFICES ASSUME UpdInv, NEW p \in Updates, Deadlocked(p),
                      ~(upd[p].pc = "shared" /\ Shared(p, upd[p].cur))
               PROVE  \E k, l \in Kinds : /\ k # l /\ upd[p].asked[k] # "none"
                                          /\ upd[p].asked[l] # "none"
    BY Zenon DEF DeadlocksExplained
  <2>1. PICK S \in SUBSET Updates :
          p \in S /\ \A q \in S : (\E s \in S : Waits(q, s)) /\ (\E s \in S : Waits(s, q))
    BY Zenon DEF Deadlocked
  <2>2. PICK s \in S : Waits(s, p)
    BY <2>1, Zenon
  <2>3. upd[p].pc \in {"insert", "delete"}
    <3>1. PICK q \in S : Waits(p, q)
      BY <2>1, Zenon
    <3> QED
      BY <3>1, SMTT(30) DEF Waits, Shared
  <2>4. upd[s].cur \in upd[p].wrote /\ upd[s].pc \in {"insert", "delete"}
    BY <2>2, <2>3, SMTT(30) DEF Waits
  <2>5. ASSUME NEW q \in S, upd[q].pc \in {"insert", "delete"}
        PROVE  /\ upd[q].cur \in Kinds /\ upd[q].cur \notin upd[q].wrote
               /\ upd[q].asked[upd[q].cur] # "none"
    <3>1. PICK t \in S : Waits(t, q)
      BY <2>1, Zenon
    <3>2. upd[q].wrote # {}
      BY <2>5, <3>1, SMTT(30) DEF Waits
    <3>3. Sound(upd[q], rows, ordinary) /\ upd[q].cur \in Settings
      BY Zenon DEF UpdInv, Types, UType
    <3> QED
      BY <2>5, <3>2, <3>3, SettingsFacts, Zenon DEF Sound
  <2>6. upd[p].asked[upd[s].cur] # "none"
    <3>1. Sound(upd[p], rows, ordinary)
      BY Zenon DEF UpdInv
    <3> QED
      BY <2>4, <3>1, Zenon DEF Sound, Closed
  <2> QED
    BY <2>1, <2>3, <2>4, <2>5, <2>6, Zenon
<1> QED
  BY <1>1, UpdatesSound, PTL

-----------------------------------------------------------------------------
(* Readers.                                                                *)

RType == [pc: Resting \cup {"critical", "global", "unsubscribe", "kinds", "unsubscribes"},
          kind: Settings, about: SUBSET Settings, failed: BOOLEAN, unsubscribed: BOOLEAN,
          listed: SUBSET Kinds, email: SUBSET Kinds, ever: Facet]

\* Everything that is true now of the settings d is about is in d.ever.
UpToDate(d, ks, pr) ==
    \A x \in d.about :
        /\ x \in Kinds => IF ks[x] = "critical" THEN x \in d.ever.critical ELSE x \in d.ever.mild
        /\ pr[x] # "off" => x \in d.ever.on
        /\ pr[x] # "on" => x \in d.ever.off

\* What a reader has found so far was true at some moment.
Found(d) ==
    /\ d.pc \in {"critical", "global", "unsubscribe"} => d.kind \in Kinds /\ d.about = {Global, d.kind}
    /\ d.pc \in {"global", "unsubscribe"} => d.failed \/ d.kind \in d.ever.mild
    /\ d.pc = "unsubscribe" => Global \in d.ever.on
    /\ d.pc = "deliver" => \/ d.kind \in d.ever.critical
                           \/ Global \in d.ever.on /\ d.kind \in d.ever.on
    /\ d.pc = "suppress" /\ ~d.failed => /\ d.kind \in d.ever.mild
                                         /\ Global \in d.ever.off \/ d.kind \in d.ever.off
    /\ d.pc \in {"kinds", "unsubscribes"} => d.about = Settings
    /\ d.pc \in {"kinds", "unsubscribes", "listed"} =>
         Global \in IF d.unsubscribed THEN d.ever.off ELSE d.ever.on
    /\ d.pc \in {"unsubscribes", "listed"} => d.listed \subseteq d.ever.mild
    /\ d.pc = "listed" => /\ d.email \subseteq d.ever.on
                          /\ d.listed \ d.email \subseteq d.ever.off

Honest(d, ks, pr) == d \in RType /\ Found(d) /\ (d.pc \notin Resting => UpToDate(d, ks, pr))

ReadInv ==
    /\ reader \in [Readers -> RType]
    /\ \A r \in Readers : Honest(reader[r], kinds, promise)

\* The table says no less than was promised.
LEMMA RowsTell ==
    ASSUME UpdInv, NEW d, NEW x \in d.about, UpToDate(d, kinds, promise), x \in Settings
    PROVE  IF rows[x] = Absent THEN x \in d.ever.on ELSE x \in d.ever.off
  BY Zenon DEF UpdInv, PromiseKept, UpToDate

LEMMA OneReader ==
    ASSUME ReadInv, NEW r \in Readers, NEW d, Honest(d, kinds, promise),
           reader' = [reader EXCEPT ![r] = d], UNCHANGED <<kinds, promise>>
    PROVE  ReadInv'
<1>1. reader' \in [Readers -> RType]
  BY Zenon DEF ReadInv, Honest
<1>2. \A q \in Readers : reader'[q] = IF q = r THEN d ELSE reader[q]
  BY Zenon DEF ReadInv
<1>3. \A q \in Readers : Honest(reader'[q], kinds, promise)
  BY <1>2, Zenon DEF ReadInv
<1>4. \A q \in Readers : Honest(reader[q], kinds, promise)'
  BY <1>3 DEF Honest, Found, UpToDate
<1> QED
  BY <1>1, <1>4, Zenon DEF ReadInv

\* A reader that starts knows what is true then.
LEMMA StartsHonest ==
    ASSUME Types, NEW pc \in {"idle", "critical", "kinds"}, NEW k \in Settings, NEW X \in SUBSET Settings,
           pc = "critical" => k \in Kinds /\ X = {Global, k}
    PROVE  /\ Reading(pc, k, X) \in RType
           /\ UpToDate(Reading(pc, k, X), kinds, promise)
           /\ pc # "kinds" => Found(Reading(pc, k, X))
<1> DEFINE d == Reading(pc, k, X)
<1>1. /\ d.pc = pc /\ d.kind = k /\ d.about = X /\ d.ever = Facts(X, kinds, promise)
  BY Zenon DEF Reading
<1>2. Facts(X, kinds, promise) \in Facet
  BY SettingsFacts, Zenon DEF Facts, Facet
<1>3. d \in RType
  BY <1>2, Zenon DEF Reading, RType, Resting
<1>4. UpToDate(d, kinds, promise)
  <2>1. /\ d.ever.critical = {y \in X \cap Kinds : kinds[y] = "critical"}
        /\ d.ever.mild = {y \in X \cap Kinds : kinds[y] # "critical"}
        /\ d.ever.on = {y \in X : promise[y] # "off"} /\ d.ever.off = {y \in X : promise[y] # "on"}
    BY <1>1 DEF Facts
  <2> HIDE DEF d
  <2> QED
    BY <1>1, <2>1, Zenon DEF UpToDate
<1>5. pc # "kinds" => Found(d)
  <2> HIDE DEF d
  <2> QED
    BY <1>1, Zenon DEF Found
<1> QED
  BY <1>3, <1>4, <1>5, Zenon

LEMMA AttemptStep == ASSUME UpdInv, ReadInv, NEW r \in Readers, Attempt(r) PROVE ReadInv'
<1>1. PICK k \in Kinds : reader' = [reader EXCEPT ![r] = Reading("critical", k, {Global, k})]
  BY Zenon DEF Attempt
<1>2. Honest(Reading("critical", k, {Global, k}), kinds, promise)
  BY StartsHonest, SettingsFacts, Zenon DEF Honest, UpdInv
<1> QED
  BY <1>1, <1>2, OneReader, Zenon DEF Attempt

\* The kind is read while the attempt is under way.
LEMMA IsCriticalStep == ASSUME UpdInv, ReadInv, NEW r \in Readers, IsCritical(r) PROVE ReadInv'
<1> DEFINE o == reader[r]
<1>1. o \in RType /\ o.pc = "critical" /\ Found(o) /\ UpToDate(o, kinds, promise)
  BY Zenon DEF ReadInv, Honest, IsCritical, Resting
<1>2. PICK pc \in {"deliver", "global"}, f \in BOOLEAN :
        /\ reader' = [reader EXCEPT ![r] = [o EXCEPT !.pc = pc, !.failed = f]]
        /\ pc = "deliver" => kinds[o.kind] = "critical"
        /\ pc = "global" => f \/ kinds[o.kind] # "critical"
  <2>1. CASE MoveTo(r, IF kinds[o.kind] = "critical" THEN "deliver" ELSE "global")
    <3> DEFINE pc == IF kinds[o.kind] = "critical" THEN "deliver" ELSE "global"
    <3>1. reader' = [reader EXCEPT ![r] = [o EXCEPT !.pc = pc, !.failed = o.failed]]
      BY <1>1, <2>1, Zenon DEF MoveTo, RType
    <3>2. o.failed \in BOOLEAN
      BY <1>1, Zenon DEF RType
    <3> QED
      BY <3>1, <3>2, Zenon
  <2>2. CASE reader' = [reader EXCEPT ![r].pc = "global", ![r].failed = TRUE]
    BY <2>2, Zenon
  <2> QED
    BY <2>1, <2>2, Zenon DEF IsCritical
<1> DEFINE d == [o EXCEPT !.pc = pc, !.failed = f]
<1>3. /\ d \in RType /\ d.pc = pc /\ d.failed = f /\ d.kind = o.kind /\ d.about = o.about
      /\ d.ever = o.ever
  BY <1>1, Zenon DEF RType, Resting
<1> HIDE DEF d, o
<1>4. o.kind \in Kinds /\ o.about = {Global, o.kind}
  BY <1>1, Zenon DEF Found
<1>5. UpToDate(d, kinds, promise)
  BY <1>1, <1>3, Zenon DEF UpToDate
<1>6. Found(d)
  BY <1>1, <1>2, <1>3, <1>4, Zenon DEF Found, UpToDate
<1> QED
  BY <1>2, <1>3, <1>5, <1>6, OneReader, Zenon DEF IsCritical, Honest, d

\* A setting that is read is in the table what was promised at that moment.
LEMMA ReadSettingStep == ASSUME UpdInv, ReadInv, NEW r \in Readers, ReadSetting(r) PROVE ReadInv'
<1> DEFINE o == reader[r]
           x == IF o.pc = "global" THEN Global ELSE o.kind
           next == IF x = Global THEN "unsubscribe" ELSE "deliver"
<1>1. o \in RType /\ o.pc \in {"global", "unsubscribe"} /\ Found(o) /\ UpToDate(o, kinds, promise)
  BY Zenon DEF ReadInv, Honest, ReadSetting, Resting
<1>2. PICK pc \in {"unsubscribe", "deliver", "suppress"}, f \in BOOLEAN :
        /\ reader' = [reader EXCEPT ![r] = [o EXCEPT !.pc = pc, !.failed = f]]
        /\ \/ f /\ pc = "suppress"
           \/ f = o.failed /\ pc = IF rows[x] = Absent THEN next ELSE "suppress"
  <2>1. CASE MoveTo(r, IF rows[x] = Absent THEN next ELSE "suppress")
    <3> DEFINE pc == IF rows[x] = Absent THEN next ELSE "suppress"
    <3>1. reader' = [reader EXCEPT ![r] = [o EXCEPT !.pc = pc, !.failed = o.failed]]
      BY <1>1, <2>1, Zenon DEF MoveTo, RType
    <3>2. o.failed \in BOOLEAN /\ pc \in {"unsubscribe", "deliver", "suppress"}
      BY <1>1, Zenon DEF RType
    <3> HIDE DEF pc
    <3> QED
      BY <3>1, <3>2, Zenon DEF pc
  <2>2. CASE reader' = [reader EXCEPT ![r].pc = "suppress", ![r].failed = TRUE]
    BY <2>2, Zenon
  <2> QED
    BY <2>1, <2>2, Zenon DEF ReadSetting
<1> DEFINE d == [o EXCEPT !.pc = pc, !.failed = f]
<1>3. /\ d \in RType /\ d.pc = pc /\ d.failed = f /\ d.kind = o.kind /\ d.about = o.about
      /\ d.ever = o.ever
  BY <1>1, Zenon DEF RType, Resting
<1> HIDE DEF d, o
<1>4. o.kind \in Kinds /\ o.about = {Global, o.kind} /\ Global # o.kind
  BY <1>1, SettingsFacts, Zenon DEF Found
<1>5. x \in o.about /\ x \in Settings
  BY <1>4, SettingsFacts, Zenon
<1>6. IF rows[x] = Absent THEN x \in o.ever.on ELSE x \in o.ever.off
  BY <1>1, <1>5, RowsTell, Zenon
<1>7. UpToDate(d, kinds, promise)
  BY <1>1, <1>3, Zenon DEF UpToDate
<1>8. Found(d)
  <2>1. CASE o.pc = "global"
    BY <1>1, <1>2, <1>3, <1>4, <1>6, <2>1, Zenon DEF Found
  <2>2. CASE o.pc = "unsubscribe"
    BY <1>1, <1>2, <1>3, <1>4, <1>6, <2>2, Zenon DEF Found
  <2> QED
    BY <1>1, <2>1, <2>2, Zenon
<1> QED
  BY <1>2, <1>3, <1>7, <1>8, OneReader, Zenon DEF ReadSetting, Honest, d

LEMMA GetGlobalStep == ASSUME UpdInv, ReadInv, NEW r \in Readers, GetGlobal(r) PROVE ReadInv'
<1> DEFINE o == Reading("kinds", Global, Settings)
           d == [o EXCEPT !.unsubscribed = rows[Global] # Absent]
<1>1. o \in RType /\ UpToDate(o, kinds, promise) /\ o.pc = "kinds" /\ o.about = Settings
  BY StartsHonest, SettingsFacts, Zenon DEF UpdInv, Reading
<1>2. /\ d \in RType /\ d.pc = "kinds" /\ d.about = Settings /\ d.ever = o.ever
      /\ d.unsubscribed = (rows[Global] # Absent)
  BY <1>1, Zenon DEF RType
<1>3. reader' = [reader EXCEPT ![r] = d] /\ UNCHANGED <<kinds, promise>>
  BY Zenon DEF GetGlobal
<1> HIDE DEF o, d
<1>4. IF rows[Global] = Absent THEN Global \in o.ever.on ELSE Global \in o.ever.off
  BY <1>1, RowsTell, SettingsFacts, Zenon
<1>5. UpToDate(d, kinds, promise)
  BY <1>1, <1>2, Zenon DEF UpToDate
<1>6. Found(d)
  BY <1>2, <1>4, Zenon DEF Found
<1> QED
  BY <1>2, <1>3, <1>5, <1>6, OneReader, Zenon DEF Honest

LEMMA GetKindsStep == ASSUME UpdInv, ReadInv, NEW r \in Readers, GetKinds(r) PROVE ReadInv'
<1> DEFINE o == reader[r]
           L == {k \in Kinds : kinds[k] = "ordinary" /\ ClientOf[k] \in clients}
           d == [o EXCEPT !.pc = "unsubscribes", !.listed = L]
<1>1. o \in RType /\ o.pc = "kinds" /\ Found(o) /\ UpToDate(o, kinds, promise)
  BY Zenon DEF ReadInv, Honest, GetKinds, Resting
<1>2. /\ d \in RType /\ d.pc = "unsubscribes" /\ d.about = o.about /\ d.ever = o.ever
      /\ d.unsubscribed = o.unsubscribed /\ d.listed = L
  BY <1>1, Zenon DEF RType
<1>3. reader' = [reader EXCEPT ![r] = d] /\ UNCHANGED <<kinds, promise>>
  BY Zenon DEF GetKinds
<1> HIDE DEF o, d
<1>4. L \subseteq o.ever.mild
  BY <1>1, SettingsFacts, Zenon DEF UpToDate, Found
<1>5. UpToDate(d, kinds, promise)
  BY <1>1, <1>2, Zenon DEF UpToDate
<1>6. Found(d)
  BY <1>1, <1>2, <1>4, Zenon DEF Found
<1> QED
  BY <1>2, <1>3, <1>5, <1>6, OneReader, Zenon DEF Honest

LEMMA GetUnsubscribesStep ==
    ASSUME UpdInv, ReadInv, NEW r \in Readers, GetUnsubscribes(r) PROVE ReadInv'
<1> DEFINE o == reader[r]
           E == {k \in o.listed : rows[k] = Absent}
           d == [o EXCEPT !.pc = "listed", !.email = E]
<1>1. o \in RType /\ o.pc = "unsubscribes" /\ Found(o) /\ UpToDate(o, kinds, promise)
  BY Zenon DEF ReadInv, Honest, GetUnsubscribes, Resting
<1>2. /\ d \in RType /\ d.pc = "listed" /\ d.ever = o.ever /\ d.listed = o.listed
      /\ d.unsubscribed = o.unsubscribed /\ d.email = E
  BY <1>1, Zenon DEF RType, Resting
<1>3. reader' = [reader EXCEPT ![r] = d] /\ UNCHANGED <<kinds, promise>>
  BY Zenon DEF GetUnsubscribes
<1>4. \A k \in o.listed : k \in o.about /\ k \in Settings
  BY <1>1, SettingsFacts, Zenon DEF Found, RType
<1> HIDE DEF o, d
<1>5. \A k \in o.listed : IF rows[k] = Absent THEN k \in o.ever.on ELSE k \in o.ever.off
  BY <1>1, <1>4, RowsTell, Zenon
<1>6. Found(d)
  BY <1>1, <1>2, <1>5, Zenon DEF Found
<1> QED
  BY <1>2, <1>3, <1>6, OneReader, Zenon DEF Honest, Resting

LEMMA GetFailsStep == ASSUME UpdInv, ReadInv, NEW r \in Readers, GetFails(r) PROVE ReadInv'
<1>1. Honest(Reading("idle", Global, {}), kinds, promise)
  BY StartsHonest, SettingsFacts, Zenon DEF Honest, UpdInv
<1> QED
  BY <1>1, OneReader, Zenon DEF GetFails

\* A commit or a registration adds what is true from then on.
LEMMA WitnessHonest ==
    ASSUME ReadInv, NEW r \in Readers, NEW ks, NEW pr
    PROVE  Honest(Witness(r, ks, pr), ks, pr)
<1> DEFINE o == reader[r]
           f == Facts(o.about, ks, pr)
           d == Witness(r, ks, pr)
<1>1. o \in RType /\ Found(o)
  BY Zenon DEF ReadInv, Honest
<1>2. CASE o.pc \in Resting
  BY <1>1, <1>2, Zenon DEF Witness, Honest
<1>3. CASE o.pc \notin Resting
  <2>1. /\ f.critical = {y \in o.about \cap Kinds : ks[y] = "critical"}
        /\ f.mild = {y \in o.about \cap Kinds : ks[y] # "critical"}
        /\ f.on = {y \in o.about : pr[y] # "off"} /\ f.off = {y \in o.about : pr[y] # "on"}
    BY Zenon DEF Facts
  <2>2. /\ f.critical \subseteq Kinds /\ f.mild \subseteq Kinds
        /\ f.on \subseteq Settings /\ f.off \subseteq Settings
    BY <1>1, <2>1, Zenon DEF RType
  <2>3. d = [o EXCEPT !.ever.critical = @ \cup f.critical, !.ever.mild = @ \cup f.mild,
                      !.ever.on = @ \cup f.on, !.ever.off = @ \cup f.off]
    BY <1>3, Zenon DEF Witness
  <2> HIDE DEF f, o, d
  <2>4. d \in RType
    BY <1>1, <2>2, <2>3, Zenon DEF RType, Facet
  <2>5. /\ d.pc = o.pc /\ d.kind = o.kind /\ d.about = o.about /\ d.failed = o.failed
        /\ d.unsubscribed = o.unsubscribed /\ d.listed = o.listed /\ d.email = o.email
        /\ d.ever.critical = o.ever.critical \cup f.critical
        /\ d.ever.mild = o.ever.mild \cup f.mild
        /\ d.ever.on = o.ever.on \cup f.on /\ d.ever.off = o.ever.off \cup f.off
    BY <1>1, <2>3, Zenon DEF RType, Facet
  <2>6. UpToDate(d, ks, pr)
    BY <2>1, <2>5, Zenon DEF UpToDate
  <2>7. Found(d)
    BY <1>1, <1>3, <2>5, Zenon DEF Found, Resting
  <2> QED
    BY <2>4, <2>6, <2>7, Zenon DEF Honest, d
<1> QED
  BY <1>2, <1>3, Zenon

LEMMA WitnessStep ==
    ASSUME ReadInv, reader' = [r \in Readers |-> Witness(r, kinds', promise')] PROVE ReadInv'
<1>1. \A r \in Readers : reader'[r] = Witness(r, kinds', promise')
  BY Zenon
<1>2. \A r \in Readers : Honest(reader'[r], kinds', promise')
  BY <1>1, WitnessHonest, Zenon
<1>3. reader' \in [Readers -> RType]
  BY <1>2, Zenon DEF Honest
<1> QED
  BY <1>2, <1>3, Zenon DEF ReadInv, Honest, Found, UpToDate

LEMMA NextReaders == UpdInv /\ ReadInv /\ [Next]_vars => ReadInv'
<1> SUFFICES ASSUME UpdInv, ReadInv, [Next]_vars PROVE ReadInv'
  BY Zenon
<1>1. ASSUME UNCHANGED <<kinds, promise, reader>> PROVE ReadInv'
  BY <1>1 DEF ReadInv, Honest, Found, UpToDate
<1>2. ASSUME NEW p \in Updates,
             Update(p) \/ FindKind(p) \/ Share(p) \/ Insert(p) \/ Delete(p) \/ Fail(p) \/ Victim(p)
      PROVE  ReadInv'
  BY <1>1, <1>2, Zenon DEF Update, FindKind, Share, Insert, Delete, Fail, Victim, Refuse
<1>3. ASSUME NEW p \in Updates, Commit(p) PROVE ReadInv'
  <2>1. kinds' = kinds /\ reader' = [r \in Readers |-> Witness(r, kinds, promise')]
    BY <1>3, Zenon DEF Commit
  <2> QED
    BY <2>1, WitnessStep, Zenon
<1>4. CASE Change
  <2>1. promise' = promise /\ reader' = [r \in Readers |-> Witness(r, kinds', promise)]
    BY <1>4, Zenon DEF Change
  <2> QED
    BY <2>1, WitnessStep, Zenon
<1>5. ASSUME NEW r \in Readers, ReaderStep(r) PROVE ReadInv'
  BY <1>5, AttemptStep, IsCriticalStep, ReadSettingStep, GetGlobalStep, GetKindsStep,
     GetUnsubscribesStep, GetFailsStep, Zenon DEF ReaderStep
<1>6. CASE UNCHANGED vars
  BY <1>1, <1>6, Zenon DEF vars
<1> QED
  BY <1>2, <1>3, <1>4, <1>5, <1>6, Zenon DEF Next

LEMMA InitReaders == Init => ReadInv
<1> SUFFICES ASSUME Init PROVE ReadInv
  BY Zenon
<1>1. Types
  BY InitUpdates, Zenon DEF UpdInv
<1>2. Honest(Reading("idle", Global, {}), kinds, promise)
  BY <1>1, StartsHonest, SettingsFacts, Zenon DEF Honest
<1>3. reader = [r \in Readers |-> Reading("idle", Global, {})]
  BY Zenon DEF Init
<1> QED
  BY <1>2, <1>3, Zenon DEF ReadInv, Honest

LEMMA ReadersHonest == Spec => []ReadInv
<1>1. Spec => [](UpdInv /\ ReadInv)
  BY InitUpdates, InitReaders, NextUpdates, NextReaders, PTL DEF Spec
<1> QED
  BY <1>1, PTL

\* No mail goes out against an accepted update, whatever runs beside the
\* attempt (shouldDeliver).
THEOREM OffKept == Spec => []OffHonoured
<1>1. ReadInv => OffHonoured
  BY Zenon DEF ReadInv, Honest, Found, OffHonoured
<1> QED
  BY <1>1, ReadersHonest, PTL

\* No mail is suppressed against one.
THEOREM OnKept == Spec => []OnHonoured
<1>1. ReadInv => OnHonoured
  BY Zenon DEF ReadInv, Honest, Found, OnHonoured
<1> QED
  BY <1>1, ReadersHonest, PTL

\* A GET shows nothing that was not so at some moment of it.
THEOREM ListingsTrue == Spec => []ListingTrue
<1>1. ReadInv => ListingTrue
  BY Zenon DEF ReadInv, Honest, Found, ListingTrue
<1> QED
  BY <1>1, ReadersHonest, PTL

-----------------------------------------------------------------------------
(* Types.                                                                  *)

Rest == clients \in SUBSET Clients /\ changes \in 0 .. MaxChanges

\* The variables keep their types under every action of the updates, the
\* readers and the registrations.
THEOREM TypeCorrect == Spec => []TypeOK
<1>1. Init => Rest
  BY PreferencesAssumption DEF Init, Rest
<1>2. Rest /\ [Next]_vars => Rest'
  <2> SUFFICES ASSUME Rest, [Next]_vars PROVE Rest'
    BY Zenon
  <2>1. ASSUME UNCHANGED <<clients, changes>> PROVE Rest'
    BY <2>1, Zenon DEF Rest
  <2>2. ASSUME NEW p \in Updates,
               \/ Update(p) \/ FindKind(p) \/ Share(p) \/ Insert(p) \/ Delete(p)
               \/ Commit(p) \/ Fail(p) \/ Victim(p)
        PROVE  Rest'
    BY <2>1, <2>2, Zenon DEF Update, FindKind, Share, Insert, Delete, Commit, Fail, Victim, Refuse
  <2>3. ASSUME NEW r \in Readers, Attempt(r) PROVE Rest'
    BY <2>3, PreferencesAssumption, Zenon DEF Attempt, Rest
  <2>4. ASSUME NEW r \in Readers,
               \/ IsCritical(r) \/ ReadSetting(r)
               \/ GetGlobal(r) \/ GetKinds(r) \/ GetUnsubscribes(r) \/ GetFails(r)
        PROVE  Rest'
    BY <2>1, <2>4, Zenon DEF IsCritical, ReadSetting, GetGlobal, GetKinds, GetUnsubscribes, GetFails
  <2>5. CASE Change
    BY <2>5, PreferencesAssumption DEF Change, Rest
  <2>6. CASE UNCHANGED vars
    BY <2>1, <2>6, Zenon DEF vars
  <2> QED
    BY <2>2, <2>3, <2>4, <2>5, <2>6, Zenon DEF Next, ReaderStep
<1>3. UpdInv /\ ReadInv /\ Rest => TypeOK
  BY Zenon DEF UpdInv, Types, UType, ReadInv, RType, Rest, TypeOK
<1> QED
  BY <1>1, <1>2, <1>3, UpdatesSound, ReadersHonest, PTL DEF Spec
=============================================================================
