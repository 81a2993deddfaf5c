--------------------------- MODULE TemplatesProofs ---------------------------
(***************************************************************************)
(* The properties of Templates, for any number of instances, releases,     *)
(* requests and templates.                                                 *)
(*                                                                         *)
(* The invariant says what a boot or a request knows of the row it read:   *)
(* as long as nobody else has changed it, the row is still the one that    *)
(* was read.  The lemma Bystanders states once what a change of a row      *)
(* means for everybody but the one who made it.                            *)
(***************************************************************************)
EXTENDS Templates, TLAPS

BootRec == [pc: {"down", "find", "insert", "update", "up"},
            release: Releases, key: Nat, overlap: BOOLEAN, deleted: BOOLEAN]
ReqRec == [pc: {"idle", "write", "delete", "accepted", "refused"},
           id: Ids, key: Nat, overlap: BOOLEAN]

\* No key is in use or remembered that the table has not handed out.
KeysInv ==
    /\ \A t \in Ids : rows[t].key <= lastKey
    /\ \A i \in Instances : boot[i].key <= lastKey
    /\ \A p \in Requests : req[p].key <= lastKey

\* A template exists only under an identifier that was handed out.
UsedInv == \A t \in Others \ used : Absent(t)

\* What Seed of instance i knows of the default template.
BootGood(i) ==
    /\ (boot[i].pc \in {"update", "up"} /\ Absent(Default)) => boot[i].deleted
    /\ boot[i].pc = "update" => boot[i].key # 0
    /\ (boot[i].pc = "update" /\ ~boot[i].overlap) =>
         rows[Default].key = boot[i].key /\ ~rows[Default].overridden

\* What the handler of request p knows of the template it found.
ReqGood(p) ==
    req[p].pc \in {"write", "delete"} =>
        /\ req[p].key # 0
        /\ req[p].id \in used \cup {Default}
        /\ ~req[p].overlap => rows[req[p].id].key = req[p].key

IndInv ==
    /\ TypeOK /\ KeysInv /\ UsedInv
    /\ FlagRight /\ LastWriteShown
    /\ \A i \in Instances : BootGood(i)
    /\ \A p \in Requests : ReqGood(p)

-----------------------------------------------------------------------------
(* Values.                                                                 *)

LEMMA Names ==
    /\ Default \in Ids /\ Default \notin Others /\ Others \subseteq Ids
    /\ Releases \subseteq Contents /\ Requests \subseteq Contents
    /\ "any" \notin Contents /\ "gone" \notin Contents
    /\ \A v \in Releases : v \notin Requests
    /\ \A i \in Instances : i \notin Requests
  BY TemplatesAssumption, Zenon DEF Ids, Default, Contents

LEMMA Rows ==
    /\ NoRow.key = 0
    /\ \A r \in Row : r.key \in Nat /\ r.key # 0 /\ r.content \in Contents
                      /\ r.overridden \in BOOLEAN
    /\ \A k \in Nat \ {0}, c \in Contents, b \in BOOLEAN :
         LET r == [key |-> k, content |-> c, overridden |-> b]
         IN  r \in Row /\ r.key = k /\ r.content = c /\ r.overridden = b
  BY Zenon DEF NoRow, Row

\* What is left of a row that is written.
LEMMA Written ==
    ASSUME NEW r \in Row, NEW c \in Contents, NEW b \in BOOLEAN
    PROVE  LET s == [r EXCEPT !.content = c, !.overridden = b]
           IN  s \in Row /\ s.key = r.key /\ s.content = c /\ s.overridden = b
  BY Zenon DEF Row

LEMMA RowTypes ==
    ASSUME TypeOK, NEW t \in Ids
    PROVE  /\ rows[t] \in Row \cup {NoRow} /\ rows[t].key \in Nat
           /\ ~Absent(t) => rows[t] \in Row
           /\ Absent(t) <=> rows[t] = NoRow
  BY Rows DEF TypeOK, Absent

LEMMA Types ==
    ASSUME TypeOK
    PROVE  /\ \A i \in Instances : boot[i] \in BootRec
           /\ \A p \in Requests : req[p] \in ReqRec
           /\ lastKey \in Nat
  BY Zenon DEF TypeOK, BootRec, ReqRec

LEMMA Records ==
    /\ \A b \in BootRec : /\ b.pc \in {"down", "find", "insert", "update", "up"}
                          /\ b.release \in Releases /\ b.key \in Nat
                          /\ b.overlap \in BOOLEAN /\ b.deleted \in BOOLEAN
    /\ \A r \in ReqRec : /\ r.pc \in {"idle", "write", "delete", "accepted", "refused"}
                         /\ r.id \in Ids /\ r.key \in Nat /\ r.overlap \in BOOLEAN
  BY Zenon DEF BootRec, ReqRec

LEMMA Starts ==
    /\ \A v \in Releases, pc \in {"down", "find"} :
         Booting(pc, v) \in BootRec /\ Booting(pc, v).pc = pc /\ Booting(pc, v).key = 0
    /\ \A t \in Ids, pc \in {"idle", "write", "delete", "accepted", "refused"} :
         /\ Handling(pc, t) \in ReqRec /\ Handling(pc, t).pc = pc /\ Handling(pc, t).id = t
         /\ Handling(pc, t).key = 0
  BY Zenon DEF Booting, Handling, BootRec, ReqRec

\* BootsSee and RequestsSee change the history of the others, and only that.
LEMMA BootWitness ==
    ASSUME TypeOK, NEW a, NEW t \in Ids, NEW gone \in BOOLEAN, NEW i \in Instances,
           NEW b, b = BootsSee(a, t, gone)[i]
    PROVE  /\ b \in BootRec
           /\ b.pc = boot[i].pc /\ b.key = boot[i].key /\ b.release = boot[i].release
           /\ b = boot[i] \/ (b.overlap /\ (b.deleted <=> boot[i].deleted \/ gone))
           /\ (i # a /\ t = Default /\ boot[i].pc \notin {"down", "find"}) =>
                b.overlap /\ (b.deleted <=> boot[i].deleted \/ gone)
           /\ i = a => b = boot[i]
<1> DEFINE seen == i # a /\ t = Default /\ boot[i].pc \notin {"down", "find"}
<1>1. boot[i] \in BootRec
  BY Types, Zenon
<1>2. CASE seen
  <2> DEFINE d == boot[i].deleted \/ gone
  <2>1. b = [boot[i] EXCEPT !.overlap = TRUE, !.deleted = d]
    BY <1>2, Zenon DEF BootsSee
  <2>2. d \in BOOLEAN /\ (d <=> boot[i].deleted \/ gone)
    BY Zenon
  <2> HIDE DEF d
  <2>3. /\ b \in BootRec /\ b.pc = boot[i].pc /\ b.key = boot[i].key
        /\ b.release = boot[i].release /\ b.overlap = TRUE /\ b.deleted = d
    BY <1>1, <2>1, <2>2, Zenon DEF BootRec
  <2>4. b.overlap /\ (b.deleted <=> boot[i].deleted \/ gone)
    BY <2>2, <2>3, Zenon
  <2> QED
    BY <1>2, <2>3, <2>4, Zenon
<1>3. CASE ~seen
  <2>1. b = boot[i]
    BY <1>3, Zenon DEF BootsSee
  <2> QED
    BY <1>1, <1>3, <2>1, Zenon
<1> QED
  BY <1>2, <1>3, Zenon

LEMMA RequestWitness ==
    ASSUME TypeOK, NEW a, NEW t \in Ids, NEW p \in Requests, NEW r, r = RequestsSee(a, t)[p]
    PROVE  /\ r \in ReqRec
           /\ r.pc = req[p].pc /\ r.key = req[p].key /\ r.id = req[p].id
           /\ r = req[p] \/ r.overlap
           /\ (p # a /\ t = req[p].id /\ req[p].pc \in {"write", "delete"}) => r.overlap
           /\ p = a => r = req[p]
<1> DEFINE seen == p # a /\ t = req[p].id /\ req[p].pc \in {"write", "delete"}
<1>1. \A q \in ReqRec : LET s == [q EXCEPT !.overlap = TRUE] IN
        s \in ReqRec /\ s.pc = q.pc /\ s.key = q.key /\ s.id = q.id /\ s.overlap
  BY Zenon DEF ReqRec
<1>2. req[p] \in ReqRec
  BY Types, Zenon
<1>3. r = IF seen THEN [req[p] EXCEPT !.overlap = TRUE] ELSE req[p]
  BY Zenon DEF RequestsSee
<1> QED
  BY <1>1, <1>2, <1>3, Zenon

LEMMA SeeTypes ==
    ASSUME TypeOK, NEW a, NEW t \in Ids, NEW gone \in BOOLEAN
    PROVE  /\ BootsSee(a, t, gone) \in [Instances -> BootRec]
           /\ RequestsSee(a, t) \in [Requests -> ReqRec]
<1>1. /\ \A i \in Instances : BootsSee(a, t, gone)[i] \in BootRec
      /\ \A p \in Requests : RequestsSee(a, t)[p] \in ReqRec
  BY BootWitness, RequestWitness, Zenon
<1> QED
  BY <1>1, Zenon DEF BootsSee, RequestsSee

-----------------------------------------------------------------------------
(* What one actor's step means for the others and for what is shown.       *)

\* No row but that of t changes.
OnlyRow(t) == rows' \in [Ids -> Row \cup {NoRow}] /\ \A s \in Ids \ {t} : rows'[s] = rows[s]

\* Whoever changes a row leaves everybody else with what they may rely on.
LEMMA Bystanders ==
    ASSUME IndInv, NEW a, NEW t \in Ids, NEW gone \in BOOLEAN, OnlyRow(t), used \subseteq used',
           rows'[t].key = 0 => gone \/ Absent(t),
           \A i \in Instances \ {a} : boot'[i] = BootsSee(a, t, gone)[i],
           \A p \in Requests \ {a} : req'[p] = RequestsSee(a, t)[p]
    PROVE  /\ \A i \in Instances \ {a} : BootGood(i)'
           /\ \A p \in Requests \ {a} : ReqGood(p)'
<1>0. TypeOK
  BY Zenon DEF IndInv
<1>1. ASSUME NEW i \in Instances \ {a} PROVE BootGood(i)'
  <2>1. BootGood(i)
    BY Zenon DEF IndInv
  <2> DEFINE b == boot'[i]
  <2>2. /\ b.pc = boot[i].pc /\ b.key = boot[i].key
        /\ b = boot[i] \/ (b.overlap /\ (b.deleted <=> boot[i].deleted \/ gone))
        /\ (t = Default /\ boot[i].pc \notin {"down", "find"}) =>
                     b.overlap /\ (b.deleted <=> boot[i].deleted \/ gone)
    <3>1. i \in Instances /\ i # a /\ b = BootsSee(a, t, gone)[i]
      BY Zenon
    <3> HIDE DEF b
    <3> QED
      BY <1>0, <3>1, BootWitness
  <2>3. t # Default => rows'[Default] = rows[Default]
    BY Names, Zenon DEF OnlyRow
  <2> HIDE DEF b
  <2>4. CASE t # Default
    BY <2>1, <2>2, <2>3, <2>4, Zenon DEF BootGood, Absent, b
  <2>5. CASE t = Default
    BY <2>1, <2>2, <2>5, Zenon DEF BootGood, Absent, b
  <2> QED
    BY <2>4, <2>5, Zenon
<1>2. ASSUME NEW p \in Requests \ {a} PROVE ReqGood(p)'
  <2>1. ReqGood(p) /\ req[p].id \in Ids
    BY <1>0, Types, Records, Zenon DEF IndInv
  <2>2. /\ req'[p].pc = req[p].pc /\ req'[p].key = req[p].key /\ req'[p].id = req[p].id
        /\ req'[p] = req[p] \/ req'[p].overlap
        /\ (t = req[p].id /\ req[p].pc \in {"write", "delete"}) => req'[p].overlap
    <3>1. p \in Requests /\ p # a /\ req'[p] = RequestsSee(a, t)[p]
      BY Zenon
    <3> QED
      BY <1>0, <3>1, RequestWitness
  <2>3. t # req[p].id => rows'[req[p].id] = rows[req[p].id]
    BY <2>1, Zenon DEF OnlyRow
  <2> QED
    BY <2>1, <2>2, <2>3, Zenon DEF ReqGood
<1> QED
  BY <1>1, <1>2, Zenon

\* An operation that ends shows what it left, or nothing is said of the row.
LEMMA ShownKept ==
    ASSUME TypeOK, LastWriteShown, NEW t \in Ids, OnlyRow(t), NEW c, NEW over \in BOOLEAN,
           shown' = Left(t, over, c),
           \/ over
           \/ c = "gone" /\ rows'[t].key = 0
           \/ rows'[t].key # 0 /\ rows'[t].content = c
    PROVE  LastWriteShown'
<1>1. shown'[t] = IF over THEN "any" ELSE c
  BY Zenon DEF Left, TypeOK
<1>2. \A s \in Ids \ {t} : shown'[s] = shown[s]
  BY Zenon DEF Left, TypeOK
<1> QED
  BY <1>1, <1>2, Zenon DEF LastWriteShown, Absent, OnlyRow

\* What is shown has its type.
LEMMA ShownType ==
    ASSUME TypeOK, NEW t \in Ids, NEW c \in Contents \cup {"any", "gone"}, NEW over \in BOOLEAN
    PROVE  Left(t, over, c) \in [Ids -> Contents \cup {"any", "gone"}]
  BY Zenon DEF TypeOK, Left

\* Nothing depends on a row that does not change.
LEMMA RowsStay ==
    ASSUME IndInv, rows' = rows, used' = used
    PROVE  /\ FlagRight' /\ UsedInv' /\ (shown' = shown => LastWriteShown')
           /\ \A i \in Instances : boot'[i] = boot[i] => BootGood(i)'
           /\ \A p \in Requests : req'[p] = req[p] => ReqGood(p)'
  BY ZenonT(30) DEF IndInv, FlagRight, UsedInv, LastWriteShown, Absent, BootGood, ReqGood
\* A step of instance i that changes no row.
LEMMA BootMoves ==
    ASSUME IndInv, NEW i \in Instances, NEW b \in BootRec, boot' = [boot EXCEPT ![i] = b],
           b.key <= lastKey, BootGood(i)', faults' \in 0 .. MaxFaults,
           UNCHANGED <<rows, lastKey, req, used, shown>>
    PROVE  IndInv'
<1>0. TypeOK /\ KeysInv
  BY Zenon DEF IndInv
<1>1. /\ boot' \in [Instances -> BootRec] /\ boot'[i] = b
      /\ \A j \in Instances \ {i} : boot'[j] = boot[j]
  BY <1>0, Zenon DEF TypeOK, BootRec
<1>2. TypeOK'
  BY <1>0, <1>1, Zenon DEF TypeOK, BootRec
<1>3. KeysInv'
  BY <1>0, <1>1, Zenon DEF KeysInv
<1> QED
  BY <1>1, <1>2, <1>3, RowsStay, Zenon DEF IndInv

\* A step of request p that changes no row.
LEMMA RequestMoves ==
    ASSUME IndInv, NEW p \in Requests, NEW r \in ReqRec, req' = [req EXCEPT ![p] = r],
           r.key <= lastKey, ReqGood(p)', faults' \in 0 .. MaxFaults,
           LastWriteShown', shown' \in [Ids -> Contents \cup {"any", "gone"}],
           UNCHANGED <<rows, lastKey, boot, used>>
    PROVE  IndInv'
<1>0. TypeOK /\ KeysInv
  BY Zenon DEF IndInv
<1>1. /\ req' \in [Requests -> ReqRec] /\ req'[p] = r
      /\ \A q \in Requests \ {p} : req'[q] = req[q]
  BY <1>0, Zenon DEF TypeOK, ReqRec
<1>2. TypeOK'
  BY <1>0, <1>1, Zenon DEF TypeOK, ReqRec
<1>3. KeysInv'
  BY <1>0, <1>1, Zenon DEF KeysInv
<1> QED
  BY <1>1, <1>2, <1>3, RowsStay, Zenon DEF IndInv

\* A step of instance or request a that changes the row of t.
LEMMA RowChanges ==
    ASSUME IndInv, NEW a, NEW t \in Ids, NEW gone \in BOOLEAN, OnlyRow(t),
           rows'[t].key = 0 => gone \/ Absent(t),
           lastKey' \in Nat, lastKey <= lastKey', rows'[t].key <= lastKey',
           used \subseteq used', used' \subseteq Others, t \in used' \cup {Default},
           boot' \in [Instances -> BootRec], req' \in [Requests -> ReqRec],
           \A i \in Instances \ {a} : boot'[i] = BootsSee(a, t, gone)[i],
           \A p \in Requests \ {a} : req'[p] = RequestsSee(a, t)[p],
           a \in Instances => BootGood(a)' /\ boot'[a].key <= lastKey',
           a \in Requests => ReqGood(a)' /\ req'[a].key <= lastKey',
           FlagRight', LastWriteShown', shown' \in [Ids -> Contents \cup {"any", "gone"}],
           faults' = faults
    PROVE  IndInv'
<1>0. TypeOK /\ KeysInv /\ UsedInv
  BY Zenon DEF IndInv
<1>1. TypeOK'
  BY <1>0, Zenon DEF TypeOK, BootRec, ReqRec, OnlyRow
<1>2. KeysInv'
  <2>1. \A s \in Ids : rows'[s].key <= lastKey'
    BY <1>0, RowTypes DEF KeysInv, OnlyRow, TypeOK
  <2>2. ASSUME NEW i \in Instances \ {a} PROVE boot'[i].key <= lastKey'
    <3>1. boot'[i].key = boot[i].key
      BY <1>0, BootWitness
    <3> QED
      BY <1>0, <3>1, Types, Records DEF KeysInv
  <2>3. ASSUME NEW p \in Requests \ {a} PROVE req'[p].key <= lastKey'
    <3>1. req'[p].key = req[p].key
      BY <1>0, RequestWitness
    <3> QED
      BY <1>0, <3>1, Types, Records DEF KeysInv
  <2> QED
    BY <2>1, <2>2, <2>3, Zenon DEF KeysInv
<1>3. UsedInv'
  BY <1>0, Names, Zenon DEF UsedInv, OnlyRow, Absent
<1>4. /\ \A i \in Instances \ {a} : BootGood(i)'
      /\ \A p \in Requests \ {a} : ReqGood(p)'
  BY Bystanders, Zenon
<1> QED
  BY <1>1, <1>2, <1>3, <1>4, Zenon DEF IndInv

-----------------------------------------------------------------------------
(* One lemma per action.                                                   *)

LEMMA BootKeeps ==
    ASSUME IndInv, NEW i \in Instances, Boot(i) \/ Crash(i)
    PROVE  IndInv'
<1>0. TypeOK /\ boot[i] \in BootRec /\ boot[i].release \in Releases /\ lastKey \in Nat
  BY Types, Records, Zenon DEF IndInv
<1>1. PICK v \in Releases, pc \in {"down", "find"} :
        boot' = [boot EXCEPT ![i] = Booting(pc, v)]
  BY <1>0, Zenon DEF Boot, Crash
<1>2. /\ Booting(pc, v) \in BootRec /\ Booting(pc, v).pc = pc /\ Booting(pc, v).key <= lastKey
  BY <1>0, Starts
<1>3. boot'[i] = Booting(pc, v)
  BY <1>0, <1>1, Zenon DEF TypeOK
<1>4. BootGood(i)'
  BY <1>2, <1>3, Zenon DEF BootGood
<1>5. faults' \in 0 .. MaxFaults
  BY <1>0, TemplatesAssumption DEF Boot, Crash, TypeOK
<1>6. UNCHANGED <<rows, lastKey, req, used, shown>>
  BY Zenon DEF Boot, Crash
<1> QED
  BY <1>1, <1>2, <1>4, <1>5, <1>6, BootMoves, Zenon

LEMMA SeedFindKeeps ==
    ASSUME IndInv, NEW i \in Instances, SeedFind(i)
    PROVE  IndInv'
<1> DEFINE pc == IF Absent(Default) THEN "insert" ELSE IF rows[Default].overridden THEN "up"
                 ELSE "update"
           b == [boot[i] EXCEPT !.pc = pc, !.key = rows[Default].key]
<1>0. /\ TypeOK /\ KeysInv /\ boot[i] \in BootRec /\ rows[Default].key \in Nat
      /\ Default \in Ids
  BY Types, Names, RowTypes, Zenon DEF IndInv
<1>1. boot' = [boot EXCEPT ![i] = b]
  BY <1>0, Zenon DEF SeedFind, TypeOK
<1>2. b \in BootRec /\ b.pc = pc /\ b.key = rows[Default].key
  BY <1>0, Zenon DEF BootRec
<1>3. boot'[i] = b /\ b.key <= lastKey
  BY <1>0, <1>1, <1>2, Zenon DEF TypeOK, KeysInv
<1>4. UNCHANGED <<rows, lastKey, req, used, shown>> /\ faults' \in 0 .. MaxFaults
  BY <1>0, Zenon DEF SeedFind, TypeOK
<1> HIDE DEF b
<1>5. BootGood(i)'
  BY <1>2, <1>3, <1>4, Zenon DEF BootGood, Absent
<1> QED
  BY <1>1, <1>2, <1>3, <1>4, <1>5, BootMoves, Zenon
\* boot' and req' after a step of instance i that changes the default template.
LEMMA Seeded ==
    ASSUME TypeOK, NEW i \in Instances,
           boot' = [BootsSee(i, Default, FALSE) EXCEPT ![i].pc = "up"],
           req' = RequestsSee(i, Default)
    PROVE  /\ boot' \in [Instances -> BootRec] /\ req' \in [Requests -> ReqRec]
           /\ \A j \in Instances \ {i} : boot'[j] = BootsSee(i, Default, FALSE)[j]
           /\ \A p \in Requests \ {i} : req'[p] = RequestsSee(i, Default)[p]
           /\ boot'[i].pc = "up" /\ boot'[i].key = boot[i].key
<1> DEFINE B == BootsSee(i, Default, FALSE)
<1>1. B \in [Instances -> BootRec] /\ req' \in [Requests -> ReqRec] /\ B[i] = boot[i]
  <2>1. Default \in Ids /\ FALSE \in BOOLEAN
    BY Names, Zenon
  <2> QED
    <3>1. B \in [Instances -> BootRec] /\ req' \in [Requests -> ReqRec]
      BY <2>1, SeeTypes, Zenon
    <3>2. B[i] = boot[i]
      BY Zenon DEF BootsSee
    <3> QED
      BY <3>1, <3>2, Zenon
<1> HIDE DEF B
<1>2. [B[i] EXCEPT !.pc = "up"] \in BootRec /\ [B[i] EXCEPT !.pc = "up"].pc = "up"
      /\ [B[i] EXCEPT !.pc = "up"].key = boot[i].key
  BY <1>1, Zenon DEF BootRec
<1>3. boot' = [B EXCEPT ![i] = [B[i] EXCEPT !.pc = "up"]]
  BY Zenon DEF B
<1>4. /\ boot' \in [Instances -> BootRec] /\ boot'[i].pc = "up" /\ boot'[i].key = boot[i].key
      /\ \A j \in Instances \ {i} : boot'[j] = B[j]
  BY <1>1, <1>2, <1>3, Zenon
<1> QED
  BY <1>1, <1>4, Zenon DEF B

LEMMA SeedInsertKeeps ==
    ASSUME IndInv, NEW i \in Instances, SeedInsert(i)
    PROVE  IndInv'
<1> DEFINE row == [key |-> lastKey + 1, content |-> boot[i].release, overridden |-> FALSE]
<1>0. /\ TypeOK /\ KeysInv /\ boot[i] \in BootRec /\ boot[i].release \in Releases
      /\ boot[i].overlap \in BOOLEAN /\ boot[i].key <= lastKey /\ boot[i].key \in Nat
      /\ lastKey \in Nat /\ Default \in Ids /\ boot[i].release \in Contents
      /\ boot[i].release \notin Requests /\ used \subseteq Others /\ faults \in 0 .. MaxFaults
  BY Types, Records, Names, Zenon DEF IndInv, KeysInv, TypeOK
<1>1. CASE Absent(Default)
  <2>1. /\ lastKey' = lastKey + 1 /\ rows' = [rows EXCEPT ![Default] = row]
        /\ boot' = [BootsSee(i, Default, FALSE) EXCEPT ![i].pc = "up"]
        /\ req' = RequestsSee(i, Default)
        /\ shown' = Left(Default, boot[i].overlap, boot[i].release)
        /\ used' = used /\ faults' = faults
    BY <1>1, Zenon DEF SeedInsert
  <2>2. row \in Row /\ row.key = lastKey + 1 /\ row.content = boot[i].release
        /\ row.overridden = FALSE
    BY <1>0 DEF Row
  <2> HIDE DEF row
  <2>3. OnlyRow(Default) /\ rows'[Default] = row
    BY <1>0, <2>1, <2>2, Zenon DEF TypeOK, OnlyRow
  <2>4. /\ boot' \in [Instances -> BootRec] /\ req' \in [Requests -> ReqRec]
        /\ \A j \in Instances \ {i} : boot'[j] = BootsSee(i, Default, FALSE)[j]
        /\ \A p \in Requests \ {i} : req'[p] = RequestsSee(i, Default)[p]
        /\ boot'[i].pc = "up" /\ boot'[i].key = boot[i].key
    BY <1>0, <2>1, Seeded, Zenon
  <2>5. BootGood(i)'
    BY <1>0, <2>2, <2>3, <2>4 DEF BootGood, Absent
  <2>6. FlagRight'
    BY <1>0, <2>2, <2>3, Zenon DEF FlagRight
  <2>7. LastWriteShown' /\ shown' \in [Ids -> Contents \cup {"any", "gone"}]
    <3>1. LastWriteShown /\ rows'[Default].key # 0 /\ rows'[Default].content = boot[i].release
      BY <1>0, <2>2, <2>3 DEF IndInv
    <3> QED
      BY <1>0, <2>1, <2>3, <3>1, ShownKept, ShownType, Zenon
  <2>8. /\ rows'[Default].key # 0
        /\ lastKey' \in Nat /\ lastKey <= lastKey' /\ rows'[Default].key <= lastKey'
        /\ boot'[i].key <= lastKey'
    <3>1. /\ lastKey' = lastKey + 1 /\ rows'[Default].key = lastKey + 1
          /\ boot'[i].key = boot[i].key
      BY <2>1, <2>2, <2>3, <2>4, Zenon
    <3>2. lastKey \in Nat /\ boot[i].key \in Nat /\ boot[i].key <= lastKey
      BY <1>0, Zenon
    <3> QED
      BY <3>1, <3>2
  <2>9. i \notin Requests
    BY Names, Zenon
  <2> QED
    BY <1>0, <2>9, <2>1, <2>3, <2>4, <2>5, <2>6, <2>7, <2>8, RowChanges, ZenonT(60)
<1>2. CASE ~Absent(Default)
  <2>1. /\ boot' = [boot EXCEPT ![i] = Booting("down", boot[i].release)]
        /\ UNCHANGED <<rows, lastKey, req, used, shown, faults>>
    BY <1>2, Zenon DEF SeedInsert
  <2>2. LET b == Booting("down", boot[i].release) IN
          b \in BootRec /\ b.pc = "down" /\ b.key <= lastKey
    BY <1>0, Starts
  <2>3. BootGood(i)'
    BY <1>0, <2>1, <2>2, Zenon DEF BootGood, TypeOK
  <2> QED
    BY <1>0, <2>1, <2>2, <2>3, BootMoves, Zenon
<1> QED
  BY <1>1, <1>2, Zenon

LEMMA SeedUpdateKeeps ==
    ASSUME IndInv, NEW i \in Instances, SeedUpdate(i)
    PROVE  IndInv'
<1> DEFINE row == [rows[Default] EXCEPT !.content = boot[i].release, !.overridden = FALSE]
<1>0. /\ TypeOK /\ KeysInv /\ boot[i] \in BootRec /\ boot[i].release \in Releases
      /\ boot[i].overlap \in BOOLEAN /\ boot[i].key <= lastKey /\ boot[i].key \in Nat
      /\ lastKey \in Nat /\ Default \in Ids /\ boot[i].release \in Contents
      /\ boot[i].release \notin Requests /\ used \subseteq Others /\ faults \in 0 .. MaxFaults
  BY Types, Records, Names, Zenon DEF IndInv, KeysInv, TypeOK
<1>1. boot[i].pc = "update" /\ boot[i].key # 0 /\ BootGood(i)
  BY Zenon DEF SeedUpdate, IndInv, BootGood
<1>2. CASE rows[Default].key = boot[i].key
  <2>1. /\ rows' = [rows EXCEPT ![Default] = row]
        /\ boot' = [BootsSee(i, Default, FALSE) EXCEPT ![i].pc = "up"]
        /\ req' = RequestsSee(i, Default)
        /\ shown' = Left(Default, boot[i].overlap, boot[i].release)
        /\ lastKey' = lastKey /\ used' = used /\ faults' = faults
    BY <1>0, <1>2, Zenon DEF SeedUpdate, TypeOK
  <2>2. row \in Row /\ row.key = rows[Default].key /\ row.content = boot[i].release
        /\ row.overridden = FALSE
    BY <1>0, <1>1, <1>2, RowTypes, Written, ZenonT(30) DEF Absent
  <2> HIDE DEF row
  <2>3. OnlyRow(Default) /\ rows'[Default] = row /\ row.key # 0 /\ row.key <= lastKey
    BY <1>0, <1>1, <1>2, <2>1, <2>2, Zenon DEF TypeOK, OnlyRow
  <2>4. /\ boot' \in [Instances -> BootRec] /\ req' \in [Requests -> ReqRec]
        /\ \A j \in Instances \ {i} : boot'[j] = BootsSee(i, Default, FALSE)[j]
        /\ \A p \in Requests \ {i} : req'[p] = RequestsSee(i, Default)[p]
        /\ boot'[i].pc = "up" /\ boot'[i].key = boot[i].key
    BY <1>0, <2>1, Seeded, Zenon
  <2>5. BootGood(i)'
    BY <1>0, <2>2, <2>3, <2>4, Zenon DEF BootGood, Absent
  <2>6. FlagRight'
    BY <1>0, <2>2, <2>3, Zenon DEF FlagRight
  <2>7. LastWriteShown' /\ shown' \in [Ids -> Contents \cup {"any", "gone"}]
    <3>1. LastWriteShown /\ rows'[Default].key # 0 /\ rows'[Default].content = boot[i].release
      BY <1>0, <2>2, <2>3, Zenon DEF IndInv
    <3> QED
      BY <1>0, <2>1, <2>3, <3>1, ShownKept, ShownType, Zenon
  <2>8. /\ rows'[Default].key # 0
        /\ lastKey' \in Nat /\ lastKey <= lastKey' /\ rows'[Default].key <= lastKey'
        /\ boot'[i].key <= lastKey'
    <3>1. /\ lastKey' = lastKey /\ rows'[Default].key = boot[i].key
          /\ boot'[i].key = boot[i].key
      BY <1>2, <2>1, <2>2, <2>3, <2>4, Zenon
    <3>2. lastKey \in Nat /\ boot[i].key \in Nat /\ boot[i].key <= lastKey /\ boot[i].key # 0
      BY <1>0, <1>1, Zenon
    <3> QED
      BY <3>1, <3>2
  <2>9. i \notin Requests
    BY Names, Zenon
  <2> QED
    BY <1>0, <2>9, <2>1, <2>3, <2>4, <2>5, <2>6, <2>7, <2>8, RowChanges, ZenonT(60)
<1>3. CASE rows[Default].key # boot[i].key
  <2> DEFINE b == [boot[i] EXCEPT !.pc = "up"]
  <2>1. /\ boot' = [boot EXCEPT ![i] = b]
        /\ UNCHANGED <<rows, lastKey, req, used, shown, faults>>
    BY <1>0, <1>3, Zenon DEF SeedUpdate, TypeOK
  <2>2. b \in BootRec /\ b.pc = "up" /\ b.key <= lastKey /\ b.deleted = boot[i].deleted
    BY <1>0, Zenon DEF BootRec
  <2> HIDE DEF b
  <2>3. boot'[i] = b
    BY <1>0, <2>1, Zenon DEF TypeOK
  <2>4. BootGood(i)'
    BY <1>1, <2>1, <2>2, <2>3, Zenon DEF BootGood, Absent
  <2> QED
    BY <1>0, <2>1, <2>2, <2>4, BootMoves, Zenon
<1> QED
  BY <1>2, <1>3, Zenon
LEMMA CreateKeeps ==
    ASSUME IndInv, NEW p \in Requests, Create(p)
    PROVE  IndInv'
<1>0. TypeOK /\ UsedInv /\ KeysInv /\ LastWriteShown /\ FlagRight /\ lastKey \in Nat
  BY Types, Zenon DEF IndInv
<1>1. PICK t \in Others \ used :
        /\ used' = used \cup {t} /\ lastKey' = lastKey + 1
        /\ rows' = [rows EXCEPT ![t] = [key |-> lastKey', content |-> p, overridden |-> FALSE]]
        /\ req' = [req EXCEPT ![p] = Handling("accepted", t)]
        /\ shown' = Left(t, FALSE, p)
  BY Zenon DEF Create
<1>2. t \in Ids /\ t # Default /\ p \in Contents /\ boot' = boot /\ faults' = faults
  BY Names, Zenon DEF Create
<1> DEFINE row == [key |-> lastKey + 1, content |-> p, overridden |-> FALSE]
<1>3. row \in Row /\ row.key = lastKey + 1 /\ row.content = p
  BY <1>0, <1>2 DEF Row
<1>4. rows' = [rows EXCEPT ![t] = row]
  BY <1>1, Zenon
<1> HIDE DEF row
<1>5. OnlyRow(t) /\ rows'[t] = row /\ rows'[Default] = rows[Default]
  BY <1>0, <1>2, <1>3, <1>4, Names, Zenon DEF TypeOK, OnlyRow
<1>6. /\ Handling("accepted", t) \in ReqRec /\ Handling("accepted", t).pc = "accepted"
      /\ Handling("accepted", t).key = 0
  BY <1>2, Starts, Zenon
<1>7. /\ req' \in [Requests -> ReqRec] /\ req'[p] = Handling("accepted", t)
      /\ \A q \in Requests \ {p} : req'[q] = req[q]
  BY <1>0, <1>1, <1>6, Zenon DEF TypeOK, ReqRec
<1>8. ASSUME NEW i \in Instances PROVE boot'[i] = BootsSee(p, t, FALSE)[i]
  BY <1>2, Zenon DEF BootsSee
<1>9. ASSUME NEW q \in Requests \ {p} PROVE req'[q] = RequestsSee(p, t)[q]
  <2>1. ReqGood(q) /\ t \notin used \cup {Default}
    BY <1>2, Zenon DEF IndInv
  <2> QED
    BY <1>7, <2>1, Zenon DEF ReqGood, RequestsSee
<1>10. ReqGood(p)' /\ p \notin Instances
  BY <1>6, <1>7, Names, Zenon DEF ReqGood
<1>11. FlagRight'
  BY <1>0, <1>5, Zenon DEF FlagRight, Absent
<1>12. LastWriteShown' /\ shown' \in [Ids -> Contents \cup {"any", "gone"}]
  <2>1. rows'[t].key # 0 /\ rows'[t].content = p
    BY <1>0, <1>3, <1>5
  <2> QED
    BY <1>0, <1>1, <1>2, <1>5, <2>1, ShownKept, ShownType, Zenon
<1>13. /\ lastKey' \in Nat /\ lastKey <= lastKey' /\ rows'[t].key <= lastKey' /\ rows'[t].key # 0
       /\ req'[p].key <= lastKey'
  <2>1. lastKey' = lastKey + 1 /\ rows'[t].key = lastKey + 1 /\ req'[p].key = 0
    BY <1>1, <1>3, <1>5, <1>6, <1>7, Zenon
  <2> QED
    BY <1>0, <2>1
<1>14. used \subseteq used' /\ used' \subseteq Others /\ t \in used'
  BY <1>0, <1>1, Zenon DEF TypeOK
<1>15. boot' \in [Instances -> BootRec]
  BY <1>0, <1>2, Zenon DEF TypeOK, BootRec
<1>16. /\ \A i \in Instances \ {p} : boot'[i] = BootsSee(p, t, FALSE)[i]
       /\ \A q \in Requests \ {p} : req'[q] = RequestsSee(p, t)[q]
  BY <1>8, <1>9, Zenon
<1>17. /\ p \in Instances => BootGood(p)' /\ boot'[p].key <= lastKey'
       /\ rows'[t].key = 0 => FALSE \/ Absent(t)
       /\ p \in Requests => ReqGood(p)' /\ req'[p].key <= lastKey'
       /\ FALSE \in BOOLEAN /\ t \in used' \cup {Default}
  BY <1>10, <1>13, <1>14, Zenon
<1> QED
  BY <1>2, <1>5, <1>7, <1>11, <1>12, <1>13, <1>14, <1>15, <1>16, <1>17, RowChanges, ZenonT(60)

LEMMA FindKeeps ==
    ASSUME IndInv, NEW p \in Requests, Find(p)
    PROVE  IndInv'
<1>0. TypeOK /\ KeysInv /\ LastWriteShown /\ lastKey \in Nat
  BY Types, Zenon DEF IndInv
<1>1. PICK t \in used \cup {Default}, next \in {"write", "delete"} :
        req' = [req EXCEPT ![p] = IF Absent(t) THEN Handling("refused", t)
                                  ELSE [Handling(next, t) EXCEPT !.key = rows[t].key]]
  BY Zenon DEF Find
<1>2. UNCHANGED <<rows, lastKey, boot, used, shown>> /\ faults' \in 0 .. MaxFaults
  BY <1>0, Zenon DEF Find, TypeOK
<1>3. t \in Ids /\ rows[t].key \in Nat /\ rows[t].key <= lastKey
  <2>1. t \in Ids
    BY <1>0, Names, Zenon DEF TypeOK
  <2> QED
    BY <1>0, <2>1, RowTypes, Zenon DEF KeysInv
<1> DEFINE r == IF Absent(t) THEN Handling("refused", t)
                ELSE [Handling(next, t) EXCEPT !.key = rows[t].key]
<1>4. /\ r \in ReqRec /\ r.key <= lastKey
      /\ r.pc \in {"write", "delete"} => /\ r.key = rows[t].key /\ r.key # 0 /\ r.id = t
  <2>1. CASE Absent(t)
    BY <1>0, <1>3, <2>1, Starts
  <2>2. CASE ~Absent(t)
    <3>1. /\ Handling(next, t) \in ReqRec /\ Handling(next, t).id = t
      BY <1>3, Starts
    <3> QED
      BY <1>3, <2>2, <3>1, Zenon DEF ReqRec, Absent
  <2> QED
    BY <2>1, <2>2, Zenon
<1>5. req' = [req EXCEPT ![p] = r] /\ req'[p] = r
  BY <1>0, <1>1, Zenon DEF TypeOK
<1> HIDE DEF r
<1>6. ReqGood(p)'
  BY <1>1, <1>2, <1>4, <1>5, Zenon DEF ReqGood
<1>7. LastWriteShown' /\ shown' \in [Ids -> Contents \cup {"any", "gone"}]
  BY <1>0, <1>2, Zenon DEF LastWriteShown, Absent, TypeOK
<1> QED
  BY <1>2, <1>4, <1>5, <1>6, <1>7, RequestMoves, Zenon

\* req' after a step of request p that ends it.
LEMMA Ended ==
    ASSUME TypeOK, NEW p \in Requests, NEW pc \in {"accepted", "refused"},
           NEW R \in [Requests -> ReqRec], R[p] = req[p], req' = [R EXCEPT ![p].pc = pc]
    PROVE  /\ req' \in [Requests -> ReqRec] /\ req'[p] = [req[p] EXCEPT !.pc = pc]
           /\ req'[p].pc = pc /\ req'[p].key = req[p].key /\ ReqGood(p)'
           /\ \A q \in Requests \ {p} : req'[q] = R[q]
<1> DEFINE r == [R[p] EXCEPT !.pc = pc]
<1>1. r \in ReqRec /\ r.pc = pc /\ r.key = req[p].key
  BY Zenon DEF ReqRec
<1>2. req' = [R EXCEPT ![p] = r]
  BY Zenon
<1>3. r = [req[p] EXCEPT !.pc = pc]
  BY Zenon
<1> HIDE DEF r
<1>4. /\ req' \in [Requests -> ReqRec] /\ req'[p] = r
      /\ \A q \in Requests \ {p} : req'[q] = R[q]
  BY <1>1, <1>2, Zenon
<1>5. ReqGood(p)'
  BY <1>1, <1>4, Zenon DEF ReqGood
<1> QED
  BY <1>1, <1>3, <1>4, <1>5, Zenon

LEMMA FailKeeps ==
    ASSUME IndInv, NEW p \in Requests, Fail(p)
    PROVE  IndInv'
<1>0. TypeOK /\ KeysInv /\ LastWriteShown /\ req \in [Requests -> ReqRec]
  BY Zenon DEF IndInv, TypeOK, ReqRec
<1>1. /\ req' = [req EXCEPT ![p].pc = "refused"]
      /\ UNCHANGED <<rows, lastKey, boot, used, shown>>
  BY Zenon DEF Fail
<1>2. faults' \in 0 .. MaxFaults
  BY <1>0, TemplatesAssumption DEF Fail, TypeOK
<1>3. /\ req' \in [Requests -> ReqRec] /\ req'[p].key = req[p].key /\ ReqGood(p)'
  BY <1>0, <1>1, Ended, Zenon
<1>4. req' = [req EXCEPT ![p] = req'[p]]
  BY <1>0, <1>1, Zenon
<1>5. LastWriteShown' /\ shown' \in [Ids -> Contents \cup {"any", "gone"}]
  BY <1>0, <1>1, Zenon DEF LastWriteShown, Absent, TypeOK
<1>6. req'[p] \in ReqRec /\ req'[p].key <= lastKey
  BY <1>0, <1>3, Zenon DEF KeysInv
<1> QED
  BY <1>1, <1>2, <1>3, <1>4, <1>5, <1>6, RequestMoves, Zenon
\* Update and Destroy that hit their row: `row` is what they leave of it.
LEMMA Hit ==
    ASSUME IndInv, NEW p \in Requests, req[p].pc \in {"write", "delete"},
           NEW row \in Row \cup {NoRow}, NEW gone \in BOOLEAN, NEW c \in Contents \cup {"gone"},
           rows' = [rows EXCEPT ![req[p].id] = row],
           row.key <= rows[req[p].id].key, row.key = 0 => gone,
           \/ c = "gone" /\ row.key = 0
           \/ row.key # 0 /\ row.content = c /\ c \in Requests /\ row.overridden,
           boot' = BootsSee(p, req[p].id, gone),
           req' = [RequestsSee(p, req[p].id) EXCEPT ![p].pc = "accepted"],
           shown' = Left(req[p].id, req[p].overlap, c),
           UNCHANGED <<lastKey, used, faults>>
    PROVE  IndInv'
<1> DEFINE t == req[p].id
           R == RequestsSee(p, t)
<1>0. /\ TypeOK /\ KeysInv /\ LastWriteShown /\ FlagRight /\ ReqGood(p) /\ lastKey \in Nat
      /\ req[p] \in ReqRec /\ t \in Ids /\ req[p].overlap \in BOOLEAN
      /\ req[p].key <= lastKey /\ rows[t].key <= lastKey /\ rows[t].key \in Nat
  BY Types, Records, RowTypes, Zenon DEF IndInv, KeysInv
<1>1. used \subseteq Others /\ t \in used \cup {Default}
  BY <1>0, Zenon DEF ReqGood, TypeOK
<1> HIDE DEF t
<1>2. OnlyRow(t) /\ rows'[t] = row
  BY <1>0, Zenon DEF TypeOK, OnlyRow, t
<1>3. /\ boot' \in [Instances -> BootRec] /\ R \in [Requests -> ReqRec]
  BY <1>0, SeeTypes, Zenon DEF t
<1>4. R[p] = req[p]
  BY Zenon DEF RequestsSee
<1> HIDE DEF R
<1>5. /\ req' \in [Requests -> ReqRec] /\ req'[p].key = req[p].key /\ ReqGood(p)'
      /\ \A q \in Requests \ {p} : req'[q] = R[q]
  <2>1. req' = [R EXCEPT ![p].pc = "accepted"]
    BY Zenon DEF R, t
  <2> QED
    BY <1>0, <1>3, <1>4, <2>1, Ended, Zenon
<1>6. row.key \in Nat /\ row.key <= lastKey
  BY <1>0, Rows DEF t
<1>7. FlagRight'
  <2>1. CASE t = Default
    BY <1>2, <2>1, Zenon DEF FlagRight, Absent
  <2>2. CASE t # Default
    <3>1. rows'[Default] = rows[Default]
      BY <1>2, <2>2, Names, Zenon DEF OnlyRow
    <3> QED
      BY <1>0, <3>1, Zenon DEF FlagRight, Absent
  <2> QED
    BY <2>1, <2>2, Zenon
<1>8. LastWriteShown' /\ shown' \in [Ids -> Contents \cup {"any", "gone"}]
  <2>1. /\ shown' = Left(t, req[p].overlap, c)
        /\ \/ c = "gone" /\ rows'[t].key = 0
           \/ rows'[t].key # 0 /\ rows'[t].content = c
    BY <1>2, Zenon DEF t
  <2>2. shown' \in [Ids -> Contents \cup {"any", "gone"}]
    <3>1. c \in Contents \cup {"any", "gone"} /\ TypeOK /\ t \in Ids /\ req[p].overlap \in BOOLEAN
      BY <1>0, Zenon
    <3>2. Left(t, req[p].overlap, c) \in [Ids -> Contents \cup {"any", "gone"}]
      BY <3>1, ShownType, Zenon
    <3> QED
      BY <2>1, <3>2, Zenon
  <2>3. LastWriteShown'
    BY <1>0, <1>2, <2>1, ShownKept, Zenon
  <2> QED
    BY <2>2, <2>3, Zenon
<1>9. /\ \A i \in Instances \ {p} : boot'[i] = BootsSee(p, t, gone)[i]
      /\ \A q \in Requests \ {p} : req'[q] = RequestsSee(p, t)[q]
  BY <1>5, Zenon DEF R, t
<1>10. /\ rows'[t].key = 0 => gone \/ Absent(t)
       /\ rows'[t].key <= lastKey' /\ lastKey' \in Nat /\ lastKey <= lastKey'
       /\ used \subseteq used' /\ used' \subseteq Others /\ t \in used' \cup {Default}
       /\ faults' = faults
  BY <1>0, <1>1, <1>2, <1>6
<1>11. /\ p \in Instances => BootGood(p)' /\ boot'[p].key <= lastKey'
       /\ p \in Requests => ReqGood(p)' /\ req'[p].key <= lastKey'
  BY <1>0, <1>5, Names, Zenon
<1>12. t \in Ids /\ OnlyRow(t) /\ boot' \in [Instances -> BootRec]
       /\ req' \in [Requests -> ReqRec]
  BY <1>0, <1>2, <1>3, <1>5, Zenon
<1> QED
  BY <1>7, <1>8, <1>9, <1>10, <1>11, <1>12, RowChanges

\* Update and Destroy that miss their row: somebody changed it, and they know.
LEMMA Miss ==
    ASSUME IndInv, NEW p \in Requests, req[p].pc \in {"write", "delete"},
           NEW c \in Contents \cup {"gone"}, rows[req[p].id].key # req[p].key,
           req' = [req EXCEPT ![p].pc = "accepted"],
           shown' = Left(req[p].id, req[p].overlap, c),
           UNCHANGED <<rows, lastKey, boot, used, faults>>
    PROVE  IndInv'
<1>0. /\ TypeOK /\ KeysInv /\ LastWriteShown /\ ReqGood(p) /\ req \in [Requests -> ReqRec]
      /\ req[p].id \in Ids /\ req[p].overlap \in BOOLEAN
  BY Types, Records, Zenon DEF IndInv, TypeOK, ReqRec
<1>1. req[p].overlap
  BY <1>0, Zenon DEF ReqGood
<1>2. /\ req' \in [Requests -> ReqRec] /\ req'[p].key = req[p].key /\ ReqGood(p)'
  BY <1>0, Ended, Zenon
<1>3. req' = [req EXCEPT ![p] = req'[p]]
  BY <1>0, Zenon
<1>4. OnlyRow(req[p].id)
  BY <1>0, Zenon DEF OnlyRow, TypeOK
<1>5. LastWriteShown' /\ shown' \in [Ids -> Contents \cup {"any", "gone"}]
  BY <1>0, <1>1, <1>4, ShownKept, ShownType, Zenon
<1>6. req'[p] \in ReqRec /\ req'[p].key <= lastKey
  BY <1>0, <1>2, Zenon DEF KeysInv
<1>7. faults' \in 0 .. MaxFaults
  BY <1>0, Zenon DEF TypeOK
<1> QED
  BY <1>2, <1>3, <1>5, <1>6, <1>7, RequestMoves, Zenon

LEMMA UpdateKeeps ==
    ASSUME IndInv, NEW p \in Requests, Update(p)
    PROVE  IndInv'
<1> DEFINE t == req[p].id
           row == [rows[t] EXCEPT !.content = p, !.overridden = TRUE]
<1>0. /\ TypeOK /\ req[p].pc = "write" /\ ReqGood(p) /\ t \in Ids /\ p \in Contents
      /\ rows[t].key \in Nat
  BY Types, Records, Names, RowTypes, Zenon DEF IndInv, Update
<1>1. CASE rows[t].key = req[p].key
  <2>1. /\ rows' = [rows EXCEPT ![t] = row] /\ boot' = BootsSee(p, t, FALSE)
        /\ req' = [RequestsSee(p, t) EXCEPT ![p].pc = "accepted"]
        /\ shown' = Left(t, req[p].overlap, p) /\ UNCHANGED <<lastKey, used, faults>>
    BY <1>0, <1>1, Zenon DEF Update, TypeOK
  <2>2. rows[t] \in Row /\ rows[t].key # 0
    BY <1>0, <1>1, RowTypes, Zenon DEF ReqGood, Absent
  <2>3. row \in Row /\ row.key = rows[t].key /\ row.content = p /\ row.overridden
    BY <1>0, <2>2, Written, Zenon
  <2>4. row.key <= rows[t].key /\ row.key # 0
    BY <1>0, <2>2, <2>3
  <2> HIDE DEF row
  <2> QED
    BY <1>0, <2>1, <2>3, <2>4, Hit, Zenon
<1>2. CASE rows[t].key # req[p].key
  <2>1. /\ req' = [req EXCEPT ![p].pc = "accepted"] /\ shown' = Left(t, req[p].overlap, p)
        /\ UNCHANGED <<rows, lastKey, boot, used, faults>>
    BY <1>2, Zenon DEF Update
  <2> QED
    BY <1>0, <1>2, <2>1, Miss, Zenon
<1> QED
  BY <1>1, <1>2, Zenon

LEMMA DestroyKeeps ==
    ASSUME IndInv, NEW p \in Requests, Destroy(p)
    PROVE  IndInv'
<1> DEFINE t == req[p].id
<1>0. /\ TypeOK /\ req[p].pc = "delete" /\ t \in Ids /\ rows[t].key \in Nat
  BY Types, Records, RowTypes, Zenon DEF IndInv, Destroy
<1>1. CASE rows[t].key = req[p].key
  <2>1. /\ rows' = [rows EXCEPT ![t] = NoRow] /\ boot' = BootsSee(p, t, TRUE)
        /\ req' = [RequestsSee(p, t) EXCEPT ![p].pc = "accepted"]
        /\ shown' = Left(t, req[p].overlap, "gone") /\ UNCHANGED <<lastKey, used, faults>>
    BY <1>1, Zenon DEF Destroy
  <2>2. NoRow.key = 0 /\ NoRow.key <= rows[t].key
    BY <1>0, Rows
  <2> QED
    BY <1>0, <2>1, <2>2, Hit, Zenon
<1>2. CASE rows[t].key # req[p].key
  <2>1. /\ req' = [req EXCEPT ![p].pc = "accepted"] /\ shown' = Left(t, req[p].overlap, "gone")
        /\ UNCHANGED <<rows, lastKey, boot, used, faults>>
    BY <1>2, Zenon DEF Destroy
  <2> QED
    BY <1>0, <1>2, <2>1, Miss, Zenon
<1> QED
  BY <1>1, <1>2, Zenon
LEMMA IndInvStep == IndInv /\ [Next]_vars => IndInv'
<1> SUFFICES ASSUME IndInv, [Next]_vars PROVE IndInv'
  BY Zenon
<1>1. ASSUME NEW i \in Instances, Boot(i) \/ Seed(i) \/ Crash(i) PROVE IndInv'
  BY <1>1, BootKeeps, SeedFindKeeps, SeedInsertKeeps, SeedUpdateKeeps, Zenon DEF Seed
<1>2. ASSUME NEW p \in Requests, Create(p) \/ Find(p) \/ Update(p) \/ Destroy(p) \/ Fail(p)
      PROVE  IndInv'
  BY <1>2, CreateKeeps, FindKeeps, UpdateKeeps, DestroyKeeps, FailKeeps, Zenon
<1>3. CASE UNCHANGED vars
  <2>1. TypeOK' /\ KeysInv'
    BY <1>3, Zenon DEF vars, IndInv, TypeOK, KeysInv
  <2> QED
    BY <1>3, <2>1, RowsStay, Zenon DEF vars, IndInv
<1> QED
  BY <1>1, <1>2, <1>3, Zenon DEF Next

\* IndInv holds whatever boots, seeds and requests overlap.
THEOREM IndInvCorrect == Spec => []IndInv
<1>1. Init => IndInv
  <2> SUFFICES ASSUME Init PROVE IndInv
    BY Zenon
  <2>1. PICK row \in {NoRow} \cup [key: {1}, content: Releases, overridden: {FALSE}] :
          rows = [t \in Ids |-> IF t = Default THEN row ELSE NoRow]
    BY Zenon DEF Init
  <2>2. /\ row \in Row \cup {NoRow} /\ row.key \in Nat /\ row.key <= 1
        /\ row.key # 0 => row.content \in Releases /\ row.overridden = FALSE
    <3>1. CASE row = NoRow
      BY <3>1, Rows
    <3>2. CASE row \in [key: {1}, content: Releases, overridden: {FALSE}]
      <4>1. row.key = 1 /\ row.content \in Releases /\ row.overridden = FALSE
        BY <3>2, Zenon
      <4>2. PICK c \in Contents : row = [key |-> 1, content |-> c, overridden |-> FALSE]
        BY <3>2, <4>1, Names, Zenon
      <4>4. row \in Row
        BY <4>2 DEF Row
      <4> QED
        BY <4>1, <4>4
    <3> QED
      BY <3>1, <3>2, Zenon
  <2>3. /\ rows[Default] = row
        /\ \A t \in Ids \ {Default} : rows[t] = NoRow
        /\ rows \in [Ids -> Row \cup {NoRow}]
    BY <2>1, <2>2, Names, Zenon
  <2>4. PICK v \in Releases : boot = [i \in Instances |-> Booting("down", v)]
    BY Zenon DEF Init
  <2>5. /\ \A i \in Instances : boot[i] \in BootRec /\ boot[i].pc = "down" /\ boot[i].key = 0
        /\ boot \in [Instances -> BootRec]
    BY <2>4, Starts, Zenon
  <2>6. /\ \A p \in Requests : req[p] \in ReqRec /\ req[p].pc = "idle" /\ req[p].key = 0
        /\ req \in [Requests -> ReqRec]
    BY Starts, Names DEF Init
  <2>7. TypeOK
    BY <2>3, <2>5, <2>6, TemplatesAssumption DEF Init, TypeOK, BootRec, ReqRec
  <2>8. KeysInv
    BY <2>2, <2>3, <2>5, <2>6, Rows DEF Init, KeysInv
  <2>9. UsedInv
    BY <2>3, Names, Rows DEF UsedInv, Absent
  <2>10. FlagRight
    BY <2>2, <2>3, Names, Zenon DEF FlagRight, Absent
  <2>11. LastWriteShown
    BY Zenon DEF Init, LastWriteShown
  <2>12. (\A i \in Instances : BootGood(i)) /\ (\A p \in Requests : ReqGood(p))
    BY <2>5, <2>6, Zenon DEF BootGood, ReqGood
  <2> QED
    BY <2>7, <2>8, <2>9, <2>10, <2>11, <2>12, Zenon DEF IndInv
<1> QED
  BY <1>1, IndInvStep, PTL DEF Spec

-----------------------------------------------------------------------------
(* The properties.                                                         *)

\* Rows, boots and requests keep their types: in particular every row that is
\* there has a primary key (TypeOK).
THEOREM TypeCorrect == Spec => []TypeOK
<1>1. IndInv => TypeOK
  BY Zenon DEF IndInv
<1> QED
  BY <1>1, IndInvCorrect, PTL

\* Readers get what the last completed operation put there, unless somebody
\* changed the template while it ran (LastWriteShown).
THEOREM LastWriteWins == Spec => []LastWriteShown
<1>1. IndInv => LastWriteShown
  BY Zenon DEF IndInv
<1> QED
  BY <1>1, IndInvCorrect, PTL

\* The flag the next Seed goes by says whose content the default template has
\* (FlagRight).
THEOREM FlagKept == Spec => []FlagRight
<1>1. IndInv => FlagRight
  BY Zenon DEF IndInv
<1> QED
  BY <1>1, IndInvCorrect, PTL

\* An instance that is up has a default template, unless a request deleted it
\* since (SeededUnlessDeleted).
THEOREM Seeds == Spec => []SeededUnlessDeleted
<1>1. IndInv => SeededUnlessDeleted
  BY Zenon DEF IndInv, BootGood, SeededUnlessDeleted
<1> QED
  BY <1>1, IndInvCorrect, PTL

\* Seed writes over an override only if that was made after Seed had looked
\* (OverrideKept).
THEOREM OverridesKept == Spec => OverrideKept
<1> DEFINE Kept(i) == (~Absent(Default) /\ rows[Default].overridden /\ Seed(i) /\ rows' # rows)
                          => boot[i].overlap
<1>1. ASSUME IndInv, NEW i \in Instances PROVE Kept(i)
  <2>1. BootGood(i)
    BY <1>1, Zenon DEF IndInv
  <2>2. CASE SeedFind(i)
    BY <2>2, Zenon DEF SeedFind
  <2>3. CASE SeedInsert(i)
    BY <2>3, Zenon DEF SeedInsert
  <2>4. CASE SeedUpdate(i)
    BY <2>1, <2>4, Zenon DEF SeedUpdate, BootGood
  <2> QED
    BY <2>2, <2>3, <2>4, Zenon DEF Seed
<1>2. IndInv /\ [Next]_vars => [\A i \in Instances : Kept(i)]_vars
  BY <1>1, Zenon
<1> QED
  BY <1>2, IndInvCorrect, PTL DEF Spec, OverrideKept

\* A row changes only by who found that very row, and not one that was since
\* created in its place (RecreatedUntouched).
THEOREM RecreatedSafe == Spec => RecreatedUntouched
<1> DEFINE ByRequest(t) == \E p \in Requests :
               req[p].id = t /\ req[p].key = rows[t].key /\ req'[p].pc = "accepted"
           BySeed(t) == \E i \in Instances :
               t = Default /\ boot[i].key = rows[t].key /\ boot'[i].pc = "up"
           Found(t) == (~Absent(t) /\ rows'[t] # rows[t]) =>
         \/ \E p \in Requests : req[p].id = t /\ req[p].key = rows[t].key /\ req'[p].pc = "accepted"
         \/ \E i \in Instances : t = Default /\ boot[i].key = rows[t].key /\ boot'[i].pc = "up"
<1>1. ASSUME IndInv, [Next]_vars, NEW t \in Ids PROVE Found(t)
  <2> SUFFICES ASSUME ~Absent(t), rows'[t] # rows[t] PROVE ByRequest(t) \/ BySeed(t)
    BY Zenon
  <2>0. TypeOK /\ UsedInv
    BY <1>1, Zenon DEF IndInv
  <2>1. ASSUME NEW i \in Instances, Boot(i) \/ Crash(i) \/ SeedFind(i) PROVE FALSE
    BY <2>1, Zenon DEF Boot, Crash, SeedFind
  <2>2. ASSUME NEW p \in Requests, Find(p) \/ Fail(p) PROVE FALSE
    BY <2>2, Zenon DEF Find, Fail
  <2>3. ASSUME NEW i \in Instances, SeedInsert(i) PROVE FALSE
    <3>1. CASE Absent(Default)
      BY <2>0, <2>3, <3>1, Zenon DEF SeedInsert, TypeOK
    <3>2. CASE ~Absent(Default)
      BY <2>3, <3>2, Zenon DEF SeedInsert
    <3> QED
      BY <3>1, <3>2, Zenon
  <2>4. ASSUME NEW i \in Instances, SeedUpdate(i) PROVE BySeed(t)
    <3>1. rows[Default].key = boot[i].key
      BY <2>4, Zenon DEF SeedUpdate
    <3>2. t = Default
      BY <2>0, <2>4, <3>1, Zenon DEF SeedUpdate, TypeOK
    <3>3. boot'[i].pc = "up"
      <4>1. /\ boot' = [BootsSee(i, Default, FALSE) EXCEPT ![i].pc = "up"]
            /\ req' = RequestsSee(i, Default)
        BY <2>4, <3>1, Zenon DEF SeedUpdate
      <4> QED
        BY <2>0, <4>1, Seeded, Zenon
    <3> QED
      BY <3>1, <3>2, <3>3, Zenon
  <2>5. ASSUME NEW p \in Requests, Create(p) PROVE FALSE
    <3>1. PICK s \in Others \ used :
            rows' = [rows EXCEPT ![s] = [key |-> lastKey', content |-> p, overridden |-> FALSE]]
      BY <2>5, Zenon DEF Create
    <3>2. t = s
      BY <2>0, <3>1, Zenon DEF TypeOK
    <3> QED
      BY <2>0, <3>2, Zenon DEF UsedInv
  <2>6. ASSUME NEW p \in Requests, Update(p) \/ Destroy(p) PROVE ByRequest(t)
    <3>1. /\ rows[req[p].id].key = req[p].key
          /\ req' = [RequestsSee(p, req[p].id) EXCEPT ![p].pc = "accepted"]
      BY <2>6, Zenon DEF Update, Destroy
    <3>2. t = req[p].id
      BY <2>0, <2>6, Zenon DEF Update, Destroy, TypeOK
    <3>3. req'[p].pc = "accepted"
      <4>1. RequestsSee(p, t) \in [Requests -> ReqRec] /\ RequestsSee(p, t)[p] = req[p]
        <5>1. RequestsSee(p, t) \in [Requests -> ReqRec]
          BY <2>0, SeeTypes, Zenon
        <5> QED
          BY <5>1, Zenon DEF RequestsSee
      <4> QED
        BY <2>0, <3>1, <3>2, <4>1, Ended, Zenon
    <3> QED
      BY <3>1, <3>2, <3>3, Zenon
  <2>7. CASE UNCHANGED vars
    BY <2>7, Zenon DEF vars
  <2> QED
    BY <1>1, <2>1, <2>2, <2>3, <2>4, <2>5, <2>6, <2>7, Zenon DEF Next, Seed
<1>2. IndInv /\ [Next]_vars => [\A t \in Ids : Found(t)]_vars
  BY <1>1, Zenon
<1> QED
  BY <1>2, IndInvCorrect, PTL DEF Spec, RecreatedUntouched

\* A row that appears has a primary key that no boot and no request in
\* progress remembers from a row before it.
KeyIsNew ==
    [][\A t \in Ids : (Absent(t) /\ rows'[t].key # 0) =>
         /\ \A i \in Instances : boot[i].key # rows'[t].key
         /\ \A p \in Requests : req[p].key # rows'[t].key]_vars

\* AUTO_INCREMENT keeps the statements of Seed, Update and Destroy, which name
\* a row by its key, away from a row that was created again under the same
\* identifier (KeyIsNew).
THEOREM KeysNew == Spec => KeyIsNew
<1> DEFINE New(t) == (Absent(t) /\ rows'[t].key # 0) =>
                       /\ \A i \in Instances : boot[i].key # rows'[t].key
                       /\ \A p \in Requests : req[p].key # rows'[t].key
<1>1. ASSUME IndInv, [Next]_vars, NEW t \in Ids PROVE New(t)
  <2> SUFFICES ASSUME Absent(t), rows'[t].key # 0
               PROVE  /\ \A i \in Instances : boot[i].key # rows'[t].key
                      /\ \A p \in Requests : req[p].key # rows'[t].key
    BY Zenon
  <2>0. /\ TypeOK /\ KeysInv /\ lastKey \in Nat
        /\ \A i \in Instances : BootGood(i) /\ boot[i].key \in Nat
        /\ \A p \in Requests : ReqGood(p) /\ req[p].key \in Nat /\ req[p].id \in Ids
    BY <1>1, Types, Records, Zenon DEF IndInv
  <2>1. rows'[t].key = lastKey + 1
    <3>1. ASSUME NEW i \in Instances, Boot(i) \/ Crash(i) \/ SeedFind(i) PROVE FALSE
      BY <3>1, Zenon DEF Boot, Crash, SeedFind, Absent
    <3>2. ASSUME NEW p \in Requests, Find(p) \/ Fail(p) PROVE FALSE
      BY <3>2, Zenon DEF Find, Fail, Absent
    <3>3. ASSUME NEW i \in Instances, SeedInsert(i) PROVE rows'[t].key = lastKey + 1
      <4> DEFINE r == [key |-> lastKey', content |-> boot[i].release, overridden |-> FALSE]
      <4>1. Absent(Default)
        BY <3>3, Zenon DEF SeedInsert, Absent
      <4>2. rows' = [rows EXCEPT ![Default] = r] /\ lastKey' = lastKey + 1
        BY <3>3, <4>1, Zenon DEF SeedInsert
      <4>3. r.key = lastKey'
        BY Zenon
      <4>4. rows \in [Ids -> Row \cup {NoRow}]
        BY <2>0, Zenon DEF TypeOK
      <4> HIDE DEF r
      <4> QED
        BY <4>2, <4>3, <4>4, Zenon DEF Absent
    <3>4. ASSUME NEW i \in Instances, SeedUpdate(i) PROVE FALSE
      <4>1. boot[i].key # 0
        BY <2>0, <3>4, Zenon DEF SeedUpdate, BootGood
      <4> QED
        BY <2>0, <3>4, <4>1, Zenon DEF SeedUpdate, TypeOK, Absent
    <3>5. ASSUME NEW p \in Requests, Create(p) PROVE rows'[t].key = lastKey + 1
      BY <2>0, <3>5 DEF Create, TypeOK, Absent
    <3>6. ASSUME NEW p \in Requests, Update(p) \/ Destroy(p) PROVE FALSE
      <4>1. req[p].key # 0 /\ req[p].id \in Ids
        BY <2>0, <3>6, Zenon DEF Update, Destroy, ReqGood
      <4>2. req[p].id # t
        <5>1. rows[req[p].id].key = req[p].key
          BY <3>6, Zenon DEF Update, Destroy, Absent
        <5> QED
          BY <4>1, <5>1, Zenon DEF Absent
      <4>3. rows'[t] = rows[t]
        BY <2>0, <3>6, <4>1, <4>2, Zenon DEF Update, Destroy, TypeOK
      <4> QED
        BY <4>3, Zenon DEF Absent
    <3>7. CASE UNCHANGED vars
      BY <3>7, Zenon DEF vars, Absent
    <3> QED
      BY <1>1, <3>1, <3>2, <3>3, <3>4, <3>5, <3>6, <3>7, Zenon DEF Next, Seed
  <2> QED
    BY <2>0, <2>1 DEF KeysInv
<1>2. IndInv /\ [Next]_vars => [\A t \in Ids : New(t)]_vars
  BY <1>1, Zenon
<1> QED
  BY <1>2, IndInvCorrect, PTL DEF Spec, KeyIsNew
=============================================================================
