---------------------------- MODULE MemoryProofs ----------------------------
(* Proofs about Memory: the table is one of names (the refinement of       *)
(* NameTable), overlapping updates keep each other's keys, the gate's      *)
(* answer still stands when its row is inserted, and a composed recall     *)
(* shows the most specific row of a name.                                  *)
EXTENDS Memory, TLAPS, WellFoundedInduction

(* FindActive of an arbitrary table, so that it can be cited of the next. *)
ActiveIn(r) == {i \in DOMAIN r : r[i].active}
FindIn(r, s) ==
  IF \E i \in ActiveIn(r) : r[i].slot = s THEN CHOOSE i \in ActiveIn(r) : r[i].slot = s ELSE 0

LEMMA FindNow == /\ Active = ActiveIn(rows)
                 /\ \A s : FindActive(s) = FindIn(rows, s)
  BY DEF Active, FindActive, ActiveIn, FindIn

LEMMA FindNext == /\ Active' = ActiveIn(rows')
                  /\ \A s : FindActive(s)' = FindIn(rows', s)
  BY DEF Active, FindActive, ActiveIn, FindIn

UniqueIn(r) == \A i, j \in ActiveIn(r) : r[i].slot = r[j].slot => i = j

LEMMA FindNothing ==
  ASSUME NEW r, NEW s, \A i \in ActiveIn(r) : r[i].slot # s
  PROVE  FindIn(r, s) = 0
  BY DEF FindIn

LEMMA FindSomething ==
  ASSUME NEW r, NEW s, NEW i \in ActiveIn(r), r[i].slot = s, UniqueIn(r)
  PROVE  FindIn(r, s) = i
  <1> DEFINE P(k) == k \in ActiveIn(r) /\ r[k].slot = s
  <1>1. (CHOOSE k \in ActiveIn(r) : r[k].slot = s) \in ActiveIn(r)
        /\ r[CHOOSE k \in ActiveIn(r) : r[k].slot = s].slot = s
    OBVIOUS
  <1> QED  BY <1>1 DEF FindIn, UniqueIn

LEMMA FindFacts ==
  ASSUME NEW r \in Seq(Row), NEW s
  PROVE  \/ FindIn(r, s) = 0 /\ \A i \in ActiveIn(r) : r[i].slot # s
         \/ FindIn(r, s) \in ActiveIn(r) /\ FindIn(r, s) # 0 /\ r[FindIn(r, s)].slot = s
  <1>1. CASE \A i \in ActiveIn(r) : r[i].slot # s
    BY <1>1 DEF FindIn
  <1>2. CASE \E i \in ActiveIn(r) : r[i].slot = s
    <2>1. FindIn(r, s) \in ActiveIn(r) /\ r[FindIn(r, s)].slot = s
      BY <1>2 DEF FindIn
    <2>2. 0 \notin DOMAIN r
      OBVIOUS
    <2> QED  BY <2>1, <2>2 DEF ActiveIn
  <1> QED  BY <1>1, <1>2
-----------------------------------------------------------------------------
(* A table to which a row is appended after some rows were retired. *)
Grown(r, gone, row) ==
  Append([i \in DOMAIN r |-> [r[i] EXCEPT !.active = @ /\ i \notin gone]], row)

(* All that matters of the table that results. *)
IsGrown(g, r, gone, row) ==
  /\ g \in Seq(Row) /\ Len(g) = Len(r) + 1
  /\ DOMAIN g = DOMAIN r \cup {Len(r) + 1} /\ Len(r) + 1 \notin DOMAIN r
  /\ g[Len(r) + 1] = row
  /\ \A i \in DOMAIN r : /\ g[i].slot = r[i].slot /\ g[i].attributes = r[i].attributes
                         /\ g[i].topic = r[i].topic /\ g[i].type = r[i].type
                         /\ g[i].active <=> r[i].active /\ i \notin gone

LEMMA GrownFacts ==
  \A r \in Seq(Row), row \in Row : \A gone : IsGrown(Grown(r, gone, row), r, gone, row)
  <1> SUFFICES ASSUME NEW r \in Seq(Row), NEW row \in Row, NEW gone
               PROVE  IsGrown(Grown(r, gone, row), r, gone, row)
    OBVIOUS
  <1> DEFINE old == [i \in DOMAIN r |-> [r[i] EXCEPT !.active = @ /\ i \notin gone]]
  <1>1. \A i \in DOMAIN r : r[i] \in Row
    OBVIOUS
  <1>2. \A i \in DOMAIN r : [r[i] EXCEPT !.active = @ /\ i \notin gone] \in Row
    BY <1>1 DEF Row
  <1>3. DOMAIN r = 1..Len(r) /\ Len(r) \in Nat
    OBVIOUS
  <1>4. old \in [1..Len(r) -> Row]
    BY <1>2, <1>3
  <1>5. old \in Seq(Row) /\ Len(old) = Len(r)
    BY <1>3, <1>4
  <1>6. \A i \in DOMAIN r : old[i] = [r[i] EXCEPT !.active = @ /\ i \notin gone]
    OBVIOUS
  <1>7. \A i \in DOMAIN r : /\ old[i].slot = r[i].slot /\ old[i].attributes = r[i].attributes
                            /\ old[i].topic = r[i].topic /\ old[i].type = r[i].type
                            /\ old[i].active <=> r[i].active /\ i \notin gone
    BY <1>1, <1>6 DEF Row
  <1>8. Grown(r, gone, row) = Append(old, row)
    BY DEF Grown
  <1> HIDE DEF old
  <1> QED  BY <1>3, <1>5, <1>6, <1>7, <1>8 DEF IsGrown
-----------------------------------------------------------------------------
(* What a command in progress knows stays true: a superseding add names    *)
(* another name and saw its own free; the row an add saw has its slot; a   *)
(* row that is being edited is active, no other command edits it, and the  *)
(* merged keys still hold all it has.                                      *)
AddsSane ==
  \A w \in Writer : job[w].step \in {"revision", "gate", "select", "insert"} =>
    LET j == job[w]
    IN /\ j.ask.choice.kind = "supersedes" => j.ask.choice.name # j.ask.slot[2] /\ j.seen = 0
       /\ j.seen # 0 => j.seen \in DOMAIN rows /\ rows[j.seen].slot = j.ask.slot

EditsSane ==
  \A w \in Writer : job[w].step = "edit" =>
    /\ job[w].id \in Active /\ rows[job[w].id].attributes \subseteq job[w].keys
    /\ job[w].set \subseteq job[w].keys
    /\ \A u \in Writer : u # w /\ job[u].step = "edit" => job[u].id # job[w].id

UniqueNames == UniqueIn(rows)

UpdatedExist == \A i \in Id : i \notin DOMAIN rows => updated[i] = {}

Inv == TypeOK /\ UniqueNames /\ AddsSane /\ EditsSane /\ UpdatedExist /\ KeysKept

(* The step of a command tells which command it is. *)
LEMMA StepKinds ==
  ASSUME NEW j \in {Idle} \cup Adds \cup Edits
  PROVE  /\ j.step \in {"idle", "revision", "gate", "select", "insert", "edit"}
         /\ j.step = "idle" <=> j = Idle
         /\ j.step = "edit" <=> j \in Edits
         /\ j.step \in {"revision", "gate", "select", "insert"} <=> j \in Adds
  BY DEF Idle, Adds, Edits

LEMMA RowsTyped ==
  ASSUME TypeOK
  PROVE  /\ DOMAIN rows = 1..Len(rows) /\ Len(rows) \in Nat
         /\ DOMAIN rows \subseteq Id /\ 0 \notin DOMAIN rows
         /\ \A i \in DOMAIN rows : rows[i] \in Row
         /\ Active \subseteq DOMAIN rows
  BY MemoryBounds DEF TypeOK, Id, Active

LEMMA FindTyped ==
  ASSUME TypeOK, NEW s
  PROVE  FindActive(s) \in Id \cup {0} /\ (FindActive(s) # 0 =>
           FindActive(s) \in Active /\ rows[FindActive(s)].slot = s)
  BY RowsTyped, FindNow, FindFacts DEF TypeOK

LEMMA InitInv == Init => Inv
  <1> SUFFICES ASSUME Init PROVE Inv
    OBVIOUS
  <1>1. rows = <<>> /\ rows \in Seq(Row) /\ Len(rows) = 0 /\ DOMAIN rows = {}
    BY DEF Init
  <1>2. \A w \in Writer : job[w] = Idle /\ job[w].step = "idle"
    BY DEF Init, Idle
  <1>3. TypeOK
    BY <1>1, MemoryBounds DEF Init, TypeOK
  <1> QED
    BY <1>1, <1>2, <1>3
    DEF Init, Inv, UniqueNames, UniqueIn, ActiveIn, AddsSane, EditsSane, UpdatedExist, KeysKept
-----------------------------------------------------------------------------
(* Steps that change nothing but a command's own progress. *)
LEMMA ProgressInv ==
  ASSUME Inv, UNCHANGED <<rows, excused, updated>>,
         NEW w \in Writer, NEW j \in {Idle} \cup Adds, job' = [job EXCEPT ![w] = j],
         j \in Adds => /\ j.ask.choice.kind = "supersedes" =>
                            j.ask.choice.name # j.ask.slot[2] /\ j.seen = 0
                       /\ j.seen # 0 => j.seen \in DOMAIN rows /\ rows[j.seen].slot = j.ask.slot
  PROVE  Inv'
  <1> USE DEF Inv
  <1>1. TypeOK'
    BY DEF TypeOK
  <1>2. \A u \in Writer : job'[u] = IF u = w THEN j ELSE job[u]
    BY DEF TypeOK
  <1>3. j.step # "edit"
    BY StepKinds DEF Idle, Adds
  <1>4. AddsSane'
    BY <1>2, StepKinds DEF AddsSane
  <1>5. Active' = Active
    BY DEF Active
  <1>6. EditsSane'
    BY <1>2, <1>3, <1>5 DEF EditsSane
  <1>7. UniqueNames' /\ UpdatedExist' /\ KeysKept'
    BY DEF UniqueNames, UniqueIn, ActiveIn, UpdatedExist, KeysKept
  <1> QED  BY <1>1, <1>4, <1>6, <1>7

LEMMA AddStartInv ==
  ASSUME Inv, NEW w \in Writer, NEW a \in Asks, AddStart(w, a)
  PROVE  Inv'
  <1> DEFINE sup   == a.choice.kind = "supersedes" /\ a.choice.name # a.slot[2]
             hit   == IF sup THEN FindActive(<<a.slot[1], a.choice.name>>) ELSE 0
             bound == IF sup \/ a.choice.kind # "supersedes" THEN a
                      ELSE [a EXCEPT !.choice = [kind |-> "none"]]
             j     == [step |-> "revision", ask |-> bound, answered |-> {hit} \ {0},
                       revision |-> FALSE, seen |-> 0, missed |-> {}]
  <1>1. a \in Ask
    BY MemoryAsks
  <1>2. hit \in Id \cup {0}
    BY FindTyped DEF Inv
  <1>3. bound \in Ask /\ (bound.choice.kind = "supersedes" => bound.choice.name # bound.slot[2])
    BY <1>1 DEF Ask, Choice
  <1>4. job' = [job EXCEPT ![w] = j] /\ UNCHANGED <<rows, excused, updated>>
    BY DEF AddStart
  <1> HIDE DEF hit, bound
  <1>5. j \in Adds
    BY <1>2, <1>3 DEF Adds
  <1>6. j.ask = bound /\ j.seen = 0
    OBVIOUS
  <1> HIDE DEF j
  <1> QED  BY <1>3, <1>4, <1>5, <1>6, ProgressInv

LEMMA RevisionInv ==
  ASSUME Inv, NEW w \in Writer, Revision(w)
  PROVE  Inv'
  <1> DEFINE found == FindActive(job[w].ask.slot) # 0
             j == [job[w] EXCEPT !.step = "gate", !.revision = found]
  <1>1. job[w] \in Adds
    BY StepKinds DEF Inv, TypeOK, Revision
  <1>2. j \in Adds /\ j.ask = job[w].ask /\ j.seen = job[w].seen
    BY <1>1 DEF Adds
  <1>3. UNCHANGED <<rows, excused, updated>>
        /\ (job' = [job EXCEPT ![w] = Idle] \/ job' = [job EXCEPT ![w] = j])
    BY DEF Revision, Finish, Inv, TypeOK
  <1> HIDE DEF j
  <1>4. Idle \notin Adds
    BY DEF Idle, Adds
  <1> QED  BY <1>1, <1>2, <1>3, <1>4, ProgressInv, StepKinds DEF Inv, AddsSane

LEMMA GateInv ==
  ASSUME Inv, NEW w \in Writer, Gate(w)
  PROVE  Inv'
  <1> DEFINE a == job[w].ask
             related  == IF a.choice.kind = "related" THEN Related(a) ELSE {}
             answered == job[w].answered \cup related
             j == [job[w] EXCEPT !.step = "select", !.answered = answered]
  <1>1. job[w] \in Adds
    BY StepKinds DEF Inv, TypeOK, Gate
  <1>2. related \subseteq Id
    BY RowsTyped DEF Related, InScope, Inv
  <1>3. UNCHANGED <<rows, excused, updated>>
        /\ (job' = [job EXCEPT ![w] = Idle] \/ job' = [job EXCEPT ![w] = j])
    BY DEF Gate, Finish, Inv, TypeOK
  <1> HIDE DEF related
  <1>4. j \in Adds /\ j.ask = job[w].ask /\ j.seen = job[w].seen
    BY <1>1, <1>2 DEF Adds
  <1> HIDE DEF j
  <1>5. Idle \notin Adds
    BY DEF Idle, Adds
  <1> QED  BY <1>1, <1>3, <1>4, <1>5, ProgressInv, StepKinds DEF Inv, AddsSane

LEMMA SelectInv ==
  ASSUME Inv, NEW w \in Writer, Select(w)
  PROVE  Inv'
  <1> DEFINE found == FindActive(job[w].ask.slot)
             j == [job[w] EXCEPT !.step = "insert", !.seen = found]
  <1>1. job[w] \in Adds
    BY StepKinds DEF Inv, TypeOK, Select
  <1>2. found \in Id \cup {0} /\ (found # 0 => found \in DOMAIN rows /\ rows[found].slot = job[w].ask.slot)
    BY FindTyped, RowsTyped DEF Inv
  <1>3. /\ UNCHANGED <<rows, excused, updated>>
        /\ \/ job' = [job EXCEPT ![w] = Idle]
           \/ /\ job' = [job EXCEPT ![w] = j]
              /\ ~(found # 0 /\ job[w].ask.choice.kind = "supersedes")
    BY DEF Select, Finish, Inv, TypeOK
  <1> HIDE DEF found
  <1>4. j \in Adds /\ j.ask = job[w].ask /\ j.seen = found
    BY <1>1, <1>2 DEF Adds
  <1> HIDE DEF j
  <1>5. Idle \notin Adds
    BY DEF Idle, Adds
  <1>6. job[w].ask.choice.kind = "supersedes" => job[w].ask.choice.name # job[w].ask.slot[2]
    BY <1>1, StepKinds DEF Inv, AddsSane
  <1>7. CASE job' = [job EXCEPT ![w] = Idle]
    BY <1>3, <1>5, <1>7, ProgressInv
  <1>8. CASE job' = [job EXCEPT ![w] = j] /\ ~(found # 0 /\ job[w].ask.choice.kind = "supersedes")
    BY <1>2, <1>3, <1>4, <1>6, <1>8, ProgressInv
  <1> QED  BY <1>3, <1>7, <1>8

LEMMA RollbackInv ==
  ASSUME Inv, NEW w \in Writer, Rollback(w) \/ Abort(w)
  PROVE  Inv'
  <1>1. job' = [job EXCEPT ![w] = Idle] /\ UNCHANGED <<rows, excused, updated>>
    BY DEF Rollback, Abort, Finish
  <1>2. Idle \notin Adds
    BY DEF Idle, Adds
  <1> QED  BY <1>1, <1>2, ProgressInv
-----------------------------------------------------------------------------
LEMMA EditLockInv ==
  ASSUME Inv, NEW w \in Writer, NEW s \in Slot, NEW set \in SUBSET Attribute, NEW t \in Topic,
         EditLock(w, s, set, t)
  PROVE  Inv'
  <1> USE DEF Inv
  <1> DEFINE i == FindActive(s)
             j == [step |-> "edit", id |-> i, set |-> set,
                   keys |-> rows[i].attributes \cup set, topic |-> t]
  <1>1. i \in Active /\ i \in Id /\ i \notin Held
    BY FindTyped, RowsTyped DEF EditLock
  <1>2. rows[i] \in Row
    BY <1>1, RowsTyped
  <1> HIDE DEF i
  <1>3. rows[i].attributes \in SUBSET Attribute
    BY <1>2 DEF Row
  <1>4. j \in Edits
    BY <1>1, <1>3 DEF Edits
  <1>5. job' = [job EXCEPT ![w] = j] /\ UNCHANGED <<rows, excused, updated>>
    BY DEF EditLock, i
  <1>6. \A u \in Writer : job'[u] = IF u = w THEN j ELSE job[u]
    BY <1>5 DEF TypeOK
  <1>7. TypeOK'
    BY <1>4, <1>5 DEF TypeOK
  <1>8. AddsSane'
    BY <1>5, <1>6 DEF AddsSane
  <1>9. \A u \in Writer : job[u].step = "edit" => job[u].id # i
    BY <1>1 DEF Held
  <1>10. Active' = Active
    BY <1>5 DEF Active
  <1>11. EditsSane'
    BY <1>1, <1>5, <1>6, <1>9, <1>10 DEF EditsSane
  <1>12. UniqueNames' /\ UpdatedExist' /\ KeysKept'
    BY <1>5 DEF UniqueNames, UniqueIn, ActiveIn, UpdatedExist, KeysKept
  <1> QED  BY <1>7, <1>8, <1>11, <1>12

LEMMA LocksInv ==
  ASSUME Inv, NEW w \in Writer, NEW s \in Slot, UpdateLock(w, s) \/ MarkLock(w, s)
  PROVE  Inv'
  <1>1. FindActive(s) # 0
    BY FindTyped, RowsTyped, MemoryBounds DEF UpdateLock, MarkLock, EditLock, Inv
  <1>2. rows[FindActive(s)] \in Row
    BY <1>1, FindTyped, RowsTyped DEF Inv
  <1>3. rows[FindActive(s)].topic \in Topic
    BY <1>2 DEF Row
  <1> QED  BY <1>3, EditLockInv DEF UpdateLock, MarkLock

LEMMA DeleteInv ==
  ASSUME Inv, NEW s \in Slot, Delete(s)
  PROVE  Inv'
  <1> USE DEF Inv
  <1> DEFINE i == FindActive(s)
  <1>1. i \in Active /\ i \in DOMAIN rows /\ i \notin Held
    BY FindTyped, RowsTyped DEF Delete
  <1>2. rows' = [rows EXCEPT ![i].active = FALSE] /\ UNCHANGED <<job, excused, updated>>
    BY DEF Delete
  <1> HIDE DEF i
  <1>3. \A k \in DOMAIN rows : rows[k] \in Row
    BY RowsTyped
  <1>4. [rows[i] EXCEPT !.active = FALSE] \in Row
    BY <1>1, <1>3 DEF Row
  <1>5. rows' \in Seq(Row) /\ Len(rows') = Len(rows) /\ DOMAIN rows' = DOMAIN rows
    BY <1>1, <1>2, <1>4 DEF TypeOK
  <1>6. \A k \in DOMAIN rows : /\ rows'[k].slot = rows[k].slot
                               /\ rows'[k].attributes = rows[k].attributes
                               /\ rows'[k].active = (rows[k].active /\ k # i)
    BY <1>1, <1>2, <1>3 DEF Row
  <1>7. Active' = Active \ {i}
    BY <1>5, <1>6 DEF Active
  <1>8. TypeOK'
    BY <1>2, <1>5 DEF TypeOK
  <1>9. UniqueNames'
    BY <1>5, <1>6 DEF UniqueNames, UniqueIn, ActiveIn
  <1>10. AddsSane'
    BY <1>2, <1>5, <1>6 DEF AddsSane
  <1>11. \A w \in Writer : job[w].step = "edit" => job[w].id # i
    BY <1>1 DEF Held
  <1>12. EditsSane'
    BY <1>2, <1>6, <1>7, <1>11, RowsTyped DEF EditsSane
  <1>13. UpdatedExist' /\ KeysKept'
    BY <1>2, <1>5, <1>6 DEF UpdatedExist, KeysKept
  <1> QED  BY <1>8, <1>9, <1>10, <1>12, <1>13

LEMMA EditWriteInv ==
  ASSUME Inv, NEW w \in Writer, EditWrite(w)
  PROVE  Inv'
  <1> USE DEF Inv
  <1> DEFINE e == job[w]
  <1>1. e \in Edits
    BY StepKinds DEF EditWrite, TypeOK
  <1>2. /\ e.id \in DOMAIN rows /\ e.id \in Id /\ rows[e.id].attributes \subseteq e.keys
        /\ e.set \subseteq e.keys /\ e.keys \in SUBSET Attribute /\ e.topic \in Topic
        /\ e.set \in SUBSET Attribute
    BY <1>1, RowsTyped DEF EditWrite, EditsSane, Edits
  <1>3. /\ rows' = [rows EXCEPT ![e.id].attributes = e.keys, ![e.id].topic = e.topic]
        /\ updated' = [updated EXCEPT ![e.id] = @ \cup e.set]
        /\ job' = [job EXCEPT ![w] = Idle]
    BY DEF EditWrite, Finish
  <1>4. excused' \subseteq Id \X Id
    BY <1>2 DEF EditWrite, TypeOK
  <1> HIDE DEF e
  <1>5. \A k \in DOMAIN rows : rows[k] \in Row
    BY RowsTyped
  <1>6. [rows[e.id] EXCEPT !.attributes = e.keys, !.topic = e.topic] \in Row
    BY <1>2, <1>5 DEF Row
  <1>7. rows' = [rows EXCEPT ![e.id] = [rows[e.id] EXCEPT !.attributes = e.keys, !.topic = e.topic]]
    BY <1>2, <1>3, <1>5 DEF Row, TypeOK
  <1>8. rows' \in Seq(Row) /\ Len(rows') = Len(rows) /\ DOMAIN rows' = DOMAIN rows
    BY <1>2, <1>6, <1>7 DEF TypeOK
  <1>9. \A k \in DOMAIN rows :
           /\ rows'[k].slot = rows[k].slot /\ rows'[k].active = rows[k].active
           /\ rows'[k].attributes = IF k = e.id THEN e.keys ELSE rows[k].attributes
    BY <1>2, <1>5, <1>7 DEF Row
  <1>10. Active' = Active
    BY <1>8, <1>9 DEF Active
  <1>11. updated' \in [Id -> SUBSET Attribute]
         /\ \A k \in Id : updated'[k] = IF k = e.id THEN updated[k] \cup e.set ELSE updated[k]
    BY <1>2, <1>3 DEF TypeOK
  <1>12. \A u \in Writer : job'[u] = IF u = w THEN Idle ELSE job[u]
    BY <1>3 DEF TypeOK
  <1>13. Idle.step = "idle"
    BY DEF Idle
  <1>14. job' \in [Writer -> {Idle} \cup Adds \cup Edits]
    BY <1>3 DEF TypeOK
  <1>15. TypeOK'
    BY <1>4, <1>8, <1>11, <1>14 DEF TypeOK
  <1>16. UniqueNames'
    BY <1>8, <1>9 DEF UniqueNames, UniqueIn, ActiveIn
  <1>17. AddsSane'
    BY <1>8, <1>9, <1>12, <1>13 DEF AddsSane
  <1>18. job[w].step = "edit" /\ e = job[w]
    BY DEF EditWrite, e
  <1>19. \A u \in Writer : u # w /\ job[u].step = "edit" => job[u].id # e.id
    BY <1>18 DEF EditsSane
  <1>20. EditsSane'
    BY <1>9, <1>10, <1>12, <1>13, <1>19, RowsTyped DEF EditsSane
  <1>21. UpdatedExist'
    BY <1>2, <1>8, <1>11 DEF UpdatedExist
  <1>22. KeysKept'
    BY <1>2, <1>8, <1>9, <1>11, RowsTyped DEF KeysKept
  <1> QED  BY <1>15, <1>16, <1>17, <1>20, <1>21, <1>22
-----------------------------------------------------------------------------
LEMMA FindsNamed ==
  ASSUME Inv, NEW w \in Writer, Insert(w)
  PROVE  /\ job[w] \in Adds
         /\ Predecessor(job[w]) \in Id \cup {0}
         /\ \A i \in Active : rows[i].slot = job[w].ask.slot => i \in Retired(job[w])
         /\ \A u \in Writer : job[u].step = "edit" => job[u].id \notin Retired(job[w])
  <1>1. job[w] \in Adds
    BY StepKinds DEF Inv, TypeOK, Insert
  <1>2. job[w].seen \in Id \cup {0}
    BY <1>1 DEF Adds
  <1>3. Predecessor(job[w]) \in Id \cup {0}
    BY <1>2, FindTyped DEF Predecessor, Inv
  <1>4. NameFree(job[w]) /\ Retired(job[w]) \cap Held = {}
    BY DEF Insert
  <1> QED  BY <1>1, <1>3, <1>4 DEF NameFree, Held

LEMMA InsertInv ==
  ASSUME Inv, NEW w \in Writer, Insert(w)
  PROVE  Inv'
  <1> USE DEF Inv
  <1> DEFINE j   == job[w]
             new == Len(rows) + 1
             gone == Retired(j)
             row == [slot |-> j.ask.slot, topic |-> j.ask.topic, type |-> j.ask.type,
                     active |-> TRUE, supersedes |-> Predecessor(j), attributes |-> {}]
  <1>1. j \in Adds /\ row \in Row
    BY FindsNamed DEF Row, Adds, Ask
  <1>2. rows' = Grown(rows, gone, row)
    BY DEF Insert, Grown
  <1>3. rows \in Seq(Row) /\ Len(rows) \in Nat /\ new \in Id
    BY RowsTyped, MemoryBounds DEF Insert, Id, TypeOK
  <1>4. \A i \in Active : rows[i].slot = row.slot => i \in gone
    BY FindsNamed
  <1>5. \A u \in Writer : job[u].step = "edit" => job[u].id \notin gone
    BY FindsNamed
  <1>6. row.active /\ row.attributes = {}
    OBVIOUS
  <1>7. \A u \in Writer : job'[u] =
          IF u = w THEN Idle
          ELSE IF job[u].step \in {"select", "insert"}
            THEN [job[u] EXCEPT !.missed = @ \cup {new}] ELSE job[u]
    BY DEF Insert
  <1>8. DOMAIN job' = Writer /\ job' = [u \in Writer |-> job'[u]]
    BY DEF Insert
  <1>9. excused' = excused \cup Excuses(j, new) /\ updated' = updated
    BY DEF Insert
  <1>10. Excuses(j, new) \subseteq Id \X Id
    BY <1>1, <1>3, RowsTyped DEF Excuses, Adds
  <1> HIDE DEF row, gone, new, j
  <1>11. /\ rows' \in Seq(Row) /\ Len(rows') = Len(rows) + 1
         /\ DOMAIN rows' = DOMAIN rows \cup {new} /\ new \notin DOMAIN rows
         /\ rows'[new] = row
         /\ \A i \in DOMAIN rows : /\ rows'[i].slot = rows[i].slot
                                   /\ rows'[i].attributes = rows[i].attributes
                                   /\ rows'[i].active <=> rows[i].active /\ i \notin gone
    <2>1. IsGrown(rows', rows, gone, row)
      BY <1>1, <1>2, <1>3, GrownFacts
    <2> QED  BY <2>1 DEF IsGrown, new
  <1>12. \A u \in Writer : job[u].step \in {"select", "insert"} =>
           LET m == [job[u] EXCEPT !.missed = @ \cup {new}]
           IN m \in Adds /\ m.step = job[u].step /\ m.ask = job[u].ask /\ m.seen = job[u].seen
    <2> SUFFICES ASSUME NEW u \in Writer, job[u].step \in {"select", "insert"}
                 PROVE  LET m == [job[u] EXCEPT !.missed = @ \cup {new}]
                        IN m \in Adds /\ m.step = job[u].step /\ m.ask = job[u].ask /\ m.seen = job[u].seen
      OBVIOUS
    <2>1. job[u] \in Adds
      BY StepKinds DEF TypeOK
    <2> QED  BY <1>3, <2>1 DEF Adds
  <1>13. \A u \in Writer : job'[u] \in {Idle} \cup Adds \cup Edits
    BY <1>7, <1>12 DEF TypeOK
  <1>14. Len(rows') \in 0..MaxRows
    BY <1>3, <1>11, MemoryBounds DEF Id, new
  <1>15. TypeOK'
    BY <1>8, <1>9, <1>10, <1>11, <1>13, <1>14 DEF TypeOK
  <1>16. Active' = (Active \ gone) \cup {new}
    BY <1>6, <1>11 DEF Active
  <1>17. UniqueNames'
    BY <1>4, <1>6, <1>11 DEF UniqueNames, UniqueIn, ActiveIn, Active
  <1>18. Idle.step = "idle"
    BY DEF Idle
  <1>19. AddsSane'
    <2> SUFFICES ASSUME NEW u \in Writer,
                        job'[u].step \in {"revision", "gate", "select", "insert"}
                 PROVE  LET k == job'[u]
                        IN /\ k.ask.choice.kind = "supersedes" =>
                                k.ask.choice.name # k.ask.slot[2] /\ k.seen = 0
                           /\ k.seen # 0 => k.seen \in DOMAIN rows' /\ rows'[k.seen].slot = k.ask.slot
      BY DEF AddsSane
    <2>1. /\ job'[u].step = job[u].step /\ job'[u].ask = job[u].ask /\ job'[u].seen = job[u].seen
      BY <1>7, <1>12, <1>18
    <2>2. LET k == job[u]
          IN /\ k.ask.choice.kind = "supersedes" => k.ask.choice.name # k.ask.slot[2] /\ k.seen = 0
             /\ k.seen # 0 => k.seen \in DOMAIN rows /\ rows[k.seen].slot = k.ask.slot
      BY <2>1 DEF AddsSane
    <2> QED  BY <1>11, <2>1, <2>2
  <1>20. \A u \in Writer : job'[u].step = "edit" => u # w /\ job'[u] = job[u]
    BY <1>7, <1>12, <1>18
  <1>21. EditsSane'
    BY <1>5, <1>11, <1>16, <1>20, RowsTyped DEF EditsSane
  <1>22. UpdatedExist'
    BY <1>9, <1>11 DEF UpdatedExist
  <1>23. KeysKept'
    BY <1>3, <1>6, <1>9, <1>11 DEF KeysKept, UpdatedExist
  <1> QED  BY <1>15, <1>17, <1>19, <1>21, <1>22, <1>23

LEMMA NextInv == Inv /\ [Next]_vars => Inv'
  <1> SUFFICES ASSUME Inv, [Next]_vars PROVE Inv'
    OBVIOUS
  <1>1. CASE UNCHANGED vars
    BY <1>1 DEF vars, Inv, TypeOK, UniqueNames, UniqueIn, ActiveIn, Active, AddsSane, EditsSane,
                UpdatedExist, KeysKept
  <1>2. CASE \E w \in Writer, a \in Asks : AddStart(w, a)
    BY <1>2, AddStartInv
  <1>3. CASE \E w \in Writer : Revision(w)
    BY <1>3, RevisionInv
  <1>4. CASE \E w \in Writer : Gate(w)
    BY <1>4, GateInv
  <1>5. CASE \E w \in Writer : Select(w)
    BY <1>5, SelectInv
  <1>6. CASE \E w \in Writer : Insert(w)
    BY <1>6, InsertInv
  <1>7. CASE \E w \in Writer : Rollback(w) \/ Abort(w)
    BY <1>7, RollbackInv
  <1>8. CASE \E w \in Writer : EditWrite(w)
    BY <1>8, EditWriteInv
  <1>9. CASE \E s \in Slot : Delete(s)
    BY <1>9, DeleteInv
  <1>10. CASE \E s \in Slot, w \in Writer : UpdateLock(w, s) \/ MarkLock(w, s)
    BY <1>10, LocksInv
  <1> QED  BY <1>1, <1>2, <1>3, <1>4, <1>5, <1>6, <1>7, <1>8, <1>9, <1>10
           DEF Next, AddCommand, UpdateCommand, DeleteCommand

LEMMA SpecInv == Spec => []Inv
  BY InitInv, NextInv, PTL DEF Spec

(* However commands overlap, what a committed update set on a row stays    *)
(* set: the lock is taken before the attributes are read.                  *)
THEOREM UpdatesKeepKeys == Spec => []KeysKept
  <1>1. Inv => KeysKept
    BY DEF Inv
  <1> QED  BY <1>1, SpecInv, PTL
-----------------------------------------------------------------------------
(* The refinement: what each slot stands for before and after a step.      *)
heads == [s \in Slot |-> FindActive(s)]

LEMMA HeadsNow ==
  ASSUME Inv
  PROVE  /\ heads = [s \in Slot |-> FindIn(rows, s)]
         /\ rows \in Seq(Row) /\ UniqueIn(rows)
  BY FindNow DEF heads, Inv, TypeOK, UniqueNames

LEMMA HeadsNext ==
  ASSUME Inv'
  PROVE  /\ heads' = [s \in Slot |-> FindIn(rows', s)]
         /\ rows' \in Seq(Row) /\ UniqueIn(rows')
  BY FindNext DEF heads, Inv, TypeOK, UniqueNames

(* A table that has the same active rows stands for the same. *)
LEMMA SameHeads ==
  ASSUME Inv, Inv', Active' = Active, \A i \in Active : rows'[i].slot = rows[i].slot
  PROVE  heads' = heads
  <1> SUFFICES ASSUME NEW s \in Slot PROVE FindIn(rows', s) = FindIn(rows, s)
    BY HeadsNow, HeadsNext
  <1>1. \A i \in ActiveIn(rows) : rows'[i].slot = rows[i].slot
    BY FindNow
  <1>2. ActiveIn(rows') = ActiveIn(rows)
    BY FindNow, FindNext
  <1>3. CASE \A i \in ActiveIn(rows) : rows[i].slot # s
    BY <1>1, <1>2, <1>3, FindNothing
  <1>4. CASE \E i \in ActiveIn(rows) : rows[i].slot = s
    BY <1>1, <1>2, <1>4, HeadsNow, HeadsNext, FindSomething
  <1> QED  BY <1>3, <1>4

LEMMA DeleteTakes ==
  ASSUME Inv, Inv', NEW s \in Slot, Delete(s)
  PROVE  /\ heads[s] # 0 /\ Len(rows') = Len(rows)
         /\ heads' = [heads EXCEPT ![s] = 0]
  <1> DEFINE i == FindActive(s)
  <1>1. i \in Active /\ i \in DOMAIN rows /\ rows[i].slot = s /\ i # 0
    BY FindTyped, RowsTyped DEF Delete, Inv
  <1>2. rows' = [rows EXCEPT ![i].active = FALSE]
    BY DEF Delete
  <1>3. heads[s] = i
    BY DEF heads
  <1> HIDE DEF i
  <1>4. \A k \in DOMAIN rows : rows[k] \in Row
    BY RowsTyped DEF Inv
  <1>5. DOMAIN rows' = DOMAIN rows /\ Len(rows') = Len(rows)
    BY <1>2, RowsTyped DEF Inv, TypeOK
  <1>6. \A k \in DOMAIN rows : rows'[k].slot = rows[k].slot
                               /\ (rows'[k].active <=> rows[k].active /\ k # i)
    BY <1>1, <1>2, <1>4 DEF Row
  <1>7. ActiveIn(rows') = ActiveIn(rows) \ {i}
    BY <1>5, <1>6 DEF ActiveIn
  <1>8. \A k \in ActiveIn(rows) : rows'[k].slot = rows[k].slot
    BY <1>6 DEF ActiveIn
  <1>9. i \in ActiveIn(rows)
    BY <1>1, FindNow
  <1>10. ASSUME NEW t \in Slot PROVE FindIn(rows', t) = IF t = s THEN 0 ELSE FindIn(rows, t)
    <2>1. CASE t = s
      <3>1. \A k \in ActiveIn(rows') : rows'[k].slot # t
        BY <1>1, <1>7, <1>8, <1>9, <2>1, HeadsNow DEF UniqueIn
      <3> QED  BY <2>1, <3>1, FindNothing
    <2>2. CASE t # s /\ \A k \in ActiveIn(rows) : rows[k].slot # t
      BY <1>7, <1>8, <2>2, FindNothing
    <2>3. CASE t # s /\ \E k \in ActiveIn(rows) : rows[k].slot = t
      <3>1. PICK k \in ActiveIn(rows) : rows[k].slot = t
        BY <2>3
      <3>2. k \in ActiveIn(rows') /\ rows'[k].slot = t
        BY <1>1, <1>7, <1>8, <2>3, <3>1
      <3> QED  BY <2>3, <3>1, <3>2, HeadsNow, HeadsNext, FindSomething
    <2> QED  BY <2>1, <2>2, <2>3
  <1> QED  BY <1>1, <1>3, <1>5, <1>10, HeadsNow, HeadsNext

(* What an add does to the names: its own is new, the one it supersedes is *)
(* free, and any other stands for what it did.                             *)
LEMMA InsertHeads ==
  ASSUME Inv, Inv', NEW w \in Writer, Insert(w)
  PROVE  LET j == job[w] IN
         /\ j \in Adds /\ Len(rows') = Len(rows) + 1
         /\ \A t \in Slot : heads'[t] = IF t = j.ask.slot THEN Len(rows) + 1
                                      ELSE IF heads[t] \in Retired(j) THEN 0 ELSE heads[t]
         /\ heads[j.ask.slot] = 0 \/ heads[j.ask.slot] \in Retired(j)
  <1> DEFINE j   == job[w]
             new == Len(rows) + 1
             gone == Retired(j)
             row == [slot |-> j.ask.slot, topic |-> j.ask.topic, type |-> j.ask.type,
                     active |-> TRUE, supersedes |-> Predecessor(j), attributes |-> {}]
  <1>1. j \in Adds /\ row \in Row
    BY FindsNamed DEF Row, Adds, Ask
  <1>2. rows' = Grown(rows, gone, row)
    BY DEF Insert, Grown
  <1>3. rows \in Seq(Row)
    BY DEF Inv, TypeOK
  <1>4. \A i \in ActiveIn(rows) : rows[i].slot = row.slot => i \in gone
    BY FindsNamed, FindNow
  <1>5. row.active /\ row.slot = j.ask.slot
    OBVIOUS
  <1>6. j.ask.slot \in Slot
    BY <1>1 DEF Adds, Ask
  <1> HIDE DEF row, gone
  <1>7. IsGrown(rows', rows, gone, row)
    BY <1>1, <1>2, <1>3, GrownFacts
  <1>8. ActiveIn(rows') = (ActiveIn(rows) \ gone) \cup {new}
    BY <1>5, <1>7 DEF IsGrown, ActiveIn
  <1>9. rows'[new].slot = j.ask.slot /\ Len(rows') = new
        /\ \A k \in ActiveIn(rows) : rows'[k].slot = rows[k].slot
    BY <1>5, <1>7 DEF IsGrown, ActiveIn
  <1> HIDE DEF new, j
  <1>10. ASSUME NEW t \in Slot
         PROVE  FindIn(rows', t) = IF t = j.ask.slot THEN new
                                   ELSE IF FindIn(rows, t) \in gone THEN 0 ELSE FindIn(rows, t)
    <2>1. CASE t = j.ask.slot
      BY <1>8, <1>9, <2>1, HeadsNext, FindSomething
    <2>2. CASE t # j.ask.slot /\ \A k \in ActiveIn(rows) : rows[k].slot # t
      BY <1>8, <1>9, <2>2, FindNothing
    <2>3. CASE t # j.ask.slot /\ \E k \in ActiveIn(rows) : rows[k].slot = t
      <3>1. PICK k \in ActiveIn(rows) : rows[k].slot = t
        BY <2>3
      <3>2. FindIn(rows, t) = k
        BY <3>1, HeadsNow, FindSomething
      <3>3. CASE k \in gone
        <4>1. \A m \in ActiveIn(rows') : rows'[m].slot # t
          BY <1>8, <1>9, <2>3, <3>1, <3>3, HeadsNow DEF UniqueIn
        <4> QED  BY <2>3, <3>2, <3>3, <4>1, FindNothing
      <3>4. CASE k \notin gone
        BY <1>8, <1>9, <2>3, <3>1, <3>2, <3>4, HeadsNext, FindSomething
      <3> QED  BY <3>3, <3>4
    <2> QED  BY <2>1, <2>2, <2>3
  <1>11. FindIn(rows, j.ask.slot) = 0 \/ FindIn(rows, j.ask.slot) \in gone
    BY <1>3, <1>4, <1>5, FindFacts
  <1> QED  BY <1>1, <1>6, <1>9, <1>10, <1>11, HeadsNow, HeadsNext DEF j, new, gone

LEMMA InsertGives ==
  ASSUME Inv, Inv', NEW w \in Writer, Insert(w), job[w].ask.choice.kind # "supersedes"
  PROVE  /\ job[w].ask.slot \in Slot /\ Len(rows') = Len(rows) + 1
         /\ heads' = [heads EXCEPT ![job[w].ask.slot] = Len(rows) + 1]
  <1> DEFINE j == job[w]
  <1>1. Retired(j) = {j.seen} /\ j.step = "insert"
    BY DEF Retired, Insert
  <1>2. j \in Adds /\ j.ask.slot \in Slot
    BY InsertHeads DEF Adds, Ask
  <1>3. j.seen = 0 \/ (j.seen \in DOMAIN rows /\ rows[j.seen].slot = j.ask.slot)
    BY <1>1 DEF Inv, AddsSane
  <1>4. \A t \in Slot : heads[t] = 0 \/ rows[heads[t]].slot = t
    BY HeadsNow, FindFacts
  <1>5. \A t \in Slot : t # j.ask.slot /\ heads[t] \in Retired(j) => heads[t] = 0
    BY <1>1, <1>3, <1>4
  <1> HIDE DEF j
  <1>6. \A t \in Slot : heads'[t] = IF t = j.ask.slot THEN Len(rows) + 1 ELSE heads[t]
    BY <1>5, InsertHeads DEF j
  <1> QED  BY <1>2, <1>6, InsertHeads, HeadsNow, HeadsNext DEF j

LEMMA InsertReplaces ==
  ASSUME Inv, Inv', NEW w \in Writer, Insert(w), job[w].ask.choice.kind = "supersedes"
  PROVE  LET j == job[w]
             other == <<j.ask.slot[1], j.ask.choice.name>>
         IN /\ j.ask.slot \in Slot /\ other \in Slot /\ other # j.ask.slot
            /\ Len(rows') = Len(rows) + 1
            /\ heads[j.ask.slot] = 0 /\ heads[other] # 0
            /\ heads' = [heads EXCEPT ![j.ask.slot] = Len(rows) + 1, ![other] = 0]
  <1> DEFINE j == job[w]
             other == <<j.ask.slot[1], j.ask.choice.name>>
  <1>1. j \in Adds /\ j.step = "insert"
    BY InsertHeads DEF Insert
  <1>2. j.ask \in Ask /\ j.ask.slot \in Slot /\ j.ask.choice \in Choice
    BY <1>1 DEF Adds, Ask
  <1>3. j.ask.choice.name \in Name /\ other \in Slot
    BY <1>2 DEF Choice, Slot
  <1>4. j.ask.choice.name # j.ask.slot[2] /\ j.seen = 0
    BY <1>1 DEF Inv, AddsSane
  <1>5. other # j.ask.slot
    BY <1>4
  <1>6. FindActive(other) # 0 /\ Retired(j) = {0, FindActive(other)}
    BY <1>4 DEF Insert, Predecessor, Retired
  <1>7. heads[other] = FindActive(other)
    BY <1>3 DEF heads
  <1>8. \A t \in Slot : heads[t] = 0 \/ rows[heads[t]].slot = t
    BY HeadsNow, FindFacts
  <1> HIDE DEF j, other
  <1>9. \A t \in Slot : heads[t] \in Retired(j) <=> heads[t] = 0 \/ t = other
    BY <1>3, <1>6, <1>7, <1>8
  <1>10. heads[j.ask.slot] = 0
    BY <1>2, <1>5, <1>9, InsertHeads DEF j
  <1>11. \A t \in Slot : heads'[t] = IF t = j.ask.slot THEN Len(rows) + 1
                                     ELSE IF t = other THEN 0 ELSE heads[t]
    BY <1>9, InsertHeads DEF j
  <1>12. heads' = [heads EXCEPT ![j.ask.slot] = Len(rows) + 1, ![other] = 0]
    BY <1>2, <1>3, <1>5, <1>11, HeadsNow, HeadsNext
  <1> QED  BY <1>2, <1>3, <1>5, <1>6, <1>7, <1>10, <1>12, InsertHeads DEF j, other

LEMMA EditKeepsHeads ==
  ASSUME Inv, Inv', NEW w \in Writer, EditWrite(w)
  PROVE  heads' = heads /\ Len(rows') = Len(rows)
  <1> DEFINE e == job[w]
  <1>1. rows' = [rows EXCEPT ![e.id].attributes = e.keys, ![e.id].topic = e.topic]
    BY DEF EditWrite
  <1> HIDE DEF e
  <1>2. \A k \in DOMAIN rows : rows[k] \in Row
    BY RowsTyped DEF Inv
  <1>3. DOMAIN rows' = DOMAIN rows /\ Len(rows') = Len(rows)
    BY <1>1, RowsTyped DEF Inv, TypeOK
  <1>4. \A k \in DOMAIN rows : rows'[k].slot = rows[k].slot
                               /\ (rows'[k].active <=> rows[k].active)
    BY <1>1, <1>2 DEF Row
  <1>5. Active' = Active /\ \A k \in Active : rows'[k].slot = rows[k].slot
    BY <1>3, <1>4 DEF Active
  <1> QED  BY <1>3, <1>5, SameHeads

LEMMA StepRefines ==
  ASSUME Inv, Inv', [Next]_vars
  PROVE  [Table!Next]_<<heads, Len(rows)>>
  <1>1. CASE rows' = rows
    BY <1>1 DEF heads, FindActive, Active
  <1>2. CASE \E w \in Writer : Insert(w)
    <2>1. PICK w \in Writer : Insert(w)
      BY <1>2
    <2>2. CASE job[w].ask.choice.kind # "supersedes"
      <3>1. Table!Give(job[w].ask.slot) /\ job[w].ask.slot \in Slot
        BY <2>1, <2>2, InsertGives DEF Table!Give, heads
      <3> QED  BY <3>1 DEF Table!Next
    <2>3. CASE job[w].ask.choice.kind = "supersedes"
      <3> DEFINE s == job[w].ask.slot
                 other == <<job[w].ask.slot[1], job[w].ask.choice.name>>
      <3>1. Table!Replace(s, other) /\ s \in Slot /\ other \in Slot
        BY <2>1, <2>3, InsertReplaces DEF Table!Replace, heads
      <3> HIDE DEF s, other
      <3> QED  BY <3>1 DEF Table!Next
    <2> QED  BY <2>2, <2>3
  <1>3. CASE \E w \in Writer : EditWrite(w)
    BY <1>3, EditKeepsHeads DEF heads
  <1>4. CASE \E s \in Slot : Delete(s)
    <2>1. PICK s \in Slot : Delete(s)
      BY <1>4
    <2>2. Table!Take(s)
      BY <2>1, DeleteTakes DEF Table!Take, heads
    <2> QED  BY <2>2 DEF Table!Next
  <1>5. CASE \E w \in Writer : Revision(w) \/ Gate(w) \/ Select(w) \/ Rollback(w) \/ Abort(w)
    BY <1>1, <1>5 DEF Revision, Gate, Select, Rollback, Abort
  <1>6. CASE \E w \in Writer, a \in Asks : AddStart(w, a)
    BY <1>1, <1>6 DEF AddStart
  <1>7. CASE \E s \in Slot, w \in Writer : UpdateLock(w, s) \/ MarkLock(w, s)
    BY <1>1, <1>7 DEF UpdateLock, MarkLock, EditLock
  <1>8. CASE UNCHANGED vars
    BY <1>1, <1>8 DEF vars
  <1> QED  BY <1>2, <1>3, <1>4, <1>5, <1>6, <1>7, <1>8
           DEF Next, AddCommand, UpdateCommand, DeleteCommand

(* The memory commands, however they overlap, keep tables of names: every  *)
(* step gives a name a memory newer than all others, in place of at most   *)
(* one other name, or takes a name away, or changes no name.               *)
THEOREM MemoryIsNameTable == Spec => ImplementsNameTable
  <1>1. Init => Table!Init
    <2> SUFFICES ASSUME Init PROVE Table!Init
      OBVIOUS
    <2>1. Active = {} /\ Len(rows) = 0
      BY DEF Init, Active
    <2> QED  BY <2>1 DEF Table!Init, FindActive
  <1>2. Inv /\ Inv' /\ [Next]_vars => [Table!Next]_<<heads, Len(rows)>>
    BY StepRefines
  <1> QED  BY <1>1, <1>2, SpecInv, PTL DEF Spec, ImplementsNameTable, Table!Spec, heads

(* Two rows of one tier never are active under one name. *)
THEOREM NamesUnique == Spec => []UniqueNames
  <1>1. Inv => UniqueNames
    BY DEF Inv
  <1> QED  BY <1>1, SpecInv, PTL
-----------------------------------------------------------------------------
(* What a composed recall shows. *)

(* A set of numbers that is not empty has a least one. *)
LEMMA NatMin ==
  ASSUME NEW T \in SUBSET Nat, T # {}
  PROVE  \E x \in T : \A y \in T : x <= y
  <1> DEFINE R == OpToRel(<, Nat)
  <1>1. IsWellFoundedOn(R, Nat)
    BY NatLessThanWellFounded
  <1>2. PICK x \in T : \A y \in T : <<y, x>> \notin R
    <2> HIDE DEF R
    <2> QED  BY <1>1, WFMin
  <1>3. \A y \in T : ~(y < x)
    BY <1>2 DEF OpToRel
  <1> QED  BY <1>3

(* Of some rows that exist, one is of the most specific tier. *)
LEMMA MostSpecific ==
  ASSUME TypeOK, NEW S \in SUBSET DOMAIN rows, S # {}
  PROVE  \E i \in S : \A j \in S : rows[i].slot[1] <= rows[j].slot[1]
  <1> DEFINE T == {rows[i].slot[1] : i \in S}
  <1>1. \A i \in S : rows[i].slot[1] \in Nat
    BY RowsTyped, MemoryBounds DEF Row, Slot, Tier
  <1>2. T \in SUBSET Nat /\ T # {}
    BY <1>1
  <1>3. PICK x \in T : \A y \in T : x <= y
    BY <1>2, NatMin
  <1> QED  BY <1>3

(* Whatever the search of each tier cuts off and however it scores, a      *)
(* composed recall shows the most specific row of a name that may be       *)
(* shown: if the search lost it, the lookup of the name finds it again.    *)
THEOREM RecallsMostSpecific == Spec => []RecallMostSpecific
  <1>1. Inv => RecallMostSpecific
    <2> SUFFICES ASSUME Inv, NEW policy \in {"exclude", "demote"},
                        NEW found \in SUBSET Allowed(policy), NEW top \in found
                 PROVE  LET i == Winner(found, top, policy)
                        IN i \in SearchMemoryComposed(policy) /\ rows[i].slot[2] = rows[top].slot[2]
      BY DEF RecallMostSpecific
    <2> DEFINE merged == {i \in found : rows[i].slot[2] = rows[top].slot[2]}
                           \cup Recovered(found, top, policy)
               Least(i) == \A j \in merged : rows[i].slot[1] <= rows[j].slot[1]
    <2>1. TypeOK /\ Allowed(policy) \subseteq DOMAIN rows
      BY RowsTyped DEF Inv, Allowed
    <2>2. /\ merged \subseteq Allowed(policy) /\ top \in merged
          /\ \A j \in merged : rows[j].slot[2] = rows[top].slot[2]
      BY DEF Recovered, ActiveByName
    <2>3. \E i \in merged : Least(i)
      BY <2>1, <2>2, MostSpecific
    <2>4. Winner(found, top, policy) = CHOOSE i \in merged : Least(i)
      BY DEF Winner
    <2>5. Winner(found, top, policy) \in merged /\ Least(Winner(found, top, policy))
      BY <2>3, <2>4
    <2>6. PICK i : i = Winner(found, top, policy)
      OBVIOUS
    <2>7. i \in merged /\ rows[i].slot[1] <= rows[top].slot[1]
      BY <2>2, <2>5, <2>6
    <2>8. \A j \in DOMAIN rows : rows[j].slot[1] \in Nat
      BY <2>1, RowsTyped, MemoryBounds DEF Row, Slot, Tier
    <2>9. ASSUME NEW j \in Allowed(policy), rows[j].slot[2] = rows[top].slot[2]
          PROVE  rows[i].slot[1] <= rows[j].slot[1]
      <3>1. CASE j \in merged
        BY <2>5, <2>6, <3>1
      <3>2. CASE j \notin merged
        <4>1. ~(rows[j].slot[1] < rows[top].slot[1])
          BY <2>9, <3>2 DEF Recovered, ActiveByName, Allowed
        <4> HIDE DEF merged
        <4> QED  BY <2>1, <2>2, <2>7, <2>8, <4>1
      <3> QED  BY <3>1, <3>2
    <2> HIDE DEF merged
    <2>10. i \in Allowed(policy) /\ rows[i].slot[2] = rows[top].slot[2]
      BY <2>2, <2>7
    <2> QED  BY <2>6, <2>9, <2>10 DEF SearchMemoryComposed
  <1> QED  BY <1>1, SpecInv, PTL
-----------------------------------------------------------------------------
(* The gate's answer until the insert: a row that the new one rivals was   *)
(* named, came after the gate, or had its body edited.                     *)
Rival(r, i, a) ==
  /\ r[i].slot[1] >= a.slot[1] /\ r[i].slot # a.slot
  /\ \/ r[i].topic = a.topic /\ r[i].type = "fact"
     \/ r[i].slot[2] = a.slot[2]

Answered(r, active, j, told) ==
  \/ j.revision \/ j.ask.choice.kind = "distinct" \/ j.ask.type = "reflection"
  \/ \A i \in active : Rival(r, i, j.ask) =>
       i \in j.answered \cup j.missed \/ \A n \in Id : <<i, n>> \in told

Gated ==
  \A w \in Writer : job[w].step \in {"select", "insert"} => Answered(rows, Active, job[w], excused)

GateInvariant == Gated /\ DuplicatesDeclared

(* A step that adds no row: no row turns active, changes its tier, its     *)
(* name or its type, nor its topic unless all its pairs are excused, and   *)
(* whoever is past the gate was.                                           *)
LEMMA NoRowAdded ==
  ASSUME Inv, GateInvariant, Active' \subseteq Active, excused \subseteq excused',
         \A i \in Active' :
           /\ rows'[i].slot = rows[i].slot /\ rows'[i].type = rows[i].type
           /\ \/ rows'[i].topic = rows[i].topic
              \/ \A n \in Id : <<i, n>> \in excused' /\ <<n, i>> \in excused',
         \A w \in Writer : job'[w].step \in {"select", "insert"} =>
           Answered(rows, Active, job'[w], excused)
  PROVE  GateInvariant'
  <1>1. Active' \subseteq Id
    BY RowsTyped DEF Inv
  <1>2. Gated'
    <2> SUFFICES ASSUME NEW w \in Writer, job'[w].step \in {"select", "insert"}
                 PROVE  Answered(rows', Active', job'[w], excused')
      BY DEF Gated
    <2>1. Answered(rows, Active, job'[w], excused)
      OBVIOUS
    <2>2. \A i \in Active' : Rival(rows', i, job'[w].ask) =>
            Rival(rows, i, job'[w].ask) \/ \A n \in Id : <<i, n>> \in excused'
      BY DEF Rival
    <2> QED  BY <2>1, <2>2 DEF Answered
  <1>3. DuplicatesDeclared'
    BY <1>1 DEF DuplicatesDeclared, GateInvariant
  <1> QED  BY <1>2, <1>3 DEF GateInvariant

(* One command's own progress. *)
LEMMA GateProgress ==
  ASSUME Inv, GateInvariant, UNCHANGED <<rows, excused>>, NEW w \in Writer, NEW j,
         job' = [job EXCEPT ![w] = j],
         j.step \in {"select", "insert"} => Answered(rows, Active, j, excused)
  PROVE  GateInvariant'
  <1>1. \A u \in Writer : job'[u] = IF u = w THEN j ELSE job[u]
    BY DEF Inv, TypeOK
  <1>2. Active' = Active
    BY DEF Active
  <1>3. \A u \in Writer : job'[u].step \in {"select", "insert"} =>
          Answered(rows, Active, job'[u], excused)
    BY <1>1 DEF GateInvariant, Gated
  <1> QED  BY <1>2, <1>3, NoRowAdded

LEMMA GateAnswers ==
  ASSUME Inv, GateInvariant, NEW w \in Writer, Gate(w)
  PROVE  GateInvariant'
  <1> DEFINE a == job[w].ask
             related  == IF a.choice.kind = "related" THEN Related(a) ELSE {}
             blocking == IF job[w].revision \/ a.type = "reflection" THEN {} ELSE DedupCandidates(a)
             answered == job[w].answered \cup related
             j == [job[w] EXCEPT !.step = "select", !.answered = answered]
  <1>1. job[w] \in Adds
    BY StepKinds DEF Inv, TypeOK, Gate
  <1>2. /\ UNCHANGED <<rows, excused>>
        /\ \/ job' = [job EXCEPT ![w] = Idle]
           \/ /\ job' = [job EXCEPT ![w] = j]
              /\ a.choice.kind # "distinct" => blocking \subseteq answered
    BY DEF Gate, Finish, Inv, TypeOK
  <1>3. j.ask = a /\ j.revision = job[w].revision /\ j.answered = answered
    BY <1>1 DEF Adds
  <1>4. \A i \in Active : Rival(rows, i, a) => i \in DedupCandidates(a)
    BY DEF Rival, DedupCandidates, InScope
  <1>5. Idle.step \notin {"select", "insert"}
    BY DEF Idle
  <1>6. CASE job' = [job EXCEPT ![w] = Idle]
    BY <1>2, <1>5, <1>6, GateProgress
  <1>7. CASE /\ job' = [job EXCEPT ![w] = j]
             /\ a.choice.kind # "distinct" => blocking \subseteq answered
    <2> HIDE DEF j, answered
    <2>1. Answered(rows, Active, j, excused)
      BY <1>3, <1>4, <1>7 DEF Answered
    <2> QED  BY <1>2, <1>7, <2>1, GateProgress
  <1> QED  BY <1>2, <1>6, <1>7

LEMMA SelectAnswers ==
  ASSUME Inv, GateInvariant, NEW w \in Writer, Select(w)
  PROVE  GateInvariant'
  <1> DEFINE j == [job[w] EXCEPT !.step = "insert", !.seen = FindActive(job[w].ask.slot)]
  <1>1. job[w] \in Adds /\ job[w].step = "select"
    BY StepKinds DEF Inv, TypeOK, Select
  <1>2. /\ UNCHANGED <<rows, excused>>
        /\ job' = [job EXCEPT ![w] = Idle] \/ job' = [job EXCEPT ![w] = j]
    BY DEF Select, Finish, Inv, TypeOK
  <1>3. j.ask = job[w].ask /\ j.revision = job[w].revision /\ j.answered = job[w].answered
        /\ j.missed = job[w].missed
    BY <1>1 DEF Adds
  <1> HIDE DEF j
  <1>4. Answered(rows, Active, j, excused)
    BY <1>1, <1>3 DEF GateInvariant, Gated, Answered
  <1>5. Idle.step \notin {"select", "insert"}
    BY DEF Idle
  <1> QED  BY <1>2, <1>4, <1>5, GateProgress

LEMMA OthersAnswer ==
  ASSUME Inv, GateInvariant, NEW w \in Writer, NEW a,
         AddStart(w, a) \/ Revision(w) \/ Rollback(w) \/ Abort(w)
  PROVE  GateInvariant'
  <1>1. Idle.step = "idle"
    BY DEF Idle
  <1>2. CASE AddStart(w, a)
    <2> DEFINE sup   == a.choice.kind = "supersedes" /\ a.choice.name # a.slot[2]
               hit   == IF sup THEN FindActive(<<a.slot[1], a.choice.name>>) ELSE 0
               bound == IF sup \/ a.choice.kind # "supersedes" THEN a
                        ELSE [a EXCEPT !.choice = [kind |-> "none"]]
               j     == [step |-> "revision", ask |-> bound, answered |-> {hit} \ {0},
                         revision |-> FALSE, seen |-> 0, missed |-> {}]
    <2>1. job' = [job EXCEPT ![w] = j] /\ UNCHANGED <<rows, excused>>
      BY <1>2 DEF AddStart
    <2>2. j.step = "revision"
      OBVIOUS
    <2> HIDE DEF j
    <2> QED  BY <2>1, <2>2, GateProgress
  <1>3. CASE Revision(w)
    <2> DEFINE j == [job[w] EXCEPT !.step = "gate", !.revision = FindActive(job[w].ask.slot) # 0]
    <2>1. job[w] \in Adds
      BY <1>3, StepKinds DEF Inv, TypeOK, Revision
    <2>2. j.step = "gate"
      BY <2>1 DEF Adds
    <2>3. UNCHANGED <<rows, excused>>
          /\ (job' = [job EXCEPT ![w] = Idle] \/ job' = [job EXCEPT ![w] = j])
      BY <1>3 DEF Revision, Finish, Inv, TypeOK
    <2> HIDE DEF j
    <2> QED  BY <1>1, <2>2, <2>3, GateProgress
  <1>4. CASE Rollback(w) \/ Abort(w)
    BY <1>1, <1>4, GateProgress DEF Rollback, Abort, Finish
  <1> QED  BY <1>2, <1>3, <1>4
-----------------------------------------------------------------------------
LEMMA LocksAnswer ==
  ASSUME Inv, GateInvariant, NEW w \in Writer, NEW s \in Slot, UpdateLock(w, s) \/ MarkLock(w, s)
  PROVE  GateInvariant'
  <1>1. PICK set, t : EditLock(w, s, set, t)
    BY DEF UpdateLock, MarkLock
  <1> DEFINE i == FindActive(s)
             j == [step |-> "edit", id |-> i, set |-> set,
                   keys |-> rows[i].attributes \cup set, topic |-> t]
  <1>2. job' = [job EXCEPT ![w] = j] /\ UNCHANGED <<rows, excused>>
    BY <1>1 DEF EditLock
  <1>3. j.step = "edit"
    OBVIOUS
  <1> HIDE DEF j
  <1> QED  BY <1>2, <1>3, GateProgress

LEMMA DeleteAnswers ==
  ASSUME Inv, GateInvariant, NEW s \in Slot, Delete(s)
  PROVE  GateInvariant'
  <1> DEFINE i == FindActive(s)
  <1>1. i \in DOMAIN rows
    BY FindTyped, RowsTyped DEF Delete, Inv
  <1>2. rows' = [rows EXCEPT ![i].active = FALSE] /\ UNCHANGED <<job, excused>>
    BY DEF Delete
  <1> HIDE DEF i
  <1>3. \A k \in DOMAIN rows : rows[k] \in Row
    BY RowsTyped DEF Inv
  <1>4. DOMAIN rows' = DOMAIN rows
    BY <1>2, RowsTyped DEF Inv, TypeOK
  <1>5. \A k \in DOMAIN rows : /\ rows'[k].slot = rows[k].slot /\ rows'[k].topic = rows[k].topic
                               /\ rows'[k].type = rows[k].type
                               /\ rows'[k].active => rows[k].active
    BY <1>1, <1>2, <1>3 DEF Row
  <1>6. Active' \subseteq Active
    BY <1>4, <1>5 DEF Active
  <1>7. \A u \in Writer : job'[u].step \in {"select", "insert"} =>
          Answered(rows, Active, job'[u], excused)
    BY <1>2 DEF GateInvariant, Gated
  <1>8. \A k \in Active' : k \in DOMAIN rows
    BY <1>4 DEF Active
  <1> QED  BY <1>2, <1>5, <1>6, <1>7, <1>8, NoRowAdded

LEMMA EditAnswers ==
  ASSUME Inv, GateInvariant, NEW w \in Writer, EditWrite(w)
  PROVE  GateInvariant'
  <1> DEFINE e == job[w]
  <1>1. e.id \in DOMAIN rows /\ e.id \in Id
    BY RowsTyped DEF EditWrite, EditsSane, Inv
  <1>2. /\ rows' = [rows EXCEPT ![e.id].attributes = e.keys, ![e.id].topic = e.topic]
        /\ job' = [job EXCEPT ![w] = Idle]
        /\ excused' = excused \cup (IF e.topic = rows[e.id].topic THEN {}
                                    ELSE (Id \X {e.id}) \cup ({e.id} \X Id))
    BY DEF EditWrite, Finish
  <1> HIDE DEF e
  <1>3. \A k \in DOMAIN rows : rows[k] \in Row
    BY RowsTyped DEF Inv
  <1>4. DOMAIN rows' = DOMAIN rows
    BY <1>2, RowsTyped DEF Inv, TypeOK
  <1>5. \A k \in DOMAIN rows : /\ rows'[k].slot = rows[k].slot /\ rows'[k].type = rows[k].type
                               /\ rows'[k].active => rows[k].active
                               /\ rows'[k].topic = IF k = e.id THEN e.topic ELSE rows[k].topic
    BY <1>1, <1>2, <1>3 DEF Row
  <1>6. Active' \subseteq Active
    BY <1>4, <1>5 DEF Active
  <1>7. \A k \in Active' : k \in DOMAIN rows
    BY <1>4 DEF Active
  <1>8. ASSUME NEW k \in Active'
        PROVE  \/ rows'[k].topic = rows[k].topic
               \/ \A n \in Id : <<k, n>> \in excused' /\ <<n, k>> \in excused'
    BY <1>2, <1>5, <1>7
  <1>9. \A u \in Writer : job'[u] = IF u = w THEN Idle ELSE job[u]
    BY <1>2 DEF Inv, TypeOK
  <1>10. \A u \in Writer : job'[u].step \in {"select", "insert"} =>
           Answered(rows, Active, job'[u], excused)
    BY <1>9 DEF GateInvariant, Gated, Idle
  <1>11. excused \subseteq excused'
    BY <1>2
  <1> QED  BY <1>5, <1>6, <1>7, <1>8, <1>10, <1>11, NoRowAdded
-----------------------------------------------------------------------------
LEMMA InsertAnswers ==
  ASSUME Inv, GateInvariant, NEW w \in Writer, Insert(w)
  PROVE  GateInvariant'
  <1> DEFINE j   == job[w]
             new == Len(rows) + 1
             gone == Retired(j)
             row == [slot |-> j.ask.slot, topic |-> j.ask.topic, type |-> j.ask.type,
                     active |-> TRUE, supersedes |-> Predecessor(j), attributes |-> {}]
  <1>1. j \in Adds /\ row \in Row /\ j.step = "insert"
    BY FindsNamed DEF Row, Adds, Ask, Insert
  <1>2. rows' = Grown(rows, gone, row)
    BY DEF Insert, Grown
  <1>3. rows \in Seq(Row) /\ new \in Id /\ Len(rows) \in Nat
    BY RowsTyped, MemoryBounds DEF Insert, Id, Inv, TypeOK
  <1>4. \A i \in Active : rows[i].slot = j.ask.slot => i \in gone
    BY FindsNamed
  <1>5. row.slot = j.ask.slot /\ row.topic = j.ask.topic /\ row.type = j.ask.type
    OBVIOUS
  <1>6. \A u \in Writer : job'[u] =
          IF u = w THEN Idle
          ELSE IF job[u].step \in {"select", "insert"}
            THEN [job[u] EXCEPT !.missed = @ \cup {new}] ELSE job[u]
    BY DEF Insert
  <1>7. excused' = excused \cup Excuses(j, new)
    BY DEF Insert
  <1>8. new \notin DOMAIN rows /\ \A i \in DOMAIN rows : i < new
    BY <1>3, RowsTyped DEF Inv
  <1> HIDE DEF row, gone, new, j
  <1>9. IsGrown(rows', rows, gone, row)
    BY <1>1, <1>2, <1>3, GrownFacts
  <1>10. /\ Active' \subseteq (Active \ gone) \cup {new} /\ rows'[new] = row
         /\ \A i \in Active : /\ rows'[i].slot = rows[i].slot /\ rows'[i].topic = rows[i].topic
                              /\ rows'[i].type = rows[i].type
    BY <1>9 DEF IsGrown, Active, new
  <1>11. Active \subseteq DOMAIN rows
    BY DEF Active
  <1>12. ASSUME NEW u \in Writer, job'[u].step \in {"select", "insert"}
         PROVE  Answered(rows', Active', job'[u], excused')
    <2>1. u # w /\ job[u].step \in {"select", "insert"}
          /\ job'[u] = [job[u] EXCEPT !.missed = @ \cup {new}]
      BY <1>6, <1>12 DEF Idle
    <2>2. job[u] \in Adds
      BY <2>1, StepKinds DEF Inv, TypeOK
    <2>3. /\ job'[u].ask = job[u].ask /\ job'[u].revision = job[u].revision
          /\ job'[u].answered = job[u].answered /\ job'[u].missed = job[u].missed \cup {new}
      BY <2>1, <2>2 DEF Adds
    <2>4. Answered(rows, Active, job[u], excused)
      BY <2>1 DEF GateInvariant, Gated
    <2>5. \A i \in Active : Rival(rows', i, job[u].ask) <=> Rival(rows, i, job[u].ask)
      BY <1>10 DEF Rival
    <2> QED  BY <1>7, <1>10, <2>3, <2>4, <2>5 DEF Answered
  <1>13. ASSUME NEW i \in Active, i \notin gone, row.type = "fact",
                rows[i].slot[1] >= row.slot[1],
                \/ rows[i].type = "fact" /\ rows[i].topic = row.topic
                \/ rows[i].slot[2] = row.slot[2]
         PROVE  <<i, new>> \in excused'
    <2>1. Rival(rows, i, j.ask)
      BY <1>4, <1>5, <1>13 DEF Rival
    <2>2. Answered(rows, Active, j, excused)
      BY <1>1 DEF GateInvariant, Gated, j
    <2>3. i \in DOMAIN rows
      BY <1>11
    <2>4. CASE j.revision \/ j.ask.choice.kind = "distinct" \/ j.ask.type = "reflection"
      BY <1>7, <2>3, <2>4 DEF Excuses
    <2>5. CASE /\ ~(j.revision \/ j.ask.choice.kind = "distinct" \/ j.ask.type = "reflection")
               /\ i \in j.answered \cup j.missed
      BY <1>7, <2>5 DEF Excuses
    <2>6. CASE \A n \in Id : <<i, n>> \in excused
      BY <1>3, <1>7, <2>6
    <2> QED  BY <2>1, <2>2, <2>4, <2>5, <2>6 DEF Answered
  <1>14. DuplicatesDeclared'
    <2> SUFFICES ASSUME NEW i \in Active', NEW k \in Active', k < i,
                        rows'[k].slot[1] >= rows'[i].slot[1], rows'[i].type = "fact",
                        \/ rows'[k].type = "fact" /\ rows'[k].topic = rows'[i].topic
                        \/ rows'[k].slot[2] = rows'[i].slot[2]
                 PROVE  <<k, i>> \in excused'
      BY DEF DuplicatesDeclared
    <2>1. CASE i = new
      <3>1. k \in Active /\ k \notin gone
        BY <1>3, <1>10, <2>1 DEF Id
      <3> QED  BY <1>10, <1>13, <2>1, <3>1
    <2>2. CASE i # new
      <3>1. i \in Active /\ k \in Active
        BY <1>8, <1>10, <1>11, <1>3, <2>2, RowsTyped DEF Id, Inv
      <3>2. <<k, i>> \in excused
        BY <1>10, <3>1 DEF DuplicatesDeclared, GateInvariant
      <3> QED  BY <1>7, <3>2
    <2> QED  BY <2>1, <2>2
  <1> QED  BY <1>12, <1>14 DEF GateInvariant, Gated

LEMMA NextAnswers == Inv /\ GateInvariant /\ [Next]_vars => GateInvariant'
  <1> SUFFICES ASSUME Inv, GateInvariant, [Next]_vars PROVE GateInvariant'
    OBVIOUS
  <1>1. CASE UNCHANGED vars
    BY <1>1 DEF vars, GateInvariant, Gated, DuplicatesDeclared, Active
  <1>2. CASE \E w \in Writer, a \in Asks : AddStart(w, a)
    BY <1>2, OthersAnswer
  <1>3. CASE \E w \in Writer : Revision(w) \/ Rollback(w) \/ Abort(w)
    <2>1. PICK w \in Writer : Revision(w) \/ Rollback(w) \/ Abort(w)
      BY <1>3
    <2>2. job[w] \in Adds \/ Abort(w)
      BY <2>1, StepKinds DEF Inv, TypeOK, Revision, Rollback
    <2> QED  BY <2>1, OthersAnswer
  <1>4. CASE \E w \in Writer : Gate(w)
    BY <1>4, GateAnswers
  <1>5. CASE \E w \in Writer : Select(w)
    BY <1>5, SelectAnswers
  <1>6. CASE \E w \in Writer : Insert(w)
    BY <1>6, InsertAnswers
  <1>7. CASE \E w \in Writer : EditWrite(w)
    BY <1>7, EditAnswers
  <1>8. CASE \E s \in Slot : Delete(s)
    BY <1>8, DeleteAnswers
  <1>9. CASE \E s \in Slot, w \in Writer : UpdateLock(w, s) \/ MarkLock(w, s)
    BY <1>9, LocksAnswer
  <1> QED  BY <1>1, <1>2, <1>3, <1>4, <1>5, <1>6, <1>7, <1>8, <1>9
           DEF Next, AddCommand, UpdateCommand, DeleteCommand

(* However adds, edits and deletes overlap, two facts that the gate would  *)
(* keep apart stand side by side only where a writer said so, where one    *)
(* was added behind the other's gate, or where a body was edited since.    *)
THEOREM DuplicatesAreDeclared == Spec => []DuplicatesDeclared
  <1>1. Init => GateInvariant
    BY DEF Init, GateInvariant, Gated, DuplicatesDeclared, Active, Idle
  <1>2. GateInvariant => DuplicatesDeclared
    BY DEF GateInvariant
  <1> QED  BY <1>1, <1>2, NextAnswers, SpecInv, PTL DEF Spec
=============================================================================
