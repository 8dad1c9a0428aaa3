------------------------------- MODULE Memory -------------------------------
(* Memories of one workspace in tiers, the most specific first: the add    *)
(* command with its reads of the target and parent tiers, its gate against *)
(* duplicates and its transaction; delete; update and mark_gaps_filed; and *)
(* what a composed recall returns.  Commands of several writers interleave *)
(* between transactions, and inside them as their row locks allow.         *)
EXTENDS Naturals, Sequences, FiniteSets

CONSTANTS
  Writer,
  Tiers,     \* how many: 1 is the repo, then the VM, then global
  Name,
  Topic,     \* bodies with one topic are similar enough to be gated
  Attribute, \* keys of the attributes
  MaxRows,   \* bound: rows ever added, with those being added
  MaxEdited, \* bound: the rows that are edited in place are the first ones
  Asks       \* bound: the adds that are asked for

(* The gate looks at the five nearest facts: fewer rows are all looked at. *)
ASSUME MemoryBounds == Tiers \in Nat /\ MaxRows \in 1..5

Tier  == 1..Tiers
Id    == 1..MaxRows
Slot  == Tier \X Name
Row   == [slot : Slot, topic : Topic, type : {"fact", "reflection"}, active : BOOLEAN,
          supersedes : Id \cup {0}, attributes : SUBSET Attribute]

(* An add, with its answer to the gate. *)
Choice == [kind : {"none", "distinct"}] \cup [kind : {"supersedes", "related"}, name : Name]
Ask    == [slot : Slot, topic : Topic, type : {"fact", "reflection"}, choice : Choice]

ASSUME MemoryAsks == Asks \subseteq Ask

VARIABLES
  rows,    \* the table, by id
  job,     \* [Writer -> its command]
  excused, \* history: <<older, newer>> the gate need not keep apart
  updated  \* history: [Id -> keys that committed updates set]

vars == <<rows, job, excused, updated>>

Idle == [step |-> "idle"]
Adds == [step : {"revision", "gate", "select", "insert"}, ask : Ask,
         answered : SUBSET Id, \* rows its choice names
         revision : BOOLEAN,   \* it found its name in the tier
         seen : Id \cup {0},   \* the row its transaction read
         missed : SUBSET Id]   \* history: rows added since its gate
Edits == [step : {"edit"}, id : Id, set : SUBSET Attribute, keys : SUBSET Attribute,
          topic : Topic]

Init ==
  /\ rows = <<>>
  /\ job = [w \in Writer |-> Idle]
  /\ excused = {}
  /\ updated = [i \in Id |-> {}]

Active == {i \in DOMAIN rows : rows[i].active}

(* find_active: the row of a slot, 0 for none. *)
FindActive(s) ==
  IF \E i \in Active : rows[i].slot = s THEN CHOOSE i \in Active : rows[i].slot = s ELSE 0

Finish(w) == job' = [job EXCEPT ![w] = Idle]
-----------------------------------------------------------------------------
(* ADD: each of these reads in a transaction of its own.                   *)

(* --supersedes binds to a row of the target tier, or the add is refused;  *)
(* naming oneself is no choice.                                            *)
AddStart(w, a) ==
  LET sup   == a.choice.kind = "supersedes" /\ a.choice.name # a.slot[2]
      hit   == IF sup THEN FindActive(<<a.slot[1], a.choice.name>>) ELSE 0
      bound == IF sup \/ a.choice.kind # "supersedes" THEN a ELSE [a EXCEPT !.choice = [kind |-> "none"]]
  IN /\ job[w] = Idle
     /\ Len(rows) + Cardinality({u \in Writer : job[u].step \notin {"idle", "edit"}}) < MaxRows
     /\ sup => hit # 0
     /\ job' = [job EXCEPT ![w] =
                  [step |-> "revision", ask |-> bound, answered |-> {hit} \ {0},
                   revision |-> FALSE, seen |-> 0, missed |-> {}]]
     /\ UNCHANGED <<rows, excused, updated>>

Revision(w) ==
  LET found == FindActive(job[w].ask.slot) # 0
  IN /\ job[w].step = "revision"
     /\ IF found /\ job[w].ask.choice.kind = "supersedes"
          THEN Finish(w)
          ELSE job' = [job EXCEPT ![w].step = "gate", ![w].revision = found]
     /\ UNCHANGED <<rows, excused, updated>>

InScope(a) == {i \in Active : rows[i].slot[1] >= a.slot[1] /\ rows[i].slot # a.slot}

(* The most specific row that --related names; none refuses the add. *)
Related(a) ==
  LET hits == {i \in InScope(a) : rows[i].slot[2] = a.choice.name}
  IN {i \in hits : \A j \in hits : rows[i].slot[1] <= rows[j].slot[1]}

(* Mutant: parent tiers are looked at for the name alone. *)
DedupOwnTier(a) ==
  {i \in InScope(a) : \/ /\ rows[i].topic = a.topic /\ rows[i].type = "fact"
                         /\ rows[i].slot[1] = a.slot[1]
                      \/ rows[i].slot[2] = a.slot[2]}

(* Facts like the new one in its tier and the parents, and its own name    *)
(* in the parents, a reflection of that name too.                          *)
DedupCandidates(a) ==
  {i \in InScope(a) : \/ rows[i].topic = a.topic /\ rows[i].type = "fact"
                      \/ rows[i].slot[2] = a.slot[2]}

(* The candidates and the rows that --related names: two transactions,    *)
(* looked at in one step.                                                  *)
Gate(w) ==
  LET a        == job[w].ask
      related  == IF a.choice.kind = "related" THEN Related(a) ELSE {}
      blocking == IF job[w].revision \/ a.type = "reflection" THEN {} ELSE DedupCandidates(a)
      answered == job[w].answered \cup related
  IN /\ job[w].step = "gate"
     /\ IF /\ a.choice.kind = "related" => related # {}
           /\ a.choice.kind # "distinct" => blocking \subseteq answered
          THEN job' = [job EXCEPT ![w].step = "select", ![w].answered = answered]
          ELSE Finish(w)
     /\ UNCHANGED <<rows, excused, updated>>
-----------------------------------------------------------------------------
(* ADD, its transaction: the name is looked up without a lock; the rest is *)
(* visible at the commit.                                                  *)

(* Mutant: the update reads without FOR UPDATE. *)
NothingHeld == {}

(* Rows an update holds locked. *)
Held == {job[w].id : w \in {u \in Writer : job[u].step = "edit"}}

Select(w) ==
  LET found == FindActive(job[w].ask.slot)
  IN /\ job[w].step = "select"
     /\ IF found # 0 /\ job[w].ask.choice.kind = "supersedes"
          THEN Finish(w)
          ELSE job' = [job EXCEPT ![w].step = "insert", ![w].seen = found]
     /\ UNCHANGED <<rows, excused, updated>>

(* What an add makes inactive: the row it saw under its name, and the one  *)
(* active now under the name it supersedes.                                *)
Retired(j) ==
  {j.seen} \cup (IF j.ask.choice.kind = "supersedes"
                   THEN {FindActive(<<j.ask.slot[1], j.ask.choice.name>>)} ELSE {})

(* Mutant: no such index. *)
NameFreeAlways(j) == TRUE

(* The unique index on active names, once those are retired. *)
NameFree(j) == \A i \in Active : rows[i].slot = j.ask.slot => i \in Retired(j)

Predecessor(j) ==
  IF j.ask.choice.kind = "supersedes"
    THEN FindActive(<<j.ask.slot[1], j.ask.choice.name>>) ELSE j.seen

(* Pairs the new row makes that the gate had no say in, or was told of. *)
Excuses(j, new) ==
  LET all == j.revision \/ j.ask.choice.kind = "distinct" \/ j.ask.type = "reflection"
  IN {<<i, new>> : i \in IF all THEN DOMAIN rows ELSE j.answered \cup j.missed}

Insert(w) ==
  LET j   == job[w]
      new == Len(rows) + 1
      old == [i \in DOMAIN rows |-> [rows[i] EXCEPT !.active = @ /\ i \notin Retired(j)]]
      row == [slot |-> j.ask.slot, topic |-> j.ask.topic, type |-> j.ask.type, active |-> TRUE,
              supersedes |-> Predecessor(j), attributes |-> {}]
  IN /\ j.step = "insert" /\ Len(rows) < MaxRows
     /\ Retired(j) \cap Held = {}
     /\ j.ask.choice.kind = "supersedes" => Predecessor(j) # 0
     /\ NameFree(j)
     /\ rows' = Append(old, row)
     /\ job' = [u \in Writer |-> IF u = w THEN Idle
                  ELSE IF job[u].step \in {"select", "insert"}
                    THEN [job[u] EXCEPT !.missed = @ \cup {new}] ELSE job[u]]
     /\ excused' = excused \cup Excuses(j, new)
     /\ UNCHANGED updated

(* The transaction fails, and writes nothing: what it supersedes is gone,  *)
(* or its name was given away meanwhile.                                   *)
Rollback(w) ==
  LET j == job[w]
  IN /\ j.step = "insert" /\ Retired(j) \cap Held = {}
     /\ (j.ask.choice.kind = "supersedes" /\ Predecessor(j) = 0) \/ ~NameFree(j)
     /\ Finish(w) /\ UNCHANGED <<rows, excused, updated>>
-----------------------------------------------------------------------------
(* Soft delete, one statement; the name may be given again. *)
Delete(s) ==
  LET i == FindActive(s)
  IN /\ i # 0 /\ i \notin Held
     /\ rows' = [rows EXCEPT ![i].active = FALSE]
     /\ UNCHANGED <<job, excused, updated>>

(* The row is read under a lock and its attributes merged: update_memory,  *)
(* with a new body too perhaps, and mark_gaps_filed for a reflection.      *)
EditLock(w, s, set, topic) ==
  LET i == FindActive(s)
  IN /\ job[w] = Idle /\ i \in 1..MaxEdited /\ i \notin Held
     /\ job' = [job EXCEPT ![w] = [step |-> "edit", id |-> i, set |-> set,
                                   keys |-> rows[i].attributes \cup set, topic |-> topic]]
     /\ UNCHANGED <<rows, excused, updated>>

UpdateLock(w, s) ==
  \/ \E k \in Attribute : EditLock(w, s, {k}, rows[FindActive(s)].topic)
  \/ \E t \in Topic : EditLock(w, s, {}, t)

MarkLock(w, s) ==
  /\ FindActive(s) # 0 /\ rows[FindActive(s)].type = "reflection"
  /\ \E k \in Attribute : EditLock(w, s, {k}, rows[FindActive(s)].topic)

(* An edit of the body is not gated. *)
EditWrite(w) ==
  LET e == job[w]
  IN /\ e.step = "edit"
     /\ rows[e.id].active
     /\ rows' = [rows EXCEPT ![e.id].attributes = e.keys, ![e.id].topic = e.topic]
     /\ updated' = [updated EXCEPT ![e.id] = @ \cup e.set]
     /\ excused' = excused \cup
          (IF e.topic = rows[e.id].topic THEN {}
           ELSE (Id \X {e.id}) \cup ({e.id} \X Id))
     /\ Finish(w)

(* An update dies or fails, and lets go of its row.  An add holds nothing  *)
(* between its steps: one that dies is one that takes no further step.     *)
Abort(w) == job[w].step = "edit" /\ Finish(w) /\ UNCHANGED <<rows, excused, updated>>

(* What memory add does once the gate let it pass, or refuses.             *)
AddCommand(w) ==
  \/ \E a \in Asks : AddStart(w, a)
  \/ Revision(w) \/ Gate(w) \/ Select(w) \/ Insert(w) \/ Rollback(w)

UpdateCommand(w) == (\E s \in Slot : UpdateLock(w, s)) \/ EditWrite(w) \/ Abort(w)

DeleteCommand == \E s \in Slot : Delete(s)

Next ==
  \/ \E w \in Writer : AddCommand(w) \/ UpdateCommand(w)
  \/ DeleteCommand
  \/ \E w \in Writer, s \in Slot : MarkLock(w, s)

Spec == Init /\ [][Next]_vars
-----------------------------------------------------------------------------
(* What the composed commands show under a reflection policy.              *)
Allowed(policy) == {i \in Active : policy = "exclude" => rows[i].type # "reflection"}

(* memory search looks at all tiers in one query, and of each name at its  *)
(* most specific row; its limit then cuts some of these off.               *)
SearchMemoryComposed(policy) ==
  {i \in Allowed(policy) :
     \A j \in Allowed(policy) :
       rows[j].slot[2] = rows[i].slot[2] => rows[i].slot[1] <= rows[j].slot[1]}

ActiveByName(name) == {i \in Active : rows[i].slot[2] = name}

(* memory recall asks each tier's engine for itself: some rows are found,  *)
(* of a name the best one scored highest (top); more specific rows of the  *)
(* name are looked up and let in.                                          *)
(* Mutant: the lookup ignores the reflection policy. *)
RecoveredAny(found, top, policy) ==
  {i \in ActiveByName(rows[top].slot[2]) \ found : rows[i].slot[1] < rows[top].slot[1]}

Recovered(found, top, policy) ==
  {i \in (ActiveByName(rows[top].slot[2]) \cap Allowed(policy)) \ found :
     rows[i].slot[1] < rows[top].slot[1]}

Winner(found, top, policy) ==
  LET merged == {i \in found : rows[i].slot[2] = rows[top].slot[2]}
                  \cup Recovered(found, top, policy)
  IN CHOOSE i \in merged : \A j \in merged : rows[i].slot[1] <= rows[j].slot[1]
-----------------------------------------------------------------------------
(* Each row and each command in progress is well formed. *)
TypeOK ==
  /\ rows \in Seq(Row) /\ Len(rows) \in 0..MaxRows
  /\ job \in [Writer -> {Idle} \cup Adds \cup Edits]
  /\ excused \subseteq Id \X Id
  /\ updated \in [Id -> SUBSET Attribute]

(* No fact stands in a tier beside an older one like it there or in a      *)
(* parent tier (or in a parent tier under its name) but one its writer     *)
(* named, one added while it was already past the gate, or one of whose    *)
(* bodies was edited (cmd_mem_add's gate, whose answer must still be true  *)
(* at the insert).                                                         *)
DuplicatesDeclared ==
  \A i, j \in Active :
    /\ j < i /\ rows[j].slot[1] >= rows[i].slot[1] /\ rows[i].type = "fact"
    /\ \/ rows[j].type = "fact" /\ rows[j].topic = rows[i].topic
       \/ rows[j].slot[2] = rows[i].slot[2]
    => <<j, i>> \in excused

(* What an update set stays set on the row, whoever else updates it at the *)
(* same time (update_memory, mark_gaps_filed: "concurrent updates each     *)
(* keep the other's keys").                                                *)
KeysKept == \A i \in DOMAIN rows : updated[i] \subseteq rows[i].attributes

(* Whatever the search of each tier cuts off and however it scores, a      *)
(* composed recall (cmd_mem_recall) shows for a name what a composed       *)
(* search shows: the row of the most specific tier that the reflection     *)
(* policy lets it show.                                                    *)
RecallMostSpecific ==
  \A policy \in {"exclude", "demote"} :
    \A found \in SUBSET Allowed(policy) : \A top \in found :
      LET i == Winner(found, top, policy)
      IN i \in SearchMemoryComposed(policy) /\ rows[i].slot[2] = rows[top].slot[2]

(* The tables of names these transactions keep. *)
Table == INSTANCE NameTable WITH head   <- [s \in Slot |-> FindActive(s)],
                                 newest <- Len(rows), Nobody <- 0

(* Whatever commands overlap, a name stands for at most one memory, a new  *)
(* memory takes its name and at most one other's, and nothing replaced or  *)
(* deleted comes back (add_memory and delete_memory, with the partial      *)
(* unique index as the last guard).                                        *)
ImplementsNameTable == Table!Spec
=============================================================================
