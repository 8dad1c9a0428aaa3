------------------------- MODULE CrossProjectProofs -------------------------
(****************************************************************************)
(* What crosses projects: the copies of items that other machines read, for*)
(* any entities, machines and interleaving of commands, exports, ingests and*)
(* rebuilds; and the trigger loop, for any dependents and any links.       *)
(****************************************************************************)
EXTENDS Federation, TriggerLoop, OpLogProofs, SequenceTheorems

(* The copies: what a file, an index or a rebuilt table holds of an item is *)
(* a prefix of its log, so every copy shows what the item once showed.     *)

(* The log of an item up to a lamport. *)
UpTo(e, k) == {o \in Ops(log, e) : o.lamport <= k}

OpTypesHere == {"create", "set_status", "close", "tombstone"}

(* One sequence numbers the ops, one transaction at a time works on an     *)
(* item, and the op it will append is later than the item's log.           *)
LogInOrder ==
  /\ clock \in Nat /\ IsFiniteSet(log)
  /\ \A o \in log \cup open : /\ o.lamport \in 1..clock /\ o.id = o.lamport
                              /\ o.entity \in Entity /\ o.type \in OpTypesHere
  /\ \A a, b \in log \cup open : a.lamport = b.lamport => a = b
  /\ \A o \in open, x \in log : o.entity = x.entity => x.lamport < o.lamport
  /\ \A a, b \in open : a.entity = b.entity => a = b

(* The rows an item has had are the folds of the prefixes of its log. *)
PastIsFolds ==
  \A e \in Entity :
    /\ \E S : past[e] \in Seq(S)
    /\ Len(past[e]) = Cardinality(Ops(log, e)) + 1
    /\ \A k \in Nat : past[e][Cardinality(UpTo(e, k)) + 1] = Fold(UpTo(e, k))

(* What ops holds of an item is a prefix of its log that no open           *)
(* transaction can still add to, and no deletion.                          *)
IsLogPrefix(ops, e, k) ==
  /\ Ops(ops, e) = UpTo(e, k)
  /\ \A o \in open : o.entity = e => k < o.lamport
  /\ \A o \in UpTo(e, k) : o.type # "tombstone"

Holds(ops) == ops \subseteq log /\ \A e \in Entity : \E k \in 0..clock : IsLogPrefix(ops, e, k)

CopiesHold ==
  /\ \A f \in files : Holds(f)
  /\ Holds(index) /\ Holds(built) /\ built \subseteq index
  /\ cache = [e \in Entity |-> FoldCrossProject(Ops(built, e))]

FedInv ==
  /\ past = [e \in Entity |-> past[e]]
  /\ LogInOrder /\ PastIsFolds /\ CopiesHold

-----------------------------------------------------------------------------

LEMMA UpToSerial ==
  ASSUME LogInOrder, NEW e, NEW k
  PROVE  Serial(UpTo(e, k), clock) /\ IsFiniteSet(UpTo(e, k))
         /\ UpTo(e, k) \subseteq Ops(log, e)
<1>1. UpTo(e, k) \subseteq log
  BY DEF UpTo, Ops
<1>2. IsFiniteSet(UpTo(e, k))
  BY <1>1, FS_Subset DEF LogInOrder
<1>3. Serial(UpTo(e, k), clock)
  BY <1>1 DEF Serial, LogInOrder
<1>4. QED
  BY <1>2, <1>3 DEF UpTo

LEMMA OpsFinite ==
  ASSUME LogInOrder, NEW e
  PROVE  /\ IsFiniteSet(Ops(log, e)) /\ Cardinality(Ops(log, e)) \in Nat
         /\ Serial(Ops(log, e), clock) /\ Ops(log, e) = UpTo(e, clock)
<1>1. Ops(log, e) \subseteq log
  BY DEF Ops
<1>2. IsFiniteSet(Ops(log, e))
  BY <1>1, FS_Subset DEF LogInOrder
<1>3. Ops(log, e) = UpTo(e, clock)
  BY DEF Ops, UpTo, LogInOrder
<1>4. QED
  BY <1>2, <1>3, UpToSerial, FS_CardinalityType

(* A prefix is among the rows the item has had. *)
LEMMA PrefixIsPast ==
  ASSUME FedInv, NEW e \in Entity, NEW k \in Nat
  PROVE  /\ Cardinality(UpTo(e, k)) + 1 \in 1..Len(past[e])
         /\ past[e][Cardinality(UpTo(e, k)) + 1] = Fold(UpTo(e, k))
<1>1. /\ IsFiniteSet(Ops(log, e)) /\ Cardinality(Ops(log, e)) \in Nat
      /\ IsFiniteSet(UpTo(e, k)) /\ UpTo(e, k) \subseteq Ops(log, e)
  BY UpToSerial, OpsFinite DEF FedInv
<1>2. Cardinality(UpTo(e, k)) <= Cardinality(Ops(log, e)) /\ Cardinality(UpTo(e, k)) \in Nat
  BY <1>1, FS_Subset, FS_CardinalityType
<1>3. Len(past[e]) = Cardinality(Ops(log, e)) + 1
  BY DEF FedInv, PastIsFolds
<1>4. past[e][Cardinality(UpTo(e, k)) + 1] = Fold(UpTo(e, k))
  BY DEF FedInv, PastIsFolds
<1>5. QED
  BY <1>1, <1>2, <1>3, <1>4

(* Without a deletion the cache's fold is the kernel's. *)
LEMMA FoldsAgree ==
  ASSUME LogInOrder, NEW e, NEW k, \A o \in UpTo(e, k) : o.type # "tombstone"
  PROVE  FoldCrossProject(UpTo(e, k)) = Fold(UpTo(e, k))
<1>1. ~FoldState(UpTo(e, k)).dead
  BY UpToSerial, NoStone DEF LogInOrder
<1>2. IsAcc(FoldState(UpTo(e, k)))
  BY UpToSerial, FoldIsAcc DEF LogInOrder
<1>3. QED
  BY <1>1, <1>2 DEF FoldCrossProject, Fold, IsAcc

(* What a set that holds prefixes shows of an item is one of its rows. *)
LEMMA ShownIsPast ==
  ASSUME FedInv, NEW ops, Holds(ops), NEW e \in Entity
  PROVE  /\ Cardinality(Ops(ops, e)) + 1 \in 1..Len(past[e])
         /\ FoldCrossProject(Ops(ops, e)) = past[e][Cardinality(Ops(ops, e)) + 1]
<1>1. PICK k \in 0..clock : IsLogPrefix(ops, e, k)
  BY DEF Holds
<1>2. Ops(ops, e) = UpTo(e, k) /\ k \in Nat
  BY <1>1 DEF IsLogPrefix
<1>3. FoldCrossProject(UpTo(e, k)) = Fold(UpTo(e, k))
  BY <1>1, FoldsAgree DEF IsLogPrefix, FedInv
<1>4. QED
  BY <1>2, <1>3, PrefixIsPast

(* An item that is in work_items has no tombstone in its log. *)
LEMMA LiveHasNoStone ==
  ASSUME FedInv, NEW e \in Live
  PROVE  \A o \in Ops(log, e) : o.type # "tombstone"
<1> SUFFICES ASSUME NEW t \in Ops(log, e), t.type = "tombstone"
             PROVE  FALSE
  OBVIOUS
<1>0. e \in Entity
  BY DEF Live
<1>1. Serial(Ops(log, e), clock) /\ clock \in Nat /\ Ops(log, e) = UpTo(e, clock)
  BY OpsFinite DEF FedInv, LogInOrder
<1>2. \A o \in Ops(log, e) : o.type # "snapshot"
  BY DEF Ops, FedInv, LogInOrder, OpTypesHere
<1>3. FoldState(Ops(log, e)).dead
  BY <1>1, <1>2, Stone
<1>4. Fold(Ops(log, e)) = Absent
  BY <1>3 DEF Fold
<1>5. Row(e) = Fold(Ops(log, e))
  BY <1>0, <1>1 DEF Row, Last, FedInv, PastIsFolds
<1>6. QED
  BY <1>4, <1>5 DEF Live

LEMMA FedInit ==
  ASSUME FederationInit
  PROVE  FedInv
<1>1. /\ clock = 0 /\ log = {} /\ open = {} /\ files = {} /\ index = {} /\ built = {}
      /\ past = [e \in Entity |-> <<Absent>>] /\ cache = [e \in Entity |-> Absent]
  BY DEF FederationInit
<1>2. Ops({}, 0) = {} /\ \A e : Ops({}, e) = {} /\ \A k : UpTo(e, k) = {}
  BY <1>1 DEF Ops, UpTo
<1>3. ~FoldState({}).exists
  BY FoldEmpty DEF Start
<1>4. Fold({}) = Absent /\ FoldCrossProject({}) = Absent
  BY <1>3 DEF Fold, FoldCrossProject
<1>5. LogInOrder
  BY <1>1, FS_EmptySet DEF LogInOrder
<1>6. PastIsFolds
  <2> SUFFICES ASSUME NEW e \in Entity
               PROVE  /\ \E S : past[e] \in Seq(S)
                      /\ Len(past[e]) = Cardinality(Ops(log, e)) + 1
                      /\ \A k \in Nat : past[e][Cardinality(UpTo(e, k)) + 1] = Fold(UpTo(e, k))
    BY DEF PastIsFolds
  <2>1. past[e] = <<Absent>> /\ Ops(log, e) = {} /\ \A k \in Nat : UpTo(e, k) = {}
    BY <1>1, <1>2
  <2>2. <<Absent>> \in Seq({Absent}) /\ Len(<<Absent>>) = 1 /\ <<Absent>>[1] = Absent
    OBVIOUS
  <2>3. Cardinality({}) = 0
    BY FS_EmptySet
  <2>4. ASSUME NEW k \in Nat
        PROVE  past[e][Cardinality(UpTo(e, k)) + 1] = Fold(UpTo(e, k))
    <3>0. UpTo(e, k) = {}
      BY <2>1
    <3>1. UpTo(e, k) = {} /\ Cardinality(UpTo(e, k)) + 1 = 1
      BY <3>0, <2>3
    <3>2. past[e][1] = Absent
      BY <2>1, <2>2
    <3>3. QED
      BY <1>4, <3>1, <3>2
  <2>5. Len(past[e]) = Cardinality(Ops(log, e)) + 1
    BY <2>1, <2>2, <2>3
  <2>6. \E S : past[e] \in Seq(S)
    BY <2>1, <2>2
  <2>7. QED
    BY <2>4, <2>5, <2>6
<1>7. Holds({})
  <2> SUFFICES ASSUME NEW e \in Entity PROVE IsLogPrefix({}, e, 0)
    BY <1>1 DEF Holds
  <2>1. QED
    BY <1>1, <1>2 DEF IsLogPrefix
<1>8. cache = [e \in Entity |-> FoldCrossProject(Ops(built, e))]
  BY <1>1, <1>2, <1>4
<1>9. QED
  BY <1>1, <1>5, <1>6, <1>7, <1>8 DEF FedInv, CopiesHold

-----------------------------------------------------------------------------
(* Steps that leave the log alone.                                         *)

LEMMA SameUpTo ==
  ASSUME UNCHANGED log
  PROVE  \A e, k : UpTo(e, k)' = UpTo(e, k)
BY DEF UpTo, Ops

LEMMA PastKept ==
  ASSUME FedInv, UNCHANGED <<log, past>>
  PROVE  PastIsFolds'
<1>1. \A e, k : UpTo(e, k)' = UpTo(e, k)
  BY SameUpTo
<1>2. \A e : Ops(log, e)' = Ops(log, e)
  BY DEF Ops
<1>3. QED
  BY <1>1, <1>2 DEF FedInv, PastIsFolds

(* New transactions are later than every copy. *)
LEMMA HoldsKept ==
  ASSUME FedInv, NEW ops, Holds(ops), log' = log, clock' \in Nat, clock' >= clock,
         \A o \in open' : o \in open \/ (o.lamport \in Int /\ o.lamport > clock)
  PROVE  Holds(ops)'
<1>1. ops \subseteq log'
  BY DEF Holds
<1>2. ASSUME NEW e \in Entity
      PROVE  \E k \in 0..clock' : IsLogPrefix(ops, e, k)'
  <2>1. PICK k \in 0..clock : IsLogPrefix(ops, e, k)
    BY DEF Holds
  <2>2. k \in 0..clock' /\ k <= clock /\ k \in Nat /\ clock \in Nat
    BY DEF FedInv, LogInOrder
  <2>3. UpTo(e, k)' = UpTo(e, k)
    BY SameUpTo
  <2>4. \A o \in open' : o.entity = e => k < o.lamport
    <3> SUFFICES ASSUME NEW o \in open', o.entity = e PROVE k < o.lamport
      OBVIOUS
    <3>1. CASE o \in open
      BY <2>1, <3>1 DEF IsLogPrefix
    <3>2. CASE o \notin open
      BY <2>2, <3>2
    <3>3. QED
      BY <3>1, <3>2
  <2>5. Ops(ops, e)' = Ops(ops, e)
    BY DEF Ops
  <2>6. QED
    BY <2>1, <2>2, <2>3, <2>4, <2>5 DEF IsLogPrefix
<1>3. QED
  BY <1>1, <1>2 DEF Holds

LEMMA CopiesKept ==
  ASSUME FedInv, log' = log, clock' \in Nat, clock' >= clock,
         \A o \in open' : o \in open \/ (o.lamport \in Int /\ o.lamport > clock),
         UNCHANGED <<files, index, cache, built>>
  PROVE  CopiesHold'
<1>1. ASSUME NEW f \in files PROVE Holds(f)'
  BY HoldsKept DEF FedInv, CopiesHold
<1>2. PICK i, b : i = index /\ b = built
  OBVIOUS
<1>3. Holds(i)' /\ Holds(b)'
  BY <1>2, HoldsKept DEF FedInv, CopiesHold
<1>4. Holds(index)' /\ Holds(built)'
  BY <1>2, <1>3 DEF Holds, IsLogPrefix
<1>5. built' \subseteq index'
  BY DEF FedInv, CopiesHold
<1>6. cache' = [e \in Entity |-> FoldCrossProject(Ops(built', e))]
  BY DEF FedInv, CopiesHold
<1>7. QED
  BY <1>1, <1>4, <1>5, <1>6 DEF CopiesHold

(* A transaction begins. *)
LEMMA BeginKeeps ==
  ASSUME FedInv, NEW op, op.lamport = clock + 1, op.id = op.lamport,
         op.entity \in Entity, op.type \in OpTypesHere, Ops(open, op.entity) = {},
         BeginTx(op)
  PROVE  FedInv'
<1>1. clock' = clock + 1 /\ open' = open \cup {op}
      /\ UNCHANGED <<log, past, files, index, cache, built>>
  BY DEF BeginTx
<1>2. clock \in Nat
  BY DEF FedInv, LogInOrder
<1>3. LogInOrder'
  <2>0. LogInOrder
    BY DEF FedInv
  <2>1. \A o \in log' \cup open' : /\ o.lamport \in 1..clock' /\ o.id = o.lamport
                                   /\ o.entity \in Entity /\ o.type \in OpTypesHere
    BY <1>1, <1>2, <2>0 DEF LogInOrder
  <2>2. \A a, b \in log' \cup open' : a.lamport = b.lamport => a = b
    BY <1>1, <1>2, <2>0 DEF LogInOrder
  <2>3. \A o \in open', x \in log' : o.entity = x.entity => x.lamport < o.lamport
    BY <1>1, <1>2, <2>0 DEF LogInOrder
  <2>4. \A a, b \in open' : a.entity = b.entity => a = b
    BY <1>1, <2>0 DEF LogInOrder, Ops
  <2>5. QED
    BY <1>1, <1>2, <2>0, <2>1, <2>2, <2>3, <2>4 DEF LogInOrder
<1>4. PastIsFolds'
  BY <1>1, PastKept
<1>5. CopiesHold'
  BY <1>1, <1>2, CopiesKept
<1>6. QED
  BY <1>1, <1>3, <1>4, <1>5 DEF FedInv

(* A transaction is rolled back. *)
LEMMA RollbackKeeps ==
  ASSUME FedInv, NEW op, Rollback(op)
  PROVE  FedInv'
<1>1. /\ open' \subseteq open
      /\ UNCHANGED <<clock, log, past, files, index, cache, built>>
  BY DEF Rollback
<1>2. clock \in Nat
  BY DEF FedInv, LogInOrder
<1>3. LogInOrder'
  <2>0. LogInOrder
    BY DEF FedInv
  <2>1. QED
    BY <1>1, <2>0 DEF LogInOrder
<1>4. PastIsFolds'
  BY <1>1, PastKept
<1>5. CopiesHold'
  BY <1>1, <1>2, CopiesKept
<1>6. QED
  BY <1>1, <1>3, <1>4, <1>5 DEF FedInv

(* The other project's commands. *)
LEMMA FileKeeps ==
  ASSUME FedInv, NEW e \in Entity, NEW n, File(e, n)
  PROVE  FedInv'
<1>1. PICK op : op = Op(e, "create", "open", n)
  OBVIOUS
<1>2. /\ op.lamport = clock + 1 /\ op.id = op.lamport /\ op.entity = e /\ op.type = "create"
  BY <1>1 DEF Op
<1>3. Ops(open, e) = {} /\ BeginTx(op)
  BY <1>1 DEF File, Ops
<1>4. QED
  BY <1>2, <1>3, BeginKeeps DEF OpTypesHere

LEMMA CommandKeeps ==
  ASSUME FedInv, NEW e \in Entity, Command(e)
  PROVE  FedInv'
<1>1. PICK type \in {"set_status", "close", "tombstone"} :
        \E status, op : op = Op(e, type, status, Keep) /\ BeginTx(op)
  <2>1. \/ \E s : BeginTx(Op(e, "set_status", s, Keep))
        \/ BeginTx(Op(e, "close", "closed", Keep))
        \/ BeginTx(Op(e, "tombstone", NoStatus, Keep))
    BY DEF Command
  <2>2. \E type \in {"set_status", "close", "tombstone"} : \E status :
          BeginTx(Op(e, type, status, Keep))
    BY <2>1
  <2>3. QED
    BY <2>2
<1>2. PICK status, op : op = Op(e, type, status, Keep) /\ BeginTx(op)
  BY <1>1
<1>3. /\ op.lamport = clock + 1 /\ op.id = op.lamport /\ op.entity = e /\ op.type = type
  BY <1>2 DEF Op
<1>4. Ops(open, e) = {}
  BY DEF Command, Locked
<1>5. QED
  BY <1>2, <1>3, <1>4, BeginKeeps DEF OpTypesHere

-----------------------------------------------------------------------------
(* A commit appends one op to one item's log.                              *)

LEMMA CommitLog ==
  ASSUME FedInv, NEW op \in open, Commit(op)
  PROVE  /\ LogInOrder'
         /\ \A e : e # op.entity => Ops(log, e)' = Ops(log, e)
         /\ Ops(log, op.entity)' = Ops(log, op.entity) \cup {op}
         /\ \A e, k : k \in Nat /\ (e = op.entity => k < op.lamport)
              => UpTo(e, k)' = UpTo(e, k)
         /\ \A k \in Nat : k >= op.lamport =>
              UpTo(op.entity, k)' = Ops(log, op.entity) \cup {op}
<1>1. /\ open' = open \ {op} /\ log' = log \cup {op} /\ clock' = clock
  BY DEF Commit
<1>2. LogInOrder
  BY DEF FedInv
<1>3. \A x \in log : x.entity = op.entity => x.lamport < op.lamport
  BY <1>2 DEF LogInOrder
<1>4. op.lamport \in Nat /\ \A x \in log : x.lamport \in Nat
  BY <1>2 DEF LogInOrder
<1>5. LogInOrder'
  <2>1. IsFiniteSet(log')
    BY <1>1, <1>2, FS_AddElement DEF LogInOrder
  <2>2. log' \cup open' = log \cup open
    BY <1>1
  <2>3. \A o \in open', x \in log' : o.entity = x.entity => x.lamport < o.lamport
    <3> SUFFICES ASSUME NEW o \in open', NEW x \in log', o.entity = x.entity
                 PROVE  x.lamport < o.lamport
      OBVIOUS
    <3>1. CASE x = op
      BY <1>1, <1>2, <3>1 DEF LogInOrder
    <3>2. CASE x \in log
      BY <1>1, <1>2, <3>2 DEF LogInOrder
    <3>3. QED
      BY <1>1, <3>1, <3>2
  <2>4. \A a, b \in open' : a.entity = b.entity => a = b
    BY <1>1, <1>2 DEF LogInOrder
  <2>5. QED
    BY <1>1, <1>2, <2>1, <2>2, <2>3, <2>4 DEF LogInOrder
<1>6. \A e : e # op.entity => Ops(log, e)' = Ops(log, e)
  BY <1>1 DEF Ops
<1>7. Ops(log, op.entity)' = Ops(log, op.entity) \cup {op}
  BY <1>1 DEF Ops
<1>8. ASSUME NEW e, NEW k \in Nat, e = op.entity => k < op.lamport
      PROVE  UpTo(e, k)' = UpTo(e, k)
  BY <1>1, <1>4, <1>8 DEF UpTo, Ops
<1>9. ASSUME NEW k \in Nat, k >= op.lamport
      PROVE  UpTo(op.entity, k)' = Ops(log, op.entity) \cup {op}
  BY <1>1, <1>3, <1>4, <1>9 DEF UpTo, Ops
<1>10. QED
  BY <1>5, <1>6, <1>7, <1>8, <1>9

LEMMA CommitPast ==
  ASSUME FedInv, NEW op \in open, Commit(op), NEW e \in Entity
  PROVE  /\ \E S : past'[e] \in Seq(S)
         /\ Len(past'[e]) = Cardinality(Ops(log, e)') + 1
         /\ \A k \in Nat : past'[e][Cardinality(UpTo(e, k)') + 1] = Fold(UpTo(e, k)')
<1>0. op.entity \in Entity /\ op.lamport \in Nat /\ op \notin Ops(log, op.entity)
  BY DEF FedInv, LogInOrder, Ops
<1>1. past' = [past EXCEPT ![op.entity] = Append(@, Fold(Ops(log', op.entity)))]
  BY DEF Commit
<1>2. CASE e # op.entity
  <2>1. past'[e] = past[e] /\ Ops(log, e)' = Ops(log, e)
    BY <1>1, <1>2, CommitLog DEF FedInv
  <2>2. \A k \in Nat : UpTo(e, k)' = UpTo(e, k)
    BY <1>2, CommitLog
  <2>3. QED
    BY <2>1, <2>2 DEF FedInv, PastIsFolds
<1>3. CASE e = op.entity
  <2> DEFINE new == Fold(Ops(log', e))
  <2>1. Ops(log', e) = Ops(log, e) \cup {op}
    BY <1>3, CommitLog DEF Ops
  <2>2. past'[e] = Append(past[e], new)
    BY <1>1, <1>3 DEF FedInv
  <2>3. PICK S : past[e] \in Seq(S)
    BY DEF FedInv, PastIsFolds
  <2>4. PICK r : r = new
    OBVIOUS
  <2>5. past[e] \in Seq(S \cup {r})
    BY <2>3
  <2>6. /\ Append(past[e], r) \in Seq(S \cup {r})
        /\ Len(Append(past[e], r)) = Len(past[e]) + 1
        /\ \A i \in 1..Len(past[e]) : Append(past[e], r)[i] = past[e][i]
        /\ Append(past[e], r)[Len(past[e]) + 1] = r
    BY <2>5, AppendProperties
  <2>7. Len(past[e]) = Cardinality(Ops(log, e)) + 1
    BY DEF FedInv, PastIsFolds
  <2>8. Cardinality(Ops(log, e) \cup {op}) = Cardinality(Ops(log, e)) + 1
    BY <1>0, <1>3, OpsFinite, FS_AddElement DEF FedInv
  <2>9. Cardinality(Ops(log, e)) \in Nat
    BY OpsFinite DEF FedInv
  <2>10. Len(past'[e]) = Cardinality(Ops(log, e)') + 1
    BY <1>3, <2>2, <2>4, <2>6, <2>7, <2>8, <2>9, CommitLog
  <2>11. ASSUME NEW k \in Nat
         PROVE  past'[e][Cardinality(UpTo(e, k)') + 1] = Fold(UpTo(e, k)')
    <3>1. CASE k < op.lamport
      <4>1. UpTo(e, k)' = UpTo(e, k)
        BY <1>3, <3>1, CommitLog
      <4>2. /\ Cardinality(UpTo(e, k)) + 1 \in 1..Len(past[e])
            /\ past[e][Cardinality(UpTo(e, k)) + 1] = Fold(UpTo(e, k))
        BY PrefixIsPast
      <4> HIDE DEF new
      <4>3. QED
        BY <2>2, <2>4, <2>6, <4>1, <4>2
    <3>2. CASE k >= op.lamport
      <4>1. UpTo(e, k)' = Ops(log, e) \cup {op}
        BY <1>3, <3>2, CommitLog
      <4>2. Cardinality(UpTo(e, k)') + 1 = Len(past[e]) + 1
        BY <2>7, <2>8, <2>9, <4>1
      <4>3. new = Fold(UpTo(e, k)')
        BY <2>1, <4>1
      <4> HIDE DEF new
      <4>4. QED
        BY <2>2, <2>4, <2>6, <4>2, <4>3
    <3>3. QED
      BY <1>0, <3>1, <3>2
  <2>12. QED
    BY <2>2, <2>4, <2>6, <2>10, <2>11
<1>4. QED
  BY <1>2, <1>3

LEMMA CommitHolds ==
  ASSUME FedInv, NEW op \in open, Commit(op), NEW ops, Holds(ops)
  PROVE  Holds(ops)'
<1>1. /\ open' \subseteq open /\ log \subseteq log' /\ clock' = clock
  BY DEF Commit
<1>2. ASSUME NEW e \in Entity
      PROVE  \E k \in 0..clock' : IsLogPrefix(ops, e, k)'
  <2>1. PICK k \in 0..clock : IsLogPrefix(ops, e, k)
    BY DEF Holds
  <2>2. k \in Nat /\ (e = op.entity => k < op.lamport)
    BY <2>1 DEF IsLogPrefix
  <2>3. UpTo(e, k)' = UpTo(e, k)
    BY <2>2, CommitLog
  <2>4. Ops(ops, e)' = Ops(ops, e)
    BY DEF Ops
  <2>5. IsLogPrefix(ops, e, k)'
    BY <1>1, <2>1, <2>3, <2>4 DEF IsLogPrefix
  <2>6. QED
    BY <1>1, <2>1, <2>5
<1>3. QED
  BY <1>1, <1>2 DEF Holds

LEMMA CommitKeeps ==
  ASSUME FedInv, NEW op \in open, Commit(op)
  PROVE  FedInv'
<1>1. /\ UNCHANGED <<files, index, cache, built>>
      /\ past' = [past EXCEPT ![op.entity] = Append(@, Fold(Ops(log', op.entity)))]
  BY DEF Commit
<1>2. past' = [e \in Entity |-> past'[e]]
  BY <1>1 DEF FedInv
<1>3. PastIsFolds'
  BY CommitPast DEF PastIsFolds
<1>4. CopiesHold'
  <2>1. \A f \in files : Holds(f)'
    BY CommitHolds DEF FedInv, CopiesHold
  <2>2. PICK i, b : i = index /\ b = built
    OBVIOUS
  <2>3. Holds(i)' /\ Holds(b)'
    BY <2>2, CommitHolds DEF FedInv, CopiesHold
  <2>4. Holds(index)' /\ Holds(built)'
    BY <1>1, <2>2, <2>3 DEF Holds, IsLogPrefix
  <2>5. QED
    BY <1>1, <2>1, <2>4 DEF FedInv, CopiesHold
<1>5. QED
  BY <1>2, <1>3, <1>4, CommitLog DEF FedInv

-----------------------------------------------------------------------------
(* The copies.                                                             *)

LEMMA ExportedHolds ==
  ASSUME FedInv
  PROVE  Holds(Exported)
<1>0. LogInOrder
  BY DEF FedInv
<1>1. Exported \subseteq log
  BY DEF Exported
<1>2. ASSUME NEW e \in Entity
      PROVE  \E k \in 0..clock : IsLogPrefix(Exported, e, k)
  <2>1. CASE e \notin Live
    <3>1. Ops(Exported, e) = {}
      BY <2>1 DEF Ops, Exported
    <3>2. UpTo(e, 0) = {}
      BY <1>0 DEF UpTo, Ops, LogInOrder
    <3>3. \A o \in open : 0 < o.lamport
      BY <1>0 DEF LogInOrder
    <3>4. 0 \in 0..clock
      BY <1>0 DEF LogInOrder
    <3>5. QED
      BY <3>1, <3>2, <3>3, <3>4 DEF IsLogPrefix
  <2>2. CASE e \in Live
    <3>1. Ops(Exported, e) = Ops(log, e)
      BY <2>2 DEF Ops, Exported
    <3>2. \A o \in Ops(log, e) : o.type # "tombstone"
      BY <2>2, LiveHasNoStone
    <3>3. CASE \A o \in open : o.entity # e
      <4>1. Ops(log, e) = UpTo(e, clock)
        BY <1>0, OpsFinite
      <4>2. clock \in 0..clock
        BY <1>0 DEF LogInOrder
      <4>3. QED
        BY <3>1, <3>2, <3>3, <4>1, <4>2 DEF IsLogPrefix
    <3>4. ASSUME NEW x \in open, x.entity = e
          PROVE  \E k \in 0..clock : IsLogPrefix(Exported, e, k)
      <4> DEFINE k == x.lamport - 1
      <4>1. k \in 0..clock /\ k < x.lamport
        BY <1>0 DEF LogInOrder
      <4>2. \A o \in open : o.entity = e => o = x
        BY <1>0, <3>4 DEF LogInOrder
      <4>3. \A o \in Ops(log, e) : o.lamport \in Nat /\ o.lamport < x.lamport
        BY <1>0, <3>4 DEF LogInOrder, Ops
      <4>4. x.lamport \in Nat
        BY <1>0 DEF LogInOrder
      <4>5. \A o \in Ops(log, e) : o.lamport <= k
        BY <4>3, <4>4
      <4> HIDE DEF k
      <4>6. UpTo(e, k) = Ops(log, e)
        BY <4>5 DEF UpTo
      <4>7. QED
        BY <3>1, <3>2, <4>1, <4>2, <4>6 DEF IsLogPrefix
    <3>5. QED
      BY <3>3, <3>4
  <2>3. QED
    BY <2>1, <2>2
<1>3. QED
  BY <1>1, <1>2 DEF Holds

LEMMA ExportKeeps ==
  ASSUME FedInv, Export
  PROVE  FedInv'
<1>1. PICK x : x = Exported
  OBVIOUS
<1>2. /\ files' = files \cup {x}
      /\ UNCHANGED <<clock, open, log, past, index, cache, built>>
  BY <1>1 DEF Export
<1>3. clock \in Nat
  BY DEF FedInv, LogInOrder
<1>4. ASSUME NEW f \in files' PROVE Holds(f)'
  <2>1. Holds(f)
    BY <1>1, <1>2, ExportedHolds DEF FedInv, CopiesHold
  <2>2. QED
    BY <1>2, <1>3, <2>1, HoldsKept
<1>5. PICK i, b : i = index /\ b = built
  OBVIOUS
<1>6. Holds(i)' /\ Holds(b)'
  BY <1>2, <1>3, <1>5, HoldsKept DEF FedInv, CopiesHold
<1>7. Holds(index)' /\ Holds(built)'
  BY <1>2, <1>5, <1>6 DEF Holds, IsLogPrefix
<1>8. CopiesHold'
  BY <1>2, <1>4, <1>7 DEF FedInv, CopiesHold
<1>9. LogInOrder'
  <2>0. LogInOrder
    BY DEF FedInv
  <2>1. QED
    BY <1>2, <2>0 DEF LogInOrder
<1>10. PastIsFolds'
  BY <1>2, PastKept
<1>11. QED
  BY <1>2, <1>8, <1>9, <1>10 DEF FedInv

(* Two prefixes make a prefix: the longer one.  A file cut short is one.   *)
LEMMA UnionHolds ==
  ASSUME FedInv, NEW a, Holds(a), NEW f, Holds(f), NEW j \in Nat
  PROVE  Holds(a \cup {o \in f : o.lamport <= j})
<1> DEFINE g == {o \in f : o.lamport <= j}
           all == a \cup g
<1>1. all \subseteq log
  BY DEF Holds
<1>2. ASSUME NEW e \in Entity
      PROVE  \E k \in 0..clock : IsLogPrefix(all, e, k)
  <2>1. PICK k \in 0..clock : IsLogPrefix(a, e, k)
    BY DEF Holds
  <2>2. PICK l \in 0..clock : IsLogPrefix(f, e, l)
    BY DEF Holds
  <2>3. /\ Ops(a, e) = UpTo(e, k) /\ Ops(f, e) = UpTo(e, l)
        /\ \A o \in open : o.entity = e => k < o.lamport /\ l < o.lamport
        /\ \A o \in UpTo(e, k) \cup UpTo(e, l) : o.type # "tombstone"
    BY <2>1, <2>2 DEF IsLogPrefix
  <2>4. /\ clock \in Nat /\ k \in Nat /\ l \in Nat
        /\ \A o \in log \cup open : o.lamport \in Nat
    BY DEF FedInv, LogInOrder
  <2>5. PICK s \in 0..clock : s <= l /\ s <= j /\ (s = l \/ s = j)
    <3>1. CASE l <= j
      BY <2>4, <3>1
    <3>2. CASE j < l
      BY <2>4, <3>2
    <3>3. QED
      BY <2>4, <3>1, <3>2
  <2>6. Ops(g, e) = UpTo(e, s)
    <3>1. Ops(g, e) = {o \in UpTo(e, l) : o.lamport <= j}
      BY <2>3 DEF Ops
    <3>2. QED
      BY <2>4, <2>5, <3>1 DEF UpTo, Ops
  <2>7. PICK m \in 0..clock : k <= m /\ s <= m /\ (m = k \/ m = s)
    <3>1. CASE k <= s
      BY <2>4, <2>5, <3>1
    <3>2. CASE s < k
      BY <2>4, <2>5, <3>2
    <3>3. QED
      BY <2>4, <2>5, <3>1, <3>2
  <2>8. Ops(all, e) = Ops(a, e) \cup Ops(g, e)
    BY DEF Ops
  <2>9. Ops(all, e) = UpTo(e, m)
    BY <2>3, <2>4, <2>5, <2>6, <2>7, <2>8 DEF UpTo, Ops
  <2>10. \A o \in open : o.entity = e => m < o.lamport
    BY <2>3, <2>4, <2>5, <2>7
  <2>11. \A o \in UpTo(e, m) : o.type # "tombstone"
    BY <2>3, <2>4, <2>5, <2>7 DEF UpTo, Ops
  <2>12. QED
    BY <2>9, <2>10, <2>11 DEF IsLogPrefix
<1>3. QED
  BY <1>1, <1>2 DEF Holds

LEMMA IngestKeeps ==
  ASSUME FedInv, NEW f \in files, Ingest(f)
  PROVE  FedInv'
<1>1. PICK j \in 0..MaxOps : index' = index \cup {o \in f : o.lamport <= j}
  BY DEF Ingest, Ingested, ReadAs
<1>2. UNCHANGED <<clock, open, log, past, files, cache, built>>
  BY DEF Ingest, Ingested
<1>3. clock \in Nat /\ j \in Nat
  BY FederationBounds DEF FedInv, LogInOrder
<1>4. PICK i, b, n : i = index /\ b = built /\ n = index \cup {o \in f : o.lamport <= j}
  OBVIOUS
<1>5. Holds(n)
  <2>1. Holds(i \cup {o \in f : o.lamport <= j})
    BY <1>3, <1>4, UnionHolds DEF FedInv, CopiesHold
  <2>2. QED
    BY <1>4, <2>1
<1>6. \A g \in files : Holds(g)'
  BY <1>2, <1>3, HoldsKept DEF FedInv, CopiesHold
<1>7. Holds(n)' /\ Holds(b)'
  BY <1>2, <1>3, <1>4, <1>5, HoldsKept DEF FedInv, CopiesHold
<1>8. index' = n /\ built' = b
  BY <1>1, <1>2, <1>4
<1>9. Holds(index)' /\ Holds(built)'
  BY <1>7, <1>8 DEF Holds, IsLogPrefix
<1>10. CopiesHold'
  BY <1>1, <1>2, <1>6, <1>9 DEF FedInv, CopiesHold
<1>11. LogInOrder'
  <2>0. LogInOrder
    BY DEF FedInv
  <2>1. QED
    BY <1>2, <2>0 DEF LogInOrder
<1>12. PastIsFolds'
  BY <1>2, PastKept
<1>13. QED
  BY <1>2, <1>10, <1>11, <1>12 DEF FedInv

LEMMA RebuildKeeps ==
  ASSUME FedInv, Rebuild
  PROVE  FedInv'
<1>1. /\ cache' = [e \in Entity |-> FoldCrossProject(Ops(index, e))]
      /\ built' = index
      /\ UNCHANGED <<clock, open, log, past, files, index>>
  BY DEF Rebuild
<1>2. clock \in Nat
  BY DEF FedInv, LogInOrder
<1>3. \A g \in files : Holds(g)'
  BY <1>1, <1>2, HoldsKept DEF FedInv, CopiesHold
<1>4. PICK i : i = index
  OBVIOUS
<1>5. Holds(i)'
  BY <1>1, <1>2, <1>4, HoldsKept DEF FedInv, CopiesHold
<1>6. Holds(index)' /\ Holds(built)'
  BY <1>1, <1>4, <1>5 DEF Holds, IsLogPrefix
<1>7. CopiesHold'
  BY <1>1, <1>3, <1>6 DEF CopiesHold
<1>8. LogInOrder'
  <2>0. LogInOrder
    BY DEF FedInv
  <2>1. QED
    BY <1>1, <2>0 DEF LogInOrder
<1>9. PastIsFolds'
  BY <1>1, PastKept
<1>10. QED
  BY <1>1, <1>7, <1>8, <1>9 DEF FedInv

LEMMA FedStep ==
  ASSUME FedInv, [FederationNext]_federationVars
  PROVE  FedInv'
<1>1. CASE UNCHANGED federationVars
  <2>1. UNCHANGED <<clock, open, log, past, files, index, cache, built>>
    BY <1>1 DEF federationVars
  <2>2. LogInOrder /\ clock \in Nat
    BY DEF FedInv, LogInOrder
  <2>3. LogInOrder'
    BY <2>1, <2>2 DEF LogInOrder
  <2>4. PastIsFolds'
    BY <2>1, PastKept
  <2>5. CopiesHold'
    BY <2>1, <2>2, CopiesKept
  <2>6. QED
    BY <2>1, <2>3, <2>4, <2>5 DEF FedInv
<1>2. CASE FederationNext
  BY <1>2, FileKeeps, CommandKeeps, CommitKeeps, RollbackKeeps, ExportKeeps,
     IngestKeeps, RebuildKeeps DEF FederationNext
<1>3. QED
  BY <1>1, <1>2

-----------------------------------------------------------------------------
(* What a copy shows of an item only moves forward.                        *)

LEMMA AppendKeepsFront ==
  ASSUME NEW S, NEW s \in Seq(S), NEW x \in S
  PROVE  Len(Append(s, x)) = Len(s) + 1 /\ SubSeq(Append(s, x), 1, Len(s)) = s
<1> DEFINE t == Append(s, x)
           u == SubSeq(t, 1, Len(s))
<1>1. /\ t \in Seq(S) /\ Len(t) = Len(s) + 1 /\ Len(s) \in Nat
      /\ \A i \in 1..Len(s) : t[i] = s[i]
  BY AppendProperties
<1>2. \A i \in 1..Len(s) : t[i] \in S
  BY <1>1, ElementOfSeq
<1> HIDE DEF t
<1>3. /\ u \in Seq(S) /\ Len(u) = Len(s)
      /\ \A i \in 1..Len(s) : u[i] = t[i]
  <2>1. /\ u \in Seq(S)
        /\ Len(u) = IF 1 <= Len(s) THEN Len(s) - 1 + 1 ELSE 0
        /\ \A i \in 1..(Len(s) - 1 + 1) : u[i] = t[1 + i - 1]
    BY <1>1, <1>2, SubSeqProperties
  <2> HIDE DEF u
  <2>2. QED
    BY <1>1, <2>1
<1> HIDE DEF u
<1>4. u = s
  BY <1>1, <1>3, SeqEqual
<1>5. QED
  BY <1>1, <1>4 DEF t, u

LEMMA CopyStep ==
  ASSUME FedInv, FedInv', [FederationNext]_federationVars, NEW e \in Entity
  PROVE  [Copy(e)!Next]_<<past[e], Cardinality(Ops(built, e)), cache[e]>>
<1>1. CASE Rebuild
  <2>1. built' = index /\ past' = past
    BY <1>1 DEF Rebuild
  <2>2. Ops(built, e) \subseteq Ops(index, e) /\ Holds(index) /\ Holds(built)
    BY DEF FedInv, CopiesHold, Ops
  <2>3. IsFiniteSet(Ops(index, e))
    <3>1. index \subseteq log /\ IsFiniteSet(log)
      BY <2>2 DEF Holds, FedInv, LogInOrder
    <3>2. QED
      BY <3>1, FS_Subset DEF Ops
  <2>4. /\ Cardinality(Ops(built, e)) <= Cardinality(Ops(index, e))
        /\ Cardinality(Ops(built, e)) \in Nat /\ Cardinality(Ops(index, e)) \in Nat
    BY <2>2, <2>3, FS_Subset, FS_CardinalityType
  <2>5. /\ Cardinality(Ops(index, e)) + 1 \in 1..Len(past[e])
        /\ FoldCrossProject(Ops(index, e)) = past[e][Cardinality(Ops(index, e)) + 1]
    <3>1. PICK i : i = index
      OBVIOUS
    <3>2. QED
      BY <2>2, <3>1, ShownIsPast
  <2>6. cache'[e] = FoldCrossProject(Ops(index, e))
    BY <1>1 DEF Rebuild
  <2>7. Cardinality(Ops(built, e)') = Cardinality(Ops(index, e))
    BY <2>1 DEF Ops
  <2>8. Copy(e)!CatchUp
    BY <2>1, <2>4, <2>5, <2>6, <2>7 DEF Copy!CatchUp
  <2>9. QED
    BY <2>8 DEF Copy!Next
<1>2. ASSUME NEW op \in open, Commit(op)
      PROVE  [Copy(e)!Next]_<<past[e], Cardinality(Ops(built, e)), cache[e]>>
  <2>1. /\ UNCHANGED <<cache, built>>
        /\ past' = [past EXCEPT ![op.entity] = Append(@, Fold(Ops(log', op.entity)))]
    BY <1>2 DEF Commit
  <2>2. Ops(built, e)' = Ops(built, e)
    BY <2>1 DEF Ops
  <2>3. CASE e # op.entity
    <3>1. past'[e] = past[e] /\ cache'[e] = cache[e]
      BY <2>1, <2>3 DEF FedInv
    <3>2. QED
      BY <2>2, <3>1
  <2>4. CASE e = op.entity
    <3>1. PICK r : r = Fold(Ops(log', op.entity))
      OBVIOUS
    <3>2. past'[e] = Append(past[e], r) /\ cache'[e] = cache[e]
      BY <2>1, <2>4, <3>1 DEF FedInv
    <3>3. PICK S : past[e] \in Seq(S)
      BY DEF FedInv, PastIsFolds
    <3>4. past[e] \in Seq(S \cup {r})
      BY <3>3
    <3>5. PICK s, t : s = past[e] /\ t = past'[e]
      OBVIOUS
    <3>6. s \in Seq(S \cup {r}) /\ t = Append(s, r)
      BY <3>2, <3>4, <3>5
    <3>7. Len(t) = Len(s) + 1 /\ SubSeq(t, 1, Len(s)) = s
      BY <3>6, AppendKeepsFront
    <3>8. Copy(e)!Change
      BY <2>2, <3>2, <3>5, <3>7 DEF Copy!Change
    <3>9. QED
      BY <3>8 DEF Copy!Next
  <2>5. QED
    BY <2>3, <2>4
<1>3. CASE UNCHANGED <<past, built, cache>>
  BY <1>3 DEF Ops
<1>4. QED
  <2>1. CASE UNCHANGED federationVars
    BY <1>3, <2>1 DEF federationVars
  <2>2. CASE FederationNext /\ ~Rebuild /\ ~\E op \in open : Commit(op)
    <3>1. UNCHANGED <<past, built, cache>>
      BY <2>2 DEF FederationNext, File, Command, BeginTx, Rollback, Export, Ingest, Ingested
    <3>2. QED
      BY <1>3, <3>1
  <2>3. QED
    BY <1>1, <1>2, <2>1, <2>2

LEMMA CopyInit ==
  ASSUME FederationInit
  PROVE  \A e \in Entity : Copy(e)!Init
<1> SUFFICES ASSUME NEW e \in Entity PROVE Copy(e)!Init
  OBVIOUS
<1>1. past[e] = <<Absent>> /\ built = {} /\ cache[e] = Absent
  BY DEF FederationInit
<1>2. Cardinality(Ops(built, e)) = 0
  BY <1>1, FS_EmptySet DEF Ops
<1>3. Cardinality(Ops(built, e)) + 1 = 1
  BY <1>2
<1>4. QED
  BY <1>1, <1>3 DEF Copy!Init

(* What is shown here of another project's item is a row its own database  *)
(* gave it, and never an older one than was shown before: for any exports, *)
(* lost, late, repeated or cut short (cross_project ingest and rebuild).   *)
THEOREM CopiesLag == FederationSpec => ImplementsLaggingCopy
<1>1. FederationInit => FedInv /\ \A e \in Entity : Copy(e)!Init
  BY FedInit, CopyInit
<1>2. FedInv /\ [FederationNext]_federationVars => FedInv'
  BY FedStep
<1>3. FedInv /\ FedInv' /\ [FederationNext]_federationVars =>
        [<<past, built, cache>>' # <<past, built, cache>> =>
           \A e \in Entity :
             [Copy(e)!Next]_<<past[e], Cardinality(Ops(built, e)), cache[e]>>]_federationVars
  BY CopyStep
<1>4. QED
  BY <1>1, <1>2, <1>3, PTL DEF FederationSpec, ImplementsLaggingCopy

(* A link to a known item of another project holds ours back until that    *)
(* item was completed there (work_items_ready_v, migration 861).           *)
THEOREM ReadyMeansCompleted == FederationSpec => []CompletedBeforeReady
<1>1. FederationInit => FedInv
  BY FedInit
<1>2. FedInv /\ [FederationNext]_federationVars => FedInv'
  BY FedStep
<1>3. FedInv => CompletedBeforeReady
  <2> SUFFICES ASSUME FedInv, NEW n \in Name, NEW e \in Cached(n), Ready({n})
               PROVE  \E k \in DOMAIN past[e] : past[e][k].status \in IsTerminal
    BY DEF CompletedBeforeReady
  <2>1. e \in Entity /\ cache[e].status \in IsTerminal
    BY DEF Ready, Blocks, Cached
  <2>2. cache[e] = FoldCrossProject(Ops(built, e)) /\ Holds(built)
    BY <2>1 DEF FedInv, CopiesHold
  <2>3. PICK b : b = built
    OBVIOUS
  <2>4. /\ Cardinality(Ops(b, e)) + 1 \in 1..Len(past[e])
        /\ cache[e] = past[e][Cardinality(Ops(b, e)) + 1]
    BY <2>1, <2>2, <2>3, ShownIsPast
  <2>5. PICK S : past[e] \in Seq(S)
    BY <2>1 DEF FedInv, PastIsFolds
  <2>6. DOMAIN past[e] = 1..Len(past[e])
    BY <2>5
  <2>7. QED
    BY <2>1, <2>4, <2>6
<1>4. QED
  BY <1>1, <1>2, <1>3, PTL DEF FederationSpec

-----------------------------------------------------------------------------
(* The trigger loop: a dependent hears of a closing in one post.  Events   *)
(* are taken in order, so what the buffer and the channels hold is older   *)
(* than what is queued.                                                    *)

Event == [type : {"link", "request", "wait", "closed", "changed"}, dep : Everyone]

(* Event n is known and not waiting to be taken: all that wait are later.  *)
Taken(n) == n \in 1..Len(events) /\ \A i \in 1..Len(queue) : n < queue[i]

QueueInOrder ==
  /\ events \in Seq(Event) /\ queue \in Seq(Nat)
  /\ \A i \in 1..Len(queue) : queue[i] \in 1..Len(events)
  /\ \A i, j \in 1..Len(queue) : i < j => queue[i] < queue[j]

WakesAreTaken ==
  /\ \A w \in buffer : Taken(w.event)
  /\ \A p \in delivered : \A w \in p : Taken(w.event)

(* What was posted for someone is not in the buffer again. *)
PostedOrBuffered ==
  \A p \in delivered : \A v \in p, w \in buffer : ~(v.event = w.event /\ v.for = w.for)

TriggerInv == QueueInOrder /\ WakesAreTaken /\ PostedOrBuffered /\ OnePostPerClosing

LEMMA TriggerInitInv == TriggerInit => TriggerInv
BY DEF TriggerInit, TriggerInv, QueueInOrder, WakesAreTaken, PostedOrBuffered,
   OnePostPerClosing

(* A command adds one event at the end, or none. *)
LEMMA EmitKeeps ==
  ASSUME TriggerInv, NEW type \in {"link", "request", "wait", "closed", "changed"},
         NEW dep \in Everyone, Emit(type, dep)
  PROVE  TriggerInv'
<1> DEFINE e == [type |-> type, dep |-> dep]
<1>1. /\ events' = Append(events, e) /\ e \in Event
      /\ queue' = queue \/ queue' = Append(queue, Len(events) + 1)
      /\ buffer' = buffer /\ delivered' = delivered
  BY DEF Emit, Notify, Event
<1> HIDE DEF e
<1>2. /\ events \in Seq(Event) /\ Len(events) \in Nat /\ queue \in Seq(Nat) /\ Len(queue) \in Nat
      /\ \A i \in 1..Len(queue) : queue[i] \in 1..Len(events)
      /\ \A i, j \in 1..Len(queue) : i < j => queue[i] < queue[j]
  BY DEF TriggerInv, QueueInOrder
<1>3. events' \in Seq(Event) /\ Len(events') = Len(events) + 1
  BY <1>1, <1>2, AppendProperties
<1>4. QueueInOrder' /\ \A n : Taken(n) => Taken(n)'
  <2>1. CASE queue' = queue
    BY <1>2, <1>3, <2>1 DEF QueueInOrder, Taken
  <2>2. CASE queue' = Append(queue, Len(events) + 1)
    <3>1. /\ queue' \in Seq(Nat) /\ Len(queue') = Len(queue) + 1
          /\ \A i \in 1..Len(queue) : queue'[i] = queue[i]
          /\ queue'[Len(queue) + 1] = Len(events) + 1
      BY <1>2, <2>2, AppendProperties
    <3>2. ASSUME NEW i \in 1..Len(queue') PROVE queue'[i] \in 1..Len(events')
      <4>1. CASE i \in 1..Len(queue)
        BY <1>2, <1>3, <3>1, <4>1
      <4>2. CASE i = Len(queue) + 1
        BY <1>2, <1>3, <3>1, <4>2
      <4>3. QED
        BY <1>2, <3>1, <4>1, <4>2
    <3>3. ASSUME NEW i \in 1..Len(queue'), NEW j \in 1..Len(queue'), i < j
          PROVE  queue'[i] < queue'[j]
      <4>1. i \in 1..Len(queue) /\ queue'[i] = queue[i] /\ queue[i] \in 1..Len(events)
        BY <1>2, <3>1, <3>3
      <4>2. CASE j \in 1..Len(queue)
        BY <1>2, <3>1, <3>3, <4>1, <4>2
      <4>3. CASE j = Len(queue) + 1
        BY <1>2, <3>1, <4>1, <4>3
      <4>4. QED
        BY <1>2, <3>1, <4>2, <4>3
    <3>4. ASSUME NEW n, Taken(n) PROVE Taken(n)'
      <4>1. n \in 1..Len(events) /\ n \in 1..Len(events')
        BY <1>2, <1>3, <3>4 DEF Taken
      <4>2. ASSUME NEW i \in 1..Len(queue') PROVE n < queue'[i]
        <5>1. CASE i \in 1..Len(queue)
          BY <3>1, <3>4, <5>1 DEF Taken
        <5>2. CASE i = Len(queue) + 1
          BY <1>2, <3>1, <4>1, <5>2
        <5>3. QED
          BY <1>2, <3>1, <4>2, <5>1, <5>2
      <4>3. QED
        BY <4>1, <4>2 DEF Taken
    <3>5. QED
      BY <1>3, <3>1, <3>2, <3>3, <3>4 DEF QueueInOrder
  <2>3. QED
    BY <1>1, <2>1, <2>2
<1>6. WakesAreTaken'
  BY <1>1, <1>4 DEF TriggerInv, WakesAreTaken
<1>7. QED
  BY <1>1, <1>4, <1>6 DEF TriggerInv, PostedOrBuffered, OnePostPerClosing

(* A step that leaves events, queue, buffer and posts as they are. *)
LEMMA OthersKeep ==
  ASSUME TriggerInv, UNCHANGED <<events, queue, buffer, delivered>>
  PROVE  TriggerInv'
BY DEF TriggerInv, QueueInOrder, WakesAreTaken, Taken, PostedOrBuffered, OnePostPerClosing

LEMMA TriggerCommandKeeps ==
  ASSUME TriggerInv, Commands
  PROVE  TriggerInv'
<1>1. \/ UNCHANGED <<events, queue, buffer, delivered>>
      \/ \E type \in {"link", "request", "wait", "closed", "changed"}, dep \in Everyone :
           Emit(type, dep)
  <2>1. ASSUME NEW d \in Dep,
               LinkEdge(d) \/ LinkMirror(d) \/ LinkDies(d) \/ LinkAdd(d) \/ Unlink(d)
        PROVE  UNCHANGED <<events, queue, buffer, delivered>>
    BY <2>1 DEF LinkEdge, LinkMirror, LinkDies, LinkAdd, Unlink
  <2>2. ASSUME NEW d \in Dep, LinkEvent(d) \/ Wait(d)
        PROVE  Emit("link", Home) \/ Emit("wait", d)
    BY <2>2 DEF LinkEvent, Wait
  <2>3. ASSUME Request \/ Close \/ \E s \in {"live", "done", "deleted"} : Update(s)
        PROVE  \E type \in {"request", "closed", "changed"} : Emit(type, Home)
    BY <2>3 DEF Request, Close, Update
  <2>4. Home \in Everyone /\ Dep \subseteq Everyone
    BY DEF Everyone
  <2>5. QED
    BY <2>1, <2>2, <2>3, <2>4, TriggerLoopBounds DEF Commands, LinkCrossCommand
<1>2. QED
  BY <1>1, EmitKeeps, OthersKeep

LEMMA RouteEvent == \A n : \A w \in Route(n) : w.event = n
BY DEF Route

(* What is routed is later than all that was; nothing of it was posted.    *)
LEMMA TakeKeeps ==
  ASSUME TriggerInv, Take
  PROVE  TriggerInv'
<1>0. PICK n : n = Head(queue)
  OBVIOUS
<1>1. PICK k \in 1..Len(queue) : queue' = SubSeq(queue, k + 1, Len(queue))
  BY DEF Take
<1>2. /\ events \in Seq(Event) /\ Len(events) \in Nat /\ queue \in Seq(Nat) /\ Len(queue) \in Nat
      /\ \A i \in 1..Len(queue) : queue[i] \in 1..Len(events)
      /\ \A i, j \in 1..Len(queue) : i < j => queue[i] < queue[j]
  BY DEF TriggerInv, QueueInOrder
<1>3. /\ buffer' = buffer \cup Route(n) /\ events' = events /\ delivered' = delivered
      /\ n = queue[1] /\ 1 \in 1..Len(queue)
  BY <1>0, <1>2 DEF Take, table
<1>4. /\ queue' \in Seq(Nat) /\ Len(queue') = Len(queue) - k /\ Len(queue') \in Nat
      /\ \A i \in 1..Len(queue') : queue'[i] = queue[i + k] /\ i + k \in 2..Len(queue)
  <2>1. k + 1 \in Int /\ Len(queue) \in Int /\ \A i \in (k + 1)..Len(queue) : queue[i] \in Nat
    BY <1>2
  <2>2. /\ queue' \in Seq(Nat)
        /\ Len(queue') = IF k + 1 <= Len(queue) THEN Len(queue) - (k + 1) + 1 ELSE 0
        /\ \A i \in 1..(Len(queue) - (k + 1) + 1) : queue'[i] = queue[k + 1 + i - 1]
    BY <1>1, <2>1, SubSeqProperties
  <2>3. QED
    BY <1>2, <2>2
<1>5. QueueInOrder'
  <2>1. \A i, j \in 1..Len(queue') : i < j => queue'[i] < queue'[j]
    <3> TAKE i, j \in 1..Len(queue')
    <3> HAVE i < j
    <3>1. i + k \in 1..Len(queue) /\ j + k \in 1..Len(queue) /\ i + k < j + k
      BY <1>2, <1>4
    <3>2. QED
      BY <1>2, <1>4, <3>1
  <2>2. ASSUME NEW i \in 1..Len(queue') PROVE queue'[i] \in 1..Len(events')
    <3>1. i + k \in 1..Len(queue) /\ queue'[i] = queue[i + k]
      BY <1>2, <1>4
    <3>2. QED
      BY <1>2, <1>3, <3>1
  <2>3. QED
    BY <1>2, <1>3, <1>4, <2>1, <2>2 DEF QueueInOrder
<1>6. Taken(n)' /\ \A m : Taken(m) => Taken(m)' /\ m < n
  <2>1. ASSUME NEW i \in 1..Len(queue') PROVE n < queue'[i]
    <3>1. i + k \in 1..Len(queue) /\ 1 < i + k /\ queue'[i] = queue[i + k]
      BY <1>2, <1>4
    <3>2. QED
      BY <1>2, <1>3, <3>1
  <2>2. Taken(n)'
    <3>1. n \in 1..Len(events')
      BY <1>2, <1>3
    <3>2. QED
      BY <2>1, <3>1 DEF Taken
  <2>3. ASSUME NEW m, Taken(m) PROVE Taken(m)' /\ m < n
    <3>1. m \in 1..Len(events') /\ m < n
      BY <1>3, <2>3 DEF Taken
    <3>2. ASSUME NEW i \in 1..Len(queue') PROVE m < queue'[i]
      <4>1. i + k \in 1..Len(queue) /\ queue'[i] = queue[i + k]
        BY <1>2, <1>4
      <4>2. QED
        BY <2>3, <4>1 DEF Taken
    <3>3. QED
      BY <3>1, <3>2 DEF Taken
  <2>4. QED
    BY <2>2, <2>3
<1>7. WakesAreTaken'
  BY <1>3, <1>6, RouteEvent DEF TriggerInv, WakesAreTaken
<1>8. PostedOrBuffered'
  <2> SUFFICES ASSUME NEW p \in delivered, NEW v \in p, NEW w \in buffer',
                      v.event = w.event, v.for = w.for
               PROVE  FALSE
    BY <1>3 DEF PostedOrBuffered
  <2>1. Taken(v.event) /\ v.event < n
    BY <1>6 DEF TriggerInv, WakesAreTaken
  <2>2. n \in Nat /\ v.event \in Nat
    BY <1>2, <1>3, <2>1 DEF Taken
  <2>3. w \notin Route(n)
    BY <2>1, <2>2, RouteEvent
  <2>4. QED
    BY <1>3, <2>3 DEF TriggerInv, PostedOrBuffered
<1>9. QED
  BY <1>3, <1>5, <1>7, <1>8 DEF TriggerInv, OnePostPerClosing

(* A post takes all wakes of its channel out of the buffer. *)
LEMMA PostKeeps ==
  ASSUME TriggerInv, NEW w \in buffer, Arrives(w) \/ Dropped(w)
  PROVE  TriggerInv'
<1>1. /\ buffer' = buffer \ Group(w) /\ events' = events /\ queue' = queue
      /\ delivered' \in {delivered, delivered \cup {Group(w)}}
  BY DEF Arrives, Dropped, Posted, table
<1>2. Group(w) \subseteq buffer /\ \A x \in Group(w), y \in buffer : x.for = y.for => y \in Group(w)
  BY DEF Group
<1>3. QueueInOrder' /\ \A n : Taken(n)' <=> Taken(n)
  BY <1>1 DEF TriggerInv, QueueInOrder, Taken
<1>4. WakesAreTaken'
  BY <1>1, <1>2, <1>3 DEF TriggerInv, WakesAreTaken
<1>5. PostedOrBuffered'
  BY <1>1, <1>2 DEF TriggerInv, PostedOrBuffered
<1>6. OnePostPerClosing'
  BY <1>1, <1>2 DEF TriggerInv, PostedOrBuffered, OnePostPerClosing
<1>7. QED
  BY <1>3, <1>4, <1>5, <1>6 DEF TriggerInv

LEMMA DiesKeeps ==
  ASSUME TriggerInv, Dies
  PROVE  TriggerInv'
<1>1. events' = events /\ queue' = <<>> /\ buffer' = {} /\ delivered' = delivered
  BY DEF Dies, table
<1>2. \A n : Taken(n) => Taken(n)'
  BY <1>1 DEF Taken
<1>3. QED
  BY <1>1, <1>2 DEF TriggerInv, QueueInOrder, WakesAreTaken, PostedOrBuffered,
     OnePostPerClosing

LEMMA TriggerStepInv == TriggerInv /\ [TriggerNext]_triggerVars => TriggerInv'
<1>1. ASSUME Listen \/ Flush \/ UNCHANGED triggerVars
      PROVE  UNCHANGED <<events, queue, buffer, delivered>>
  BY <1>1 DEF Listen, Flush, triggerVars, table
<1>2. QED
  BY <1>1, TriggerCommandKeeps, TakeKeeps, PostKeeps, DiesKeeps, OthersKeep DEF TriggerNext

(* One POST to a dependent for each closing, whatever is linked, however   *)
(* often the loop dies and whatever the channels drop.                     *)
THEOREM OnePostStands == TriggerSpec => []OnePostPerClosing
<1>1. TriggerInv => OnePostPerClosing
  BY DEF TriggerInv
<1>2. QED
  BY <1>1, TriggerInitInv, TriggerStepInv, PTL DEF TriggerSpec
-----------------------------------------------------------------------------
(* What DependentsWoken asks of every single step: a dependent with a target *)
(* that is owed the news of a closing is owed it until it hears, a fault   *)
(* loses it, the item is deleted or the link is removed.  A wake in the    *)
(* buffer is owed though the link goes.                                    *)

ToHear(n, d) ==
  Pending(n) /\ events[n].type = "closed" /\ d \in Linked /\ d \in Reached

Buffered(n, d) == \E w \in buffer : w.event = n /\ w.for = d

Settled(n, d) == Woken(n, d) \/ <<n, d>> \in missed

StaysOwed(n, d) ==
  /\ ToHear(n, d) => (ToHear(n, d) \/ Buffered(n, d) \/ Settled(n, d)
                       \/ item = "deleted" \/ d \notin Linked)'
  /\ Buffered(n, d) => (Buffered(n, d) \/ Settled(n, d))'
  /\ Settled(n, d) => Settled(n, d)'

WakesHandedOn == [][\A n \in Nat, d \in Dep : StaysOwed(n, d)]_triggerVars

LEMMA ReachedStays == Reached' = Reached
BY DEF Reached, Target, Everyone

(* A step that adds to what is queued, buffered, posted and missed. *)
LEMMA MoreStaysOwed ==
  ASSUME TriggerInv, NEW n, NEW d,
         \A i \in 1..Len(queue) : i \in 1..Len(queue') /\ queue'[i] = queue[i],
         \A i \in 1..Len(events) : events'[i] = events[i],
         buffer \subseteq buffer', delivered \subseteq delivered',
         missed \subseteq missed', queue' \in Seq(Nat)
  PROVE  StaysOwed(n, d)
<1>1. /\ queue \in Seq(Nat) /\ DOMAIN queue = 1..Len(queue) /\ DOMAIN queue' = 1..Len(queue')
      /\ \A i \in 1..Len(queue) : queue[i] \in 1..Len(events)
  BY DEF TriggerInv, QueueInOrder
<1>2. (Settled(n, d) => Settled(n, d)') /\ (Buffered(n, d) => Buffered(n, d)')
  BY DEF Settled, Woken, Buffered
<1>3. Pending(n) => Pending(n)' /\ events'[n] = events[n]
  BY <1>1 DEF Pending
<1>4. QED
  BY <1>2, <1>3, ReachedStays DEF StaysOwed, ToHear

LEMMA CommandStaysOwed ==
  ASSUME TriggerInv, Commands, NEW n, NEW d
  PROVE  StaysOwed(n, d)
<1>0. TriggerInv'
  BY TriggerCommandKeeps
<1>1. events \in Seq(Event) /\ queue \in Seq(Nat) /\ queue' \in Seq(Nat)
  BY <1>0 DEF TriggerInv, QueueInOrder
<1>2. /\ buffer' = buffer /\ delivered' = delivered
      /\ missed \subseteq missed'
      /\ events' = events \/ \E e : events' = Append(events, e)
      /\ queue' = queue \/ queue' = Append(queue, Len(events) + 1)
  <2>1. ASSUME NEW type, NEW dep, Emit(type, dep)
        PROVE  /\ buffer' = buffer /\ delivered' = delivered /\ missed \subseteq missed'
               /\ \E e : events' = Append(events, e)
               /\ queue' = queue \/ queue' = Append(queue, Len(events) + 1)
    BY <2>1 DEF Emit, Notify
  <2>2. ASSUME NEW c \in Dep,
               LinkEdge(c) \/ LinkMirror(c) \/ LinkDies(c) \/ LinkAdd(c) \/ Unlink(c)
        PROVE  UNCHANGED <<events, queue, buffer, delivered, missed>>
    BY <2>2 DEF LinkEdge, LinkMirror, LinkDies, LinkAdd, Unlink
  <2>3. ASSUME NEW c \in Dep, LinkEvent(c) \/ Wait(c)
        PROVE  \E type, dep : Emit(type, dep)
    BY <2>3 DEF LinkEvent, Wait
  <2>4. ASSUME Request \/ Close \/ \E s \in {"live", "done", "deleted"} : Update(s)
        PROVE  \E type, dep : Emit(type, dep)
    BY <2>4 DEF Request, Close, Update
  <2>5. QED
    BY <2>1, <2>2, <2>3, <2>4, TriggerLoopBounds DEF Commands, LinkCrossCommand
<1>3. \A i \in 1..Len(events) : events'[i] = events[i]
  BY <1>1, <1>2, AppendProperties
<1>4. \A i \in 1..Len(queue) : i \in 1..Len(queue') /\ queue'[i] = queue[i]
  <2>1. Len(events) + 1 \in Nat
    BY <1>1
  <2>2. QED
    BY <1>1, <1>2, <2>1, AppendProperties
<1>5. QED
  BY <1>1, <1>2, <1>3, <1>4, MoreStaysOwed

LEMMA TakeStaysOwed ==
  ASSUME TriggerInv, Take, NEW n, NEW d \in Dep
  PROVE  StaysOwed(n, d)
<1>1. /\ queue \in Seq(Nat) /\ DOMAIN queue = 1..Len(queue) /\ Len(queue) \in Nat
      /\ buffer' = buffer \cup Route(Head(queue)) /\ queue # <<>>
      /\ UNCHANGED <<table, delivered>>
  BY DEF TriggerInv, QueueInOrder, Take
<1>2. PICK k \in 1..Len(queue) :
        /\ queue' = SubSeq(queue, k + 1, Len(queue))
        /\ missed' = missed \cup Missing({queue[i] : i \in 2..k})
  BY DEF Take
<1>3. /\ Len(queue') = Len(queue) - k /\ Len(queue') \in Nat
      /\ DOMAIN queue' = 1..Len(queue')
      /\ \A i \in 1..Len(queue') : queue'[i] = queue[i + k]
  <2>1. k + 1 \in Int /\ Len(queue) \in Int /\ \A i \in (k + 1)..Len(queue) : queue[i] \in Nat
    BY <1>1
  <2>2. /\ queue' \in Seq(Nat)
        /\ Len(queue') = IF k + 1 <= Len(queue) THEN Len(queue) - (k + 1) + 1 ELSE 0
        /\ \A i \in 1..(Len(queue) - (k + 1) + 1) : queue'[i] = queue[k + 1 + i - 1]
    BY <1>2, <2>1, SubSeqProperties
  <2>3. Len(queue') = Len(queue) - k /\ Len(queue') \in Nat
    <3> DEFINE was == Len(queue)
               is == Len(queue')
    <3>1. was \in Nat /\ k \in Int /\ 1 <= k /\ k <= was
      BY <1>1
    <3>2. is = IF k + 1 <= was THEN was - (k + 1) + 1 ELSE 0
      BY <2>2
    <3> HIDE DEF was, is
    <3>3. is = was - k /\ is \in Nat
      BY <3>1, <3>2
    <3>4. QED
      BY <3>3 DEF was, is
  <2>4. DOMAIN queue' = 1..Len(queue')
    BY <2>2
  <2>5. ASSUME NEW i \in 1..Len(queue') PROVE queue'[i] = queue[i + k]
    <3>1. i \in 1..(Len(queue) - (k + 1) + 1) /\ k + 1 + i - 1 = i + k
      BY <1>1, <2>3
    <3>2. queue'[i] = queue[k + 1 + i - 1]
      BY <2>2, <3>1
    <3>3. QED
      BY <3>1, <3>2
  <2>6. QED
    BY <2>3, <2>4, <2>5
<1>4. (Settled(n, d) => Settled(n, d)') /\ (Buffered(n, d) => Buffered(n, d)')
  BY <1>1, <1>2 DEF Settled, Woken, Buffered
<1>5. ASSUME ToHear(n, d), item # "deleted"
      PROVE  (ToHear(n, d) \/ Buffered(n, d) \/ Settled(n, d))'
  <2>1. PICK i \in 1..Len(queue) : queue[i] = n
    BY <1>1, <1>5 DEF ToHear, Pending
  <2>2. CASE i = 1
    <3>1. Head(queue) = n
      BY <1>1, <2>1, <2>2
    <3>2. PICK via \in {"links", "cross"} : <<d, via>> \in Dependents
      BY <1>5 DEF ToHear, Linked, Dependents
    <3>3. <<d, via>> \in Concerned(n) /\ d \in Reached
      BY <1>5, <3>2 DEF ToHear, Concerned
    <3>4. [event |-> n, for |-> d, via |-> via] \in Route(n)
      BY <3>3 DEF Route
    <3>5. QED
      BY <1>1, <3>1, <3>4 DEF Buffered
  <2>3. CASE i \in 2..k
    <3>1. <<n, d>> \in Missing({queue[j] : j \in 2..k})
      BY <2>1, <2>3 DEF Missing, Everyone
    <3>2. QED
      BY <1>2, <3>1 DEF Settled
  <2>4. CASE i > k
    <3>1. i - k \in 1..Len(queue') /\ queue'[i - k] = n
      BY <1>1, <1>3, <2>1, <2>4
    <3>2. Pending(n)'
      BY <1>3, <3>1 DEF Pending
    <3>3. QED
      BY <1>1, <1>5, <3>2, ReachedStays DEF ToHear, Linked, table
  <2>5. QED
    BY <1>1, <2>1, <2>2, <2>3, <2>4
<1>6. QED
  BY <1>1, <1>4, <1>5 DEF StaysOwed, table

LEMMA PostStaysOwed ==
  ASSUME NEW w \in buffer, Arrives(w) \/ Dropped(w), NEW n, NEW d
  PROVE  StaysOwed(n, d)
<1>1. /\ UNCHANGED <<queue, events, edges, mirror>> /\ buffer' = buffer \ Group(w)
      /\ \/ delivered' = delivered \cup {Group(w)} /\ missed' = missed
         \/ /\ delivered \subseteq delivered'
            /\ missed' = missed \cup {<<x.event, x.for>> : x \in Group(w)}
  BY DEF Arrives, Dropped, Posted, table
<1>2. ToHear(n, d) => ToHear(n, d)'
  BY <1>1, ReachedStays DEF ToHear, Linked, Pending
<1>3. /\ Buffered(n, d) => (Buffered(n, d) \/ Settled(n, d))'
      /\ Settled(n, d) => Settled(n, d)'
  BY <1>1 DEF Buffered, Settled, Woken
<1>4. QED
  BY <1>2, <1>3 DEF StaysOwed

LEMMA DiesStaysOwed ==
  ASSUME TriggerInv, Dies, NEW n, NEW d \in Dep
  PROVE  StaysOwed(n, d)
<1>1. /\ delivered' = delivered
      /\ missed' = missed \cup {<<x.event, x.for>> : x \in buffer}
                          \cup Missing({queue[i] : i \in DOMAIN queue})
  BY DEF Dies
<1>2. ToHear(n, d) \/ Buffered(n, d) => <<n, d>> \in missed'
  BY <1>1 DEF ToHear, Buffered, Pending, Missing, Everyone
<1>3. QED
  BY <1>1, <1>2 DEF StaysOwed, Settled, Woken

(* Whatever is linked and unlinked with either command, however often the  *)
(* loop dies and whatever a channel drops: a dependent with a target that  *)
(* was linked when an item was closed stays to be woken until its wake is  *)
(* in the buffer, the link or the item is gone, or a fault is recorded for *)
(* it; a wake in the buffer stays until it is posted or a fault is recorded *)
(* (_route_item_closed, _flush).  Dependents without a target are owed     *)
(* nothing.                                                                *)
THEOREM OwedIsHandedOn == TriggerSpec => WakesHandedOn
<1>1. ASSUME TriggerInv, [TriggerNext]_triggerVars, NEW n, NEW d \in Dep
      PROVE  StaysOwed(n, d)
  <2>1. CASE Listen \/ Flush \/ UNCHANGED triggerVars
    <3>1. UNCHANGED <<edges, mirror, events, queue, buffer, delivered, missed>>
      BY <2>1 DEF Listen, Flush, triggerVars, table
    <3>2. QED
      BY <3>1, ReachedStays DEF StaysOwed, ToHear, Linked, Buffered, Settled, Woken, Pending
  <2>2. QED
    BY <1>1, <2>1, CommandStaysOwed, TakeStaysOwed, PostStaysOwed, DiesStaysOwed
       DEF TriggerNext
<1>2. TriggerInv /\ [TriggerNext]_triggerVars
        => [\A n \in Nat, d \in Dep : StaysOwed(n, d)]_triggerVars
  BY <1>1
<1>3. QED
  BY <1>2, TriggerInitInv, TriggerStepInv, PTL DEF TriggerSpec, WakesHandedOn
=============================================================================
