--------------------------- MODULE WorkItemProofs ---------------------------
(***************************************************************************)
(* What Leases and WorkItem guarantee for every set of processes,          *)
(* lineages, contents and bounds.  Most arguments are about which ops a    *)
(* command writes, by whom and when; those about the row use what the fold *)
(* of a log is (OpLogProofs).                                              *)
(***************************************************************************)
EXTENDS WorkItem, OpLogProofs

-----------------------------------------------------------------------------
(* The lease by itself.                                                    *)


(* The lease row and the open transactions stay well typed whatever the    *)
(* commands do (schema 702).                                               *)
THEOREM LeaseTypeCorrect == LeaseSpec => []LeaseTypeOK
<1>1. LeaseInit => LeaseTypeOK
  BY DEF LeaseInit, LeaseTypeOK, NoTx, NoLease, Events
<1>2. LeaseTypeOK /\ [LeaseNext]_leaseVars => LeaseTypeOK'
  <2> SUFFICES ASSUME LeaseTypeOK, [LeaseNext]_leaseVars
               PROVE  LeaseTypeOK'
    OBVIOUS
  <2> USE DEF LeaseTypeOK, NoTx, NoLease, Events
  <2>1. CASE Tick
    BY <2>1 DEF Tick
  <2>2. ASSUME NEW p \in Proc, Begin(p)
        PROVE  LeaseTypeOK'
    BY <2>2 DEF Begin
  <2>3. ASSUME NEW p \in Proc, Abort(p)
        PROVE  LeaseTypeOK'
    BY <2>3 DEF Abort, EndTx
  <2>4. ASSUME NEW p \in Proc, EndLease(p)
        PROVE  LeaseTypeOK'
    BY <2>4 DEF EndLease, DropLease, EndTx
  <2>5. ASSUME NEW p \in Proc, Sweep(p)
        PROVE  LeaseTypeOK'
    BY <2>5 DEF Sweep, EndTx
  <2>6. ASSUME NEW p \in Proc, NEW ttl \in TTLs, ClaimLease(p, ttl)
        PROVE  LeaseTypeOK'
    BY <2>6, TTLAssumption DEF ClaimLease, Grant, EndTx, InTx
  <2>7. ASSUME NEW p \in Proc, NEW ttl \in TTLs, HeartbeatLease(p, ttl)
        PROVE  LeaseTypeOK'
    BY <2>7, TTLAssumption, ProcAssumption DEF HeartbeatLease, EndTx, InTx
  <2>8. CASE UNCHANGED leaseVars
    BY <2>8 DEF leaseVars
  <2>9. QED
    BY <2>1, <2>2, <2>3, <2>4, <2>5, <2>6, <2>7, <2>8 DEF LeaseNext
<1>3. QED
  BY <1>1, <1>2, PTL DEF LeaseSpec

(* A transaction's now() is never later than real time, so no lease runs   *)
(* past the longest duration counted from the present.                     *)
THEOREM LeaseNowIsPast == LeaseSpec => []NowIsPast
<1>1. LeaseInit => NowIsPast
  BY DEF LeaseInit, NowIsPast, NoTx, NoLease
<1>2. LeaseTypeOK /\ NowIsPast /\ [LeaseNext]_leaseVars => NowIsPast'
  <2> SUFFICES ASSUME LeaseTypeOK, NowIsPast, [LeaseNext]_leaseVars
               PROVE  NowIsPast'
    OBVIOUS
  <2> USE TTLAssumption DEF LeaseTypeOK, NowIsPast, NoTx
  <2>1. CASE Tick
    BY <2>1 DEF Tick, NoLease
  <2>2. ASSUME NEW p \in Proc, Begin(p)
        PROVE  NowIsPast'
    BY <2>2 DEF Begin
  <2>3. ASSUME NEW p \in Proc, Abort(p)
        PROVE  NowIsPast'
    BY <2>3 DEF Abort, EndTx
  <2>4. ASSUME NEW p \in Proc, EndLease(p)
        PROVE  NowIsPast'
    BY <2>4 DEF EndLease, DropLease, EndTx
  <2>5. ASSUME NEW p \in Proc, Sweep(p)
        PROVE  NowIsPast'
    BY <2>5 DEF Sweep, EndTx
  <2>6. ASSUME NEW p \in Proc, NEW ttl \in TTLs, ClaimLease(p, ttl)
        PROVE  NowIsPast'
    <3>1. tx[p] \in Nat /\ tx[p] <= clock /\ clock' = clock /\ clock \in Nat
      BY <2>6 DEF ClaimLease, InTx
    <3>2. lease'.expires = tx[p] + ttl /\ ttl \in Nat
      BY <2>6 DEF ClaimLease, Grant
    <3>3. \A q \in Proc : tx'[q] <= clock'
      BY <2>6, <3>1 DEF ClaimLease, EndTx
    <3>4. lease'.expires <= clock' + ttl
      BY <3>1, <3>2
    <3>5. QED
      BY <3>3, <3>4
  <2>7. ASSUME NEW p \in Proc, NEW ttl \in TTLs, HeartbeatLease(p, ttl)
        PROVE  NowIsPast'
    <3>1. tx[p] \in Nat /\ tx[p] <= clock /\ clock' = clock /\ clock \in Nat
      BY <2>7 DEF HeartbeatLease, InTx
    <3>2. lease'.expires = tx[p] + ttl /\ ttl \in Nat
      BY <2>7, ProcAssumption DEF HeartbeatLease, NoLease
    <3>3. \A q \in Proc : tx'[q] <= clock'
      BY <2>7, <3>1 DEF HeartbeatLease, EndTx
    <3>4. lease'.expires <= clock' + ttl
      BY <3>1, <3>2
    <3>5. QED
      BY <3>3, <3>4
  <2>8. CASE UNCHANGED leaseVars
    BY <2>8 DEF leaseVars
  <2>9. QED
    BY <2>1, <2>2, <2>3, <2>4, <2>5, <2>6, <2>7, <2>8 DEF LeaseNext
<1>3. QED
  BY <1>1, <1>2, LeaseTypeCorrect, PTL DEF LeaseSpec

(* A running lease keeps its holder through every step but an explicit end *)
(* (release, close, delete): a claim or a sweep decided on a now() from    *)
(* before its wait for the lock can only be too careful.                   *)
THEOREM RunningLeaseKept == LeaseSpec => LiveLeaseKept
<1>1. LeaseTypeOK /\ NowIsPast /\ [LeaseNext]_leaseVars => [LiveLeaseStep]_leaseVars
  <2> SUFFICES ASSUME LeaseTypeOK, NowIsPast, LeaseNext, Live
               PROVE  lease'.holder = lease.holder \/ event' = "ended"
    BY DEF LiveLeaseStep
  <2> USE DEF LeaseTypeOK, NowIsPast, NoTx
  <2>1. CASE Tick
    BY <2>1 DEF Tick
  <2>2. ASSUME NEW p \in Proc, Begin(p) \/ Abort(p)
        PROVE  lease' = lease
    BY <2>2 DEF Begin, Abort
  <2>3. ASSUME NEW p \in Proc, EndLease(p)
        PROVE  event' = "ended"
    BY <2>3 DEF EndLease
  <2>4. ASSUME NEW p \in Proc, Sweep(p)
        PROVE  lease' = lease
    <3>1. tx[p] <= clock /\ lease.expires > clock /\ lease # NoLease
      BY DEF Live
    <3>2. tx[p] \in Int /\ clock \in Nat /\ lease.expires \in Nat
      BY <3>1
    <3>3. ~(lease.expires <= tx[p])
      BY <3>1, <3>2
    <3>4. QED
      BY <2>4, <3>3 DEF Sweep
  <2>5. ASSUME NEW p \in Proc, NEW ttl \in TTLs, ClaimLease(p, ttl)
        PROVE  FALSE
    <3>1. tx[p] <= clock /\ lease.expires > clock /\ lease # NoLease
      BY DEF Live
    <3>2. tx[p] \in Int /\ clock \in Nat /\ lease.expires \in Nat
      BY <3>1
    <3>3. lease.expires > tx[p]
      BY <3>1, <3>2
    <3>4. QED
      BY <2>5, <3>1, <3>3 DEF ClaimLease, LiveFor
  <2>6. ASSUME NEW p \in Proc, NEW ttl \in TTLs, HeartbeatLease(p, ttl)
        PROVE  lease'.holder = lease.holder
    BY <2>6 DEF HeartbeatLease, NoLease
  <2>7. QED
    BY <2>1, <2>2, <2>3, <2>4, <2>5, <2>6 DEF LeaseNext
<1>2. QED
  BY <1>1, LeaseTypeCorrect, LeaseNowIsPast, PTL DEF LeaseSpec, LiveLeaseKept

-----------------------------------------------------------------------------
(* The lease among the item's commands.                                    *)


(* The commands and what they run: a step of Next is one of these.         *)
Runs(p) ==
  \/ Start1(p) \/ Refused(p) \/ SweepExpired(p)
  \/ \E status \in Statuses, content \in Contents : FileWorkItem(p, status, content)
  \/ \E status, content, diag : \E force \in Forces :
       UpdateWorkItem(p, status, content, diag, force)
  \/ CloseWorkItem(p)
  \/ TRUE \in Forces /\ CloseWorkItemForce(p)
  \/ AttestGateWaiver(p)
  \/ \E t \in Verdicts : \E ack : ReviewTransition(p, t, ack)
  \/ \E ttl \in TTLs : Claim(p, ttl) \/ Heartbeat(p, ttl)
  \/ Release(p) \/ DeleteWorkItem(p)

LEMMA NextIs ==
  ASSUME Next
  PROVE  Time \/ \E p \in Proc : Runs(p)
<1>1. \A p, t : ReviewCommand(p, t) => \E ack : ReviewTransition(p, t, ack)
  BY DEF ReviewCommand
<1>2. {"adversarial_pass", "accept", "reject", "request_changes"} = Verdicts
  BY DEF Verdicts
<1>3. ASSUME NEW p \in Proc,
             PassCommand(p) \/ AcceptCommand(p) \/ RejectCommand(p) \/ RequestChangesCommand(p)
      PROVE  \E t \in Verdicts : \E ack : ReviewTransition(p, t, ack)
  BY <1>1, <1>2, <1>3 DEF PassCommand, AcceptCommand, RejectCommand, RequestChangesCommand
<1>4. QED
  BY <1>3 DEF Next, Runs, ItemCommand, FileCommand, UpdateCommand, UpdateKeys, CloseCommand,
              AttestCommand, DeleteCommand, ClaimCommand, HeartbeatCommand, ReleaseCommand,
              RequeueCommand

(* The commands of an item do to its lease what the abstract lease allows  *)
(* (schema 702), so Leases' guarantees hold of it.                         *)
LEMMA ItemLeaseStep == [Next]_vars => [LeaseNext]_leaseVars
<1> SUFFICES ASSUME [Next]_vars, ~UNCHANGED leaseVars
             PROVE  LeaseNext
  OBVIOUS
<1>0. Next
  BY DEF vars
<1>1. CASE Time
  BY <1>1 DEF Time, LeaseNext
<1>2. ASSUME NEW p \in Proc, Start1(p) \/ Refused(p) \/ SweepExpired(p)
      PROVE  LeaseNext
  BY <1>2 DEF Start1, Refused, SweepExpired, LeaseNext
<1>3. ASSUME NEW p \in Proc, InTx(p), Ends(p)
      PROVE  LeaseNext
  BY <1>3 DEF Ends, Abort, LeaseNext
<1>4. ASSUME NEW p \in Proc, NEW status, NEW content, FileWorkItem(p, status, content)
      PROVE  LeaseNext
  BY <1>4, <1>3 DEF FileWorkItem
<1>5. ASSUME NEW p \in Proc, NEW status, NEW content, NEW diag, NEW force,
             UpdateWorkItem(p, status, content, diag, force)
      PROVE  LeaseNext
  BY <1>5, <1>3 DEF UpdateWorkItem
<1>6. ASSUME NEW p \in Proc, CloseWorkItem(p)
      PROVE  LeaseNext
  BY <1>6 DEF CloseWorkItem, EndLease, LeaseNext
<1>7. ASSUME NEW p \in Proc, CloseWorkItemForce(p) \/ AttestGateWaiver(p)
      PROVE  LeaseNext
  BY <1>7, <1>3 DEF CloseWorkItemForce, AttestGateWaiver
<1>8. ASSUME NEW p \in Proc, NEW t, NEW ack, ReviewTransition(p, t, ack)
      PROVE  LeaseNext
  BY <1>8, <1>3 DEF ReviewTransition, RecordVerdict
<1>9. ASSUME NEW p \in Proc, NEW ttl \in TTLs, Claim(p, ttl) \/ Heartbeat(p, ttl)
      PROVE  LeaseNext
  BY <1>9 DEF Claim, Heartbeat, LeaseNext
<1>10. ASSUME NEW p \in Proc, Release(p) \/ DeleteWorkItem(p)
       PROVE  LeaseNext
  BY <1>10 DEF Release, DeleteWorkItem, LeaseNext
<1>11. QED
  BY <1>0, <1>1, <1>2, <1>4, <1>5, <1>6, <1>7, <1>8, <1>9, <1>10, NextIs DEF Runs

(* An item's lease is a lease, whatever the item's commands are.           *)
THEOREM ItemImplementsLease == Spec => LeaseSpec
<1>1. Init => LeaseInit
  BY DEF Init
<1>2. QED
  BY <1>1, ItemLeaseStep, PTL DEF Spec, LeaseSpec

-----------------------------------------------------------------------------
(* What a command appends.                                                 *)

(* The log's ops took one number each from op_log_id_seq and name who     *)
(* wrote them.                                                             *)
LogOK ==
  /\ seq \in Nat
  /\ \A o \in log : o.lamport \in 1..seq /\ o.id = o.lamport /\ o.actor \in Proc
  /\ \A a, b \in log : a.lamport = b.lamport => a = b

(* Ops of one transaction of p: they carry p's producer block and take the *)
(* next numbers of the sequence.                                           *)
Placed(p, ops) ==
  /\ IsFiniteSet(ops) /\ Cardinality(ops) \in Nat
  /\ \A o \in ops : /\ o.lamport \in (seq + 1)..(seq + Cardinality(ops))
                    /\ o.id = o.lamport
                    /\ o.actor = p /\ o.lineage = Lineage[p]
  /\ \A a, b \in ops : a.lamport = b.lamport => a = b

(* An approval among them that claims independence is one the gate gave,   *)
(* and nothing p did in the same transaction precedes it.                  *)
Vouched(p, ops) ==
  \A o \in ops : o.approval \in Independent =>
    /\ o.approval \in Check(p)
    /\ \A w \in ops : w.lamport < o.lamport => ~IsWork(w)

Appends(p, ops) ==
  /\ Placed(p, ops) /\ Vouched(p, ops)
  /\ log' = log \cup ops /\ seq' = seq + Cardinality(ops)

(* An op that is no lease op, no work and no approval: what the seal       *)
(* writes.                                                                 *)
Silent(o) ==
  /\ o.type \notin {"claim", "release", "tombstone"}
  /\ ~IsWork(o) /\ o.approval = None

(* One more op of the same transaction takes the next number. *)
LEMMA PlacedAdd ==
  ASSUME seq \in Nat, NEW p, NEW ops, Placed(p, ops),
         NEW x, x.lamport = After(ops), x.id = x.lamport, x.actor = p,
         x.lineage = Lineage[p]
  PROVE  /\ Placed(p, ops \cup {x})
         /\ Cardinality(ops \cup {x}) = Cardinality(ops) + 1
<1>1. x \notin ops
  BY DEF Placed, After
<1>2. /\ IsFiniteSet(ops \cup {x})
      /\ Cardinality(ops \cup {x}) = Cardinality(ops) + 1
  BY <1>1, FS_AddElement DEF Placed
<1>3. Cardinality(ops \cup {x}) \in Nat
  BY <1>2 DEF Placed
<1>4. ASSUME NEW o \in ops \cup {x}
      PROVE  /\ o.lamport \in (seq + 1)..(seq + Cardinality(ops \cup {x}))
             /\ o.id = o.lamport /\ o.actor = p /\ o.lineage = Lineage[p]
  BY <1>2 DEF Placed, After
<1>5. \A a, b \in ops \cup {x} : a.lamport = b.lamport => a = b
  BY DEF Placed, After
<1>6. QED
  BY <1>2, <1>3, <1>4, <1>5 DEF Placed

(* The same for the first op. *)
LEMMA PlacedOne ==
  ASSUME seq \in Nat, NEW p, NEW x, x.lamport = seq + 1, x.id = x.lamport,
         x.actor = p, x.lineage = Lineage[p]
  PROVE  Placed(p, {x}) /\ Cardinality({x}) = 1
<1>1. IsFiniteSet({x}) /\ Cardinality({x}) = 1
  BY FS_Singleton
<1>2. ASSUME NEW o \in {x}
      PROVE  /\ o.lamport \in (seq + 1)..(seq + Cardinality({x}))
             /\ o.id = o.lamport /\ o.actor = p /\ o.lineage = Lineage[p]
  BY <1>1
<1>3. QED
  BY <1>1, <1>2 DEF Placed

(* The seal's ops are placed and silent. *)
LEMMA SealPlaced ==
  ASSUME seq \in Nat, NEW p
  PROVE  Placed(p, SealOps(p)) /\ \A o \in SealOps(p) : Silent(o)
<1> DEFINE stub == IF \E o \in log : o.type = "create" THEN {}
                   ELSE {CreateOp(seq + 1, p, "open", NoContent)}
           n    == seq + Cardinality(stub) + 1
           snap == [NewOp(n, p, "snapshot") EXCEPT
                      !.status = row.status, !.content = row.content, !.diag = row.diag]
<1>1. Placed(p, {})
  BY FS_EmptySet DEF Placed
<1>2. Placed(p, stub) /\ \A o \in stub : Silent(o)
  <2>1. CASE \E o \in log : o.type = "create"
    BY <2>1, <1>1
  <2>2. CASE ~\E o \in log : o.type = "create"
    <3> DEFINE c == CreateOp(seq + 1, p, "open", NoContent)
    <3>1. /\ c.lamport = seq + 1 /\ c.id = c.lamport /\ c.actor = p /\ c.lineage = Lineage[p]
          /\ c.type = "create" /\ c.content = NoContent /\ c.approval = None
      BY DEF CreateOp, NewOp
    <3>2. Silent(c)
      BY <3>1 DEF Silent, IsWork
    <3> HIDE DEF c
    <3>3. Placed(p, {c})
      BY <3>1, PlacedOne
    <3>4. QED
      BY <2>2, <3>2, <3>3 DEF c
  <2>3. QED
    BY <2>1, <2>2
<1>3. /\ snap.lamport = After(stub) /\ snap.id = snap.lamport /\ snap.actor = p /\ snap.lineage = Lineage[p]
      /\ snap.type = "snapshot" /\ snap.approval = None
  BY DEF NewOp, After
<1>4. Silent(snap)
  BY <1>3 DEF Silent, IsWork
<1>5. SealOps(p) = IF ~Drifted THEN {} ELSE stub \cup {snap}
  BY DEF SealOps
<1> HIDE DEF snap, stub
<1>6. Placed(p, stub \cup {snap})
  BY <1>2, <1>3, PlacedAdd
<1>7. QED
  BY <1>1, <1>2, <1>4, <1>5, <1>6

LeaseOps == {"claim", "release", "tombstone"}

Stamped(p, x) == x.id = x.lamport /\ x.actor = p /\ x.lineage = Lineage[p]

(* x is p's op that claims independence only if the gate said so. *)
OpOf(p, x) ==
  /\ Stamped(p, x)
  /\ x.approval \in Independent => x.approval \in Check(p)

(* What a command appends when it writes nothing, one op or two after the  *)
(* seal; only the first may be an approval.                                *)
LEMMA AppendsSeal ==
  ASSUME LogOK, NEW p, Write(SealOps(p))
  PROVE  Appends(p, SealOps(p))
<1>1. Placed(p, SealOps(p)) /\ \A o \in SealOps(p) : Silent(o)
  BY SealPlaced DEF LogOK
<1>2. Vouched(p, SealOps(p))
  BY <1>1 DEF Vouched, Silent, Independent, None
<1>3. QED
  BY <1>1, <1>2 DEF Appends, Write

LEMMA AppendsOne ==
  ASSUME LogOK, NEW p, NEW x, OpOf(p, x), x.lamport = After(SealOps(p)),
         Write(SealOps(p) \cup {x})
  PROVE  Appends(p, SealOps(p) \cup {x})
<1> DEFINE ops == SealOps(p) \cup {x}
<1>1. Placed(p, SealOps(p)) /\ \A o \in SealOps(p) : Silent(o)
  BY SealPlaced DEF LogOK
<1>2. Placed(p, ops)
  BY <1>1, PlacedAdd DEF LogOK, OpOf, Stamped
<1>3. ASSUME NEW o \in ops, o.approval \in Independent
      PROVE  /\ o.approval \in Check(p)
             /\ \A w \in ops : w.lamport < o.lamport => ~IsWork(w)
  <2>1. o = x
    BY <1>1, <1>3 DEF Silent, Independent, None
  <2>2. x.lamport \in Int
    BY <1>2 DEF Placed, LogOK
  <2>3. QED
    BY <1>1, <1>3, <2>1, <2>2 DEF OpOf, Stamped, Silent
<1>4. QED
  BY <1>2, <1>3 DEF Appends, Vouched, Write

LEMMA AppendsTwo ==
  ASSUME LogOK, NEW p, NEW x, OpOf(p, x), x.lamport = After(SealOps(p)),
         NEW y, OpOf(p, y), y.approval = None, y.lamport = After(SealOps(p)) + 1,
         Write(SealOps(p) \cup {x} \cup {y})
  PROVE  Appends(p, SealOps(p) \cup {x} \cup {y})
<1> DEFINE some == SealOps(p) \cup {x}
           ops  == some \cup {y}
<1>1. Placed(p, SealOps(p)) /\ \A o \in SealOps(p) : Silent(o)
  BY SealPlaced DEF LogOK
<1>2. Placed(p, some) /\ Cardinality(some) = Cardinality(SealOps(p)) + 1
  BY <1>1, PlacedAdd DEF LogOK, OpOf, Stamped
<1>3. y.lamport = After(some)
  BY <1>1, <1>2 DEF After, Placed, LogOK
<1> HIDE DEF some
<1>4. Placed(p, ops)
  BY <1>2, <1>3, PlacedAdd DEF LogOK, OpOf, Stamped
<1>5. ASSUME NEW o \in ops, o.approval \in Independent
      PROVE  /\ o.approval \in Check(p)
             /\ \A w \in ops : w.lamport < o.lamport => ~IsWork(w)
  <2>1. o = x
    BY <1>1, <1>5 DEF Silent, Independent, None, some
  <2>2. x.lamport \in Int /\ ~(y.lamport < x.lamport)
    BY <1>1 DEF After, Placed, LogOK
  <2>3. QED
    BY <1>1, <1>5, <2>1, <2>2 DEF OpOf, Stamped, Silent, some
<1>6. QED
  BY <1>4, <1>5 DEF Appends, Vouched, Write, some

(* A status op with the evidence the gate asks for is p's op. *)
LEMMA StatusOpOf ==
  ASSUME NEW p, NEW n, NEW status, NEW verdict, NEW approval,
         approval \in Independent => approval \in Check(p)
  PROVE  /\ OpOf(p, StatusOp(n, p, status, verdict, approval))
         /\ StatusOp(n, p, status, verdict, approval).lamport = n
         /\ StatusOp(n, p, status, verdict, approval).type = "set_status"
BY DEF StatusOp, NewOp, OpOf, Stamped

LEMMA EvidenceVouches ==
  ASSUME NEW p, NEW old, NEW new, NEW approval \in Evidence(p, old, new)
  PROVE  approval \in Independent => approval \in Check(p)
BY DEF Evidence, Independent, None

(* The second disjunct of OpOf is idle for an op without an approval. *)
LEMMA PlainOpOf ==
  ASSUME NEW p, NEW x, x.id = x.lamport, x.actor = p, x.lineage = Lineage[p],
         x.approval = None
  PROVE  OpOf(p, x)
BY DEF OpOf, Stamped, Independent, None

(* The ops a step may leave in the log besides what was there. *)
Stepped(p, ops) == Appends(p, ops) /\ \A o \in ops : o.type \notin LeaseOps

LEMMA SealStepped ==
  ASSUME LogOK, NEW p
  PROVE  \A o \in SealOps(p) : o.type \notin LeaseOps
BY SealPlaced DEF LogOK, Silent, LeaseOps

LEMMA UpdateAppends ==
  ASSUME LogOK, NEW p, NEW status, NEW content, NEW diag, NEW force,
         UpdateWorkItem(p, status, content, diag, force)
  PROVE  \E ops : Stepped(p, ops)
<1> DEFINE seal    == SealOps(p)
           n       == After(seal)
           moves   == status \notin {NoStatus, row.status}
           edits   == content \notin {Keep, row.content} \/ diag \notin {{}, row.diag}
           verdict == ReviewTransitionFor(row.status, status)
           m(a)    == StatusOp(n, p, status, verdict, a)
           e(k)    == [NewOp(k, p, "set_field")
                         EXCEPT !.content = IF content = row.content THEN Keep ELSE content,
                                !.diag = IF diag = row.diag THEN {} ELSE diag]
<1>1. PICK a \in IF moves THEN Evidence(p, row.status, status) ELSE {None} :
        LET move == IF moves THEN {m(a)} ELSE {}
            edit == IF edits THEN {e(n + Cardinality(move))} ELSE {}
        IN  Write(seal \cup move \cup edit)
  BY DEF UpdateWorkItem
<1>2. a \in Independent => a \in Check(p)
  BY <1>1, EvidenceVouches DEF Independent, None
<1>3. OpOf(p, m(a)) /\ m(a).lamport = n /\ m(a).type = "set_status"
  <2> HIDE DEF n, verdict
  <2>1. QED
    BY <1>2, StatusOpOf
<1>4. ASSUME NEW k
      PROVE  /\ OpOf(p, e(k)) /\ e(k).approval = None /\ e(k).lamport = k
             /\ e(k).type = "set_field"
  <2>1. /\ e(k).actor = p /\ e(k).lineage = Lineage[p] /\ e(k).approval = None
        /\ e(k).lamport = k /\ e(k).id = k /\ e(k).type = "set_field"
    BY DEF NewOp
  <2>2. QED
    BY <2>1, PlainOpOf
<1>5. \A o \in seal : o.type \notin LeaseOps
  BY SealStepped
<1>6. n \in Int
  BY SealPlaced DEF After, LogOK, Placed
<1> HIDE DEF seal, n, moves, edits, verdict, m, e
<1>7. CASE moves /\ edits
  <2>1. Write(seal \cup {m(a)} \cup {e(n + 1)})
    BY <1>1, <1>7, FS_Singleton
  <2>2. Appends(p, seal \cup {m(a)} \cup {e(n + 1)})
    BY <1>3, <1>4, <2>1, AppendsTwo DEF seal, n
  <2>3. QED
    BY <1>3, <1>4, <1>5, <2>2 DEF Stepped, LeaseOps
<1>8. CASE moves /\ ~edits
  <2>1. Write(seal \cup {m(a)})
    BY <1>1, <1>8
  <2>2. Appends(p, seal \cup {m(a)})
    BY <1>3, <2>1, AppendsOne DEF seal, n
  <2>3. QED
    BY <1>3, <1>5, <2>2 DEF Stepped, LeaseOps
<1>9. CASE ~moves /\ edits
  <2>1. Write(seal \cup {e(n)})
    BY <1>1, <1>6, <1>9, FS_EmptySet
  <2>2. Appends(p, seal \cup {e(n)})
    BY <1>4, <2>1, AppendsOne DEF seal, n
  <2>3. QED
    BY <1>4, <1>5, <2>2 DEF Stepped, LeaseOps
<1>10. CASE ~moves /\ ~edits
  <2>1. Write(seal)
    BY <1>1, <1>10
  <2>2. QED
    BY <1>5, <2>1, AppendsSeal DEF Stepped, seal
<1>11. QED
  BY <1>7, <1>8, <1>9, <1>10

(* An op on its own, for the commands that do not seal. *)
LEMMA AppendsBare ==
  ASSUME LogOK, NEW p, NEW x, OpOf(p, x), x.approval = None, x.lamport = seq + 1,
         log' = log \cup {x}, seq' = seq + 1
  PROVE  Appends(p, {x})
<1>1. Placed(p, {x}) /\ Cardinality({x}) = 1
  BY PlacedOne DEF LogOK, OpOf, Stamped
<1>2. Vouched(p, {x})
  BY DEF Vouched, Independent, None
<1>3. QED
  BY <1>1, <1>2 DEF Appends

(* The fields of an op no gate has a say in. *)
LEMMA NewOpOf ==
  ASSUME NEW p, NEW n, NEW type
  PROVE  /\ OpOf(p, NewOp(n, p, type)) /\ NewOp(n, p, type).approval = None
         /\ NewOp(n, p, type).lamport = n /\ NewOp(n, p, type).type = type
<1>1. /\ NewOp(n, p, type).actor = p /\ NewOp(n, p, type).lineage = Lineage[p]
      /\ NewOp(n, p, type).approval = None /\ NewOp(n, p, type).id = n
      /\ NewOp(n, p, type).lamport = n /\ NewOp(n, p, type).type = type
  BY DEF NewOp
<1>2. QED
  BY <1>1, PlainOpOf

LEMMA FileAppends ==
  ASSUME LogOK, NEW p, NEW status, NEW content, FileWorkItem(p, status, content)
  PROVE  \E ops : Stepped(p, ops)
<1> DEFINE x == CreateOp(seq + 1, p, status, content)
<1>1. /\ x.actor = p /\ x.lineage = Lineage[p] /\ x.approval = None
      /\ x.lamport = seq + 1 /\ x.id = x.lamport /\ x.type = "create"
  BY DEF CreateOp, NewOp
<1>2. Write({x})
  BY DEF FileWorkItem
<1> HIDE DEF x
<1>3. log' = log \cup {x} /\ seq' = seq + 1
  BY <1>2, FS_Singleton DEF Write
<1>4. Appends(p, {x})
  BY <1>1, <1>3, PlainOpOf, AppendsBare
<1>5. QED
  BY <1>1, <1>4 DEF Stepped, LeaseOps

LEMMA CloseAppends ==
  ASSUME LogOK, NEW p, CloseWorkItem(p)
  PROVE  \E ops : Stepped(p, ops)
<1> DEFINE verdict == IF Gated(row.status, "done") THEN "accept" ELSE None
           n       == After(SealOps(p))
<1>1. PICK a \in Evidence(p, row.status, "done") :
        Write(SealOps(p) \cup {StatusOp(n, p, "done", verdict, a)})
  BY DEF CloseWorkItem
<1>2. a \in Independent => a \in Check(p)
  BY <1>1, EvidenceVouches
<1> DEFINE x == StatusOp(n, p, "done", verdict, a)
<1>3. OpOf(p, x) /\ x.lamport = n /\ x.type = "set_status"
  <2> HIDE DEF n, verdict
  <2>1. QED
    BY <1>2, StatusOpOf
<1> HIDE DEF x
<1>4. Appends(p, SealOps(p) \cup {x})
  BY <1>1, <1>3, AppendsOne DEF x
<1>5. QED
  BY <1>3, <1>4, SealStepped DEF Stepped, LeaseOps

LEMMA ForceCloseAppends ==
  ASSUME LogOK, NEW p, CloseWorkItemForce(p)
  PROVE  \E ops : Stepped(p, ops)
<1> DEFINE verdict == IF Gated(row.status, "closed") THEN "accept" ELSE None
           n       == After(SealOps(p))
<1>1. PICK a \in Evidence(p, row.status, "closed") :
        Write(SealOps(p) \cup
              {[StatusOp(n, p, "closed", verdict, a) EXCEPT !.type = "close"]})
  BY DEF CloseWorkItemForce
<1>2. a \in Independent => a \in Check(p)
  BY <1>1, EvidenceVouches
<1> DEFINE x == [StatusOp(n, p, "closed", verdict, a) EXCEPT !.type = "close"]
<1>3. OpOf(p, x) /\ x.lamport = n /\ x.type = "close"
  <2> HIDE DEF n, verdict
  <2>1. QED
    BY <1>2 DEF StatusOp, NewOp, OpOf, Stamped
<1> HIDE DEF x
<1>4. Appends(p, SealOps(p) \cup {x})
  BY <1>1, <1>3, AppendsOne DEF x
<1>5. QED
  BY <1>3, <1>4, SealStepped DEF Stepped, LeaseOps

LEMMA AttestAppends ==
  ASSUME LogOK, NEW p, AttestGateWaiver(p)
  PROVE  \E ops : Stepped(p, ops)
<1> DEFINE x == [NewOp(seq + 1, p, "set_field") EXCEPT !.diag = {"gate_attestation"}]
<1>1. /\ x.actor = p /\ x.lineage = Lineage[p] /\ x.approval = None
      /\ x.lamport = seq + 1 /\ x.id = x.lamport /\ x.type = "set_field"
  BY DEF NewOp
<1>2. Write({x})
  BY DEF AttestGateWaiver
<1> HIDE DEF x
<1>3. log' = log \cup {x} /\ seq' = seq + 1
  BY <1>2, FS_Singleton DEF Write
<1>4. Appends(p, {x})
  BY <1>1, <1>3, PlainOpOf, AppendsBare
<1>5. QED
  BY <1>1, <1>4 DEF Stepped, LeaseOps

LEMMA ReviewAppends ==
  ASSUME LogOK, NEW p, NEW t, NEW ack, ReviewTransition(p, t, ack)
  PROVE  \E ops : Stepped(p, ops)
<1> DEFINE n   == After(SealOps(p))
           new == Target(t)
           y   == [NewOp(n + 1, p, "set_field") EXCEPT
                     !.diag = row.diag \cup {"review_notes"}, !.verdict = t]
<1>1. PICK a \in IF t \notin Positive THEN {None}
                 ELSE IF ack THEN {"acknowledged"} ELSE Check(p) :
        Write(SealOps(p) \cup {StatusOp(n, p, new, t, a), y})
  BY DEF ReviewTransition, RecordVerdict
<1>2. a \in Independent => a \in Check(p)
  BY <1>1 DEF Independent, None
<1> DEFINE x == StatusOp(n, p, new, t, a)
<1>3. OpOf(p, x) /\ x.lamport = n /\ x.type = "set_status"
  <2> HIDE DEF n, new
  <2>1. QED
    BY <1>2, StatusOpOf
<1>4. /\ y.actor = p /\ y.lineage = Lineage[p] /\ y.approval = None
      /\ y.lamport = n + 1 /\ y.id = y.lamport /\ y.type = "set_field"
  BY DEF NewOp
<1>5. Write(SealOps(p) \cup {x, y})
  BY <1>1
<1> HIDE DEF x, y
<1>6. SealOps(p) \cup {x, y} = SealOps(p) \cup {x} \cup {y}
  OBVIOUS
<1>7. Appends(p, SealOps(p) \cup {x} \cup {y})
  BY <1>3, <1>4, <1>5, <1>6, PlainOpOf, AppendsTwo
<1>8. QED
  BY <1>3, <1>4, <1>7, SealStepped DEF Stepped, LeaseOps

LEMMA ClaimAppends ==
  ASSUME LogOK, NEW p, NEW ttl, Claim(p, ttl)
  PROVE  Appends(p, SealOps(p) \cup {NewOp(After(SealOps(p)), p, "claim")})
<1> DEFINE x == NewOp(After(SealOps(p)), p, "claim")
<1>1. Write(SealOps(p) \cup {x})
  BY DEF Claim
<1>2. OpOf(p, x) /\ x.lamport = After(SealOps(p))
  BY NewOpOf
<1> HIDE DEF x
<1>3. QED
  BY <1>1, <1>2, AppendsOne DEF x

LEMMA ReleaseAppends ==
  ASSUME LogOK, NEW p, Release(p)
  PROVE  \E ops : Appends(p, ops)
<1> DEFINE n == After(SealOps(p))
           x == NewOp(n, p, "release")
           y == StatusOp(n + 1, p, "open", None, None)
<1>1. Write(SealOps(p) \cup {x} \cup IF row.status = "claimed" THEN {y} ELSE {})
  BY DEF Release
<1>2. OpOf(p, x) /\ x.lamport = n
  BY NewOpOf
<1>3. /\ y.actor = p /\ y.lineage = Lineage[p] /\ y.approval = None
      /\ y.lamport = n + 1 /\ y.id = y.lamport
  BY DEF StatusOp, NewOp
<1> HIDE DEF x, y
<1>4. CASE row.status = "claimed"
  BY <1>1, <1>2, <1>3, <1>4, PlainOpOf, AppendsTwo
<1>5. CASE row.status # "claimed"
  <2>1. Write(SealOps(p) \cup {x})
    BY <1>1, <1>5
  <2>2. QED
    BY <1>2, <2>1, AppendsOne
<1>6. QED
  BY <1>4, <1>5

(* heartbeat and delete write one op and do not seal. *)
LEMMA BareAppends ==
  ASSUME LogOK, NEW p, NEW type, log' = log \cup {NewOp(seq + 1, p, type)}, seq' = seq + 1
  PROVE  Appends(p, {NewOp(seq + 1, p, type)})
<1> DEFINE x == NewOp(seq + 1, p, type)
<1>1. OpOf(p, x) /\ x.approval = None /\ x.lamport = seq + 1
  BY NewOpOf
<1> HIDE DEF x
<1>2. QED
  BY <1>1, AppendsBare DEF x

-----------------------------------------------------------------------------
(* Steps and invariants.                                                   *)

(* No command changes the log but by appending ops of its own actor. *)
LEMMA StepAppends ==
  ASSUME LogOK, [Next]_vars
  PROVE  UNCHANGED <<log, seq>> \/ \E p \in Proc : \E ops : Appends(p, ops)
<1>1. CASE UNCHANGED vars
  BY <1>1 DEF vars
<1>2. CASE Time
  BY <1>2 DEF Time, itemVars
<1>3. ASSUME NEW p \in Proc, Start1(p) \/ Refused(p) \/ SweepExpired(p)
      PROVE  UNCHANGED <<log, seq>>
  BY <1>3 DEF Start1, Refused, SweepExpired, itemVars
<1>4. ASSUME NEW p \in Proc, NEW status, NEW content, FileWorkItem(p, status, content)
      PROVE  \E ops : Appends(p, ops)
  BY <1>4, FileAppends DEF Stepped
<1>5. ASSUME NEW p \in Proc, NEW status, NEW content, NEW diag, NEW force,
             UpdateWorkItem(p, status, content, diag, force)
      PROVE  \E ops : Appends(p, ops)
  BY <1>5, UpdateAppends DEF Stepped
<1>6. ASSUME NEW p \in Proc, CloseWorkItem(p) \/ CloseWorkItemForce(p) \/ AttestGateWaiver(p)
      PROVE  \E ops : Appends(p, ops)
  BY <1>6, CloseAppends, ForceCloseAppends, AttestAppends DEF Stepped
<1>7. ASSUME NEW p \in Proc, NEW t, NEW ack, ReviewTransition(p, t, ack)
      PROVE  \E ops : Appends(p, ops)
  BY <1>7, ReviewAppends DEF Stepped
<1>8. ASSUME NEW p \in Proc, NEW ttl, Claim(p, ttl) \/ Heartbeat(p, ttl)
      PROVE  \E ops : Appends(p, ops)
  BY <1>8, ClaimAppends, BareAppends DEF Heartbeat
<1>9. ASSUME NEW p \in Proc, Release(p) \/ DeleteWorkItem(p)
      PROVE  \E ops : Appends(p, ops)
  BY <1>9, ReleaseAppends, BareAppends DEF DeleteWorkItem
<1>10. QED
  BY <1>1, <1>2, <1>3, <1>4, <1>5, <1>6, <1>7, <1>8, <1>9, NextIs DEF Runs

LEMMA PlacedLogOK ==
  ASSUME LogOK, NEW p \in Proc, NEW ops, Placed(p, ops),
         log' = log \cup ops, seq' = seq + Cardinality(ops)
  PROVE  LogOK'
<1>1. /\ Cardinality(ops) \in Nat
      /\ \A o \in ops : /\ o.lamport \in (seq + 1)..(seq + Cardinality(ops))
                        /\ o.id = o.lamport /\ o.actor = p
      /\ \A a, b \in ops : a.lamport = b.lamport => a = b
  BY DEF Placed
<1>2. seq' \in Nat
  BY <1>1 DEF LogOK
<1>3. ASSUME NEW o \in log'
      PROVE  o.lamport \in 1..seq' /\ o.id = o.lamport /\ o.actor \in Proc
  BY <1>1 DEF LogOK
<1>4. ASSUME NEW a \in log', NEW b \in log', a.lamport = b.lamport
      PROVE  a = b
  BY <1>1, <1>4 DEF LogOK
<1>5. QED
  BY <1>2, <1>3, <1>4 DEF LogOK

LEMMA AppendsLogOK ==
  ASSUME LogOK, NEW p \in Proc, NEW ops, Appends(p, ops)
  PROVE  LogOK'
BY PlacedLogOK DEF Appends

(* The log the item starts from: none, or one of the regista-era shapes.   *)
LEMMA InitLogOK ==
  ASSUME Init
  PROVE  LogOK
<1> DEFINE someone == CHOOSE p \in Proc : TRUE
           first   == CHOOSE c \in Contents : TRUE
           create  == CreateOp(1, someone, "open", first)
           stone   == NewOp(2, someone, "tombstone")
<1>1. someone \in Proc
  BY WorkItemAssumption
<1>2. create.lamport = 1 /\ create.id = 1 /\ create.actor = someone
  BY DEF CreateOp, NewOp
<1>3. stone.lamport = 2 /\ stone.id = 2 /\ stone.actor = someone
  BY DEF NewOp
<1> HIDE DEF someone, create, stone
<1>4. CASE log = {} /\ seq = 0
  BY <1>4 DEF LogOK
<1>5. CASE log = {create} /\ seq = Cardinality({create})
  <2>1. seq = 1
    BY <1>5, FS_Singleton
  <2>2. QED
    BY <1>1, <1>2, <1>5, <2>1 DEF LogOK
<1>6. CASE log = {create, stone} /\ seq = Cardinality({create, stone})
  <2>1. {create, stone} = {create} \cup {stone} /\ stone \notin {create}
    BY <1>2, <1>3
  <2>2. IsFiniteSet({create}) /\ Cardinality({create}) = 1
    BY FS_Singleton
  <2>3. Cardinality({create} \cup {stone}) = 2
    BY <2>1, <2>2, FS_AddElement
  <2>4. QED
    BY <1>1, <1>2, <1>3, <1>6, <2>1, <2>3 DEF LogOK
<1>7. ASSUME NEW r, NEW shape \in {"chainless", "stale", "resurrected"}, Legacy(r, shape)
      PROVE  LogOK
  <2>1. CASE shape = "chainless"
    <3>1. log = {} /\ seq = Cardinality({})
      BY <1>7, <2>1 DEF Legacy
    <3>2. QED
      BY <1>4, <3>1, FS_EmptySet
  <2>2. CASE shape = "stale"
    BY <1>5, <1>7, <2>2 DEF Legacy, create, someone
  <2>3. CASE shape = "resurrected"
    BY <1>6, <1>7, <2>3 DEF Legacy, create, stone, someone
  <2>4. QED
    BY <2>1, <2>2, <2>3
<1>8. QED
  BY <1>4, <1>7 DEF Init

(* The gate: what Check lets pass did none of the work that is in the log. *)
LEMMA CheckIsIndependent ==
  ASSUME LogOK, NEW p \in Proc, Check(p) # {},
         NEW o, o.actor = p, o.lineage = Lineage[p],
         NEW w \in WorkOps(log)
  PROVE  ~SameParty(o, w)
<1>1. CASE p \in Human
  BY <1>1 DEF Check, CheckModel, SameParty
<1>2. CASE p \notin Human
  BY <1>2 DEF Check, CheckModel, SameParty
<1>3. QED
  BY <1>1, <1>2

LEMMA WorkIsCounted ==
  ASSUME LogOK, NEW w \in log, IsWork(w),
         ~\E r \in log : r.type = "set_status" /\ r.verdict \in Resets /\ r.lamport > w.lamport
  PROVE  w \in WorkOps(log)
<1>1. w.type \in AuthoredOps /\ ~IsBookkeeping(w)
  BY DEF IsWork, AuthoredOps, IsBookkeeping
<1>2. w.actor # None
  BY ProcAssumption DEF LogOK, None
<1>3. QED
  BY <1>1, <1>2 DEF WorkOps

(* Appending keeps the approvals independent: an old approval saw all the  *)
(* work that precedes it, a new one was checked against it.                *)
(* The party that signed o did none of the work since the last bounce.     *)
DidNoWork(o) ==
  \A w \in log :
    /\ w.lamport < o.lamport /\ IsWork(w)
    /\ ~\E r \in log : /\ r.type = "set_status" /\ r.verdict \in Resets
                       /\ w.lamport < r.lamport /\ r.lamport < o.lamport
    => ~SameParty(o, w)

(* Later ops say nothing of an op that stands already. *)
LEMMA OldApprovalStays ==
  ASSUME LogOK, NEW p, NEW ops, Placed(p, ops), log' = log \cup ops,
         NEW o \in log, DidNoWork(o)
  PROVE  DidNoWork(o)'
<1> SUFFICES ASSUME NEW w \in log', w.lamport < o.lamport, IsWork(w),
                    ~\E r \in log' : /\ r.type = "set_status" /\ r.verdict \in Resets
                                     /\ w.lamport < r.lamport /\ r.lamport < o.lamport
             PROVE  ~SameParty(o, w)
  BY DEF DidNoWork, SameParty, IsWork
<1>1. \A x \in ops : x.lamport \in Int /\ x.lamport > seq
  BY DEF Placed, LogOK
<1>2. o.lamport \in Nat /\ o.lamport <= seq /\ seq \in Nat
  BY DEF LogOK
<1>3. w \in log
  BY <1>1, <1>2
<1>4. QED
  BY <1>3 DEF DidNoWork

LEMMA NewApprovalStands ==
  ASSUME LogOK, NEW p \in Proc, NEW ops, Appends(p, ops),
         NEW o \in ops, o.approval \in Independent
  PROVE  DidNoWork(o)'
<1> SUFFICES ASSUME NEW w \in log', w.lamport < o.lamport, IsWork(w),
                    ~\E r \in log' : /\ r.type = "set_status" /\ r.verdict \in Resets
                                     /\ w.lamport < r.lamport /\ r.lamport < o.lamport
             PROVE  ~SameParty(o, w)
  BY DEF DidNoWork, SameParty, IsWork
<1>1. log' = log \cup ops
  BY DEF Appends
<1>2. \A x \in ops : /\ x.lamport \in Int /\ x.lamport > seq
                     /\ x.actor = p /\ x.lineage = Lineage[p]
  BY DEF Appends, Placed, LogOK
<1>3. \A x \in log : x.lamport \in Nat /\ x.lamport <= seq
  BY DEF LogOK
<1>4. seq \in Nat
  BY DEF LogOK
<1>5. o.approval \in Check(p) /\ w \notin ops
  BY DEF Appends, Vouched
<1>6. w \in log
  BY <1>1, <1>5
<1>7. ASSUME NEW r \in log, r.type = "set_status", r.verdict \in Resets
      PROVE  ~(r.lamport > w.lamport)
  BY <1>1, <1>2, <1>3, <1>4, <1>6, <1>7
<1>8. w \in WorkOps(log)
  BY <1>6, <1>7, WorkIsCounted
<1>9. QED
  BY <1>2, <1>5, <1>8, CheckIsIndependent

LEMMA AppendsIndependent ==
  ASSUME LogOK, ApproverIndependent, NEW p \in Proc, NEW ops, Appends(p, ops)
  PROVE  ApproverIndependent'
<1>1. Placed(p, ops) /\ log' = log \cup ops
  BY DEF Appends
<1>2. ASSUME NEW o \in log, o.approval \in Independent PROVE DidNoWork(o)'
  BY <1>1, <1>2, OldApprovalStays DEF ApproverIndependent, DidNoWork
<1>3. ASSUME NEW o \in ops, o.approval \in Independent PROVE DidNoWork(o)'
  BY <1>3, NewApprovalStands
<1>4. \A o \in log' : o.approval \in Independent => DidNoWork(o)'
  BY <1>1, <1>2, <1>3
<1>5. QED
  BY <1>4 DEF ApproverIndependent, DidNoWork

(* What a row from before the switch has logged was never approved. *)
LEMMA InitIndependent ==
  ASSUME Init
  PROVE  ApproverIndependent
<1>1. \A o \in log : o.approval = None
  <2>1. CASE log = {}
    BY <2>1
  <2>2. ASSUME NEW r, NEW shape \in {"chainless", "stale", "resurrected"}, Legacy(r, shape)
        PROVE  \A o \in log : o.approval = None
    <3> DEFINE someone == CHOOSE p \in Proc : TRUE
               first   == CHOOSE c \in Contents : TRUE
               create  == CreateOp(1, someone, "open", first)
               stone   == NewOp(2, someone, "tombstone")
    <3>1. create.approval = None /\ stone.approval = None
      BY DEF CreateOp, NewOp
    <3>2. log \in {{}, {create}, {create, stone}}
      BY <2>2 DEF Legacy
    <3> HIDE DEF create, stone
    <3>3. QED
      BY <3>1, <3>2
  <2>3. QED
    BY <2>1, <2>2 DEF Init
<1>2. QED
  BY <1>1 DEF ApproverIndependent, Independent, None

(* Nobody approves, by any route through the gate, what he worked on since *)
(* the item last bounced (_independence.py check).                         *)
THEOREM ApprovalsIndependent == Spec => []ApproverIndependent
<1>1. Init => LogOK /\ ApproverIndependent
  BY InitLogOK, InitIndependent
<1>2. LogOK /\ ApproverIndependent /\ [Next]_vars => LogOK' /\ ApproverIndependent'
  <2> SUFFICES ASSUME LogOK, ApproverIndependent, [Next]_vars
               PROVE  LogOK' /\ ApproverIndependent'
    OBVIOUS
  <2>1. CASE UNCHANGED <<log, seq>>
    BY <2>1 DEF LogOK, ApproverIndependent, SameParty, IsWork
  <2>2. CASE \E p \in Proc : \E ops : Appends(p, ops)
    BY <2>2, AppendsLogOK, AppendsIndependent
  <2>3. QED
    BY <2>1, <2>2, StepAppends
<1>3. QED
  BY <1>1, <1>2, PTL DEF Spec

(* What was logged stays logged, as it was, and what is logged later takes *)
(* later numbers: no command edits history or files an op into its past    *)
(* (_seal.py, kernel.py append), a seal and a deletion included.           *)
HistoryStands ==
  [][/\ log \subseteq log'
     /\ \A o \in log, n \in log' \ log : o.lamport < n.lamport]_vars

THEOREM HistoryIsAppended == Spec => HistoryStands
<1>1. Init => LogOK
  BY InitLogOK
<1>2. LogOK /\ [Next]_vars => LogOK'
  <2>1. ASSUME LogOK, UNCHANGED <<log, seq>> PROVE LogOK'
    BY <2>1 DEF LogOK
  <2>2. QED
    BY <2>1, StepAppends, AppendsLogOK
<1>3. LogOK /\ [Next]_vars =>
        [/\ log \subseteq log'
         /\ \A o \in log, n \in log' \ log : o.lamport < n.lamport]_vars
  <2>1. ASSUME LogOK, NEW p \in Proc, NEW ops, Appends(p, ops)
        PROVE  \A o \in log, n \in log' \ log : o.lamport < n.lamport
    <3>1. \A n \in log' \ log : n.lamport \in Int /\ n.lamport > seq
      BY <2>1 DEF Appends, Placed, LogOK
    <3>2. QED
      BY <2>1, <3>1 DEF LogOK
  <2>2. \A p, ops : Appends(p, ops) => log \subseteq log'
    BY DEF Appends
  <2>3. QED
    BY <2>1, <2>2, StepAppends
<1>4. QED
  BY <1>1, <1>2, <1>3, PTL DEF Spec, HistoryStands

(* The lease's row is that of the last claim in the log: taking a lease    *)
(* logs it, and every command that logs its end deletes the row.           *)

(* A step that keeps or drops the lease and logs no lease op.              *)
LEMMA QuietKeepsMatch ==
  ASSUME LogOK, LeaseMatchesLog,
         lease' = NoLease \/ (lease # NoLease /\ lease'.holder = lease.holder),
         log' = log \/ \E p, ops : Stepped(p, ops)
  PROVE  LeaseMatchesLog'
<1> SUFFICES ASSUME lease' # NoLease
             PROVE  \E c \in log' :
                      /\ c.type = "claim" /\ c.actor = lease'.holder
                      /\ \A o \in log' : o.lamport > c.lamport => o.type \notin LeaseOps
  BY DEF LeaseMatchesLog, LeaseOps
<1>1. PICK c \in log : /\ c.type = "claim" /\ c.actor = lease.holder
                       /\ \A o \in log : o.lamport > c.lamport => o.type \notin LeaseOps
  BY DEF LeaseMatchesLog, LeaseOps
<1>2. log \subseteq log' /\ \A o \in log' \ log : o.type \notin LeaseOps
  BY DEF Stepped, Appends
<1>3. QED
  BY <1>1, <1>2

LEMMA ClaimKeepsMatch ==
  ASSUME LogOK, NEW p \in Proc, NEW ttl, Claim(p, ttl)
  PROVE  LeaseMatchesLog'
<1> DEFINE c == NewOp(After(SealOps(p)), p, "claim")
<1>1. c.type = "claim" /\ c.actor = p /\ c.lamport = After(SealOps(p))
  BY DEF NewOp
<1> HIDE DEF c
<1>2. log' = log \cup SealOps(p) \cup {c}
  BY ClaimAppends DEF Appends, c
<1>3. lease'.holder = p
  BY DEF Claim, ClaimLease, Grant
<1>4. \A o \in log \cup SealOps(p) : ~(o.lamport > c.lamport)
  BY <1>1, SealPlaced DEF LogOK, Placed, After
<1>5. ~(c.lamport > c.lamport)
  BY <1>1, SealPlaced DEF LogOK, Placed, After
<1>6. c \in log' /\ \A o \in log' : ~(o.lamport > c.lamport)
  BY <1>2, <1>4, <1>5
<1>7. QED
  BY <1>1, <1>3, <1>6 DEF LeaseMatchesLog

LEMMA HeartbeatKeepsMatch ==
  ASSUME LogOK, LeaseTypeOK, LeaseMatchesLog, NEW p \in Proc, NEW ttl, Heartbeat(p, ttl)
  PROVE  LeaseMatchesLog'
<1> DEFINE x == NewOp(seq + 1, p, "heartbeat")
<1>1. x.type = "heartbeat"
  BY DEF NewOp
<1>2. Appends(p, {x})
  BY BareAppends DEF Heartbeat
<1> HIDE DEF x
<1>3. Stepped(p, {x})
  BY <1>1, <1>2 DEF Stepped, LeaseOps
<1>4. lease # NoLease /\ lease'.holder = lease.holder
  BY DEF Heartbeat, HeartbeatLease, LeaseTypeOK
<1>5. QED
  BY <1>3, <1>4, QuietKeepsMatch

(* What every command but claim, release, delete and heartbeat does. *)
LEMMA OtherKeepsMatch ==
  ASSUME LogOK, LeaseMatchesLog, lease' \in {lease, NoLease},
         log' = log \/ \E p, ops : Stepped(p, ops)
  PROVE  LeaseMatchesLog'
<1>1. CASE lease' = NoLease
  BY <1>1 DEF LeaseMatchesLog
<1>2. CASE lease' # NoLease
  BY <1>2, QuietKeepsMatch
<1>3. QED
  BY <1>1, <1>2

LEMMA MatchStep ==
  ASSUME LogOK, LeaseTypeOK, LeaseMatchesLog, [Next]_vars
  PROVE  LeaseMatchesLog'
<1>1. CASE UNCHANGED vars
  BY <1>1 DEF vars, leaseVars, LeaseMatchesLog
<1>2. CASE Time
  BY <1>2, OtherKeepsMatch DEF Time, Tick, itemVars
<1>3. ASSUME NEW p \in Proc, Start1(p) \/ Refused(p) \/ SweepExpired(p)
      PROVE  LeaseMatchesLog'
  <2>1. log' = log
    BY <1>3 DEF Start1, Refused, SweepExpired, itemVars
  <2>2. lease' \in {lease, NoLease}
    BY <1>3 DEF Start1, Refused, SweepExpired, Begin, Abort, Sweep
  <2>3. QED
    BY <2>1, <2>2, OtherKeepsMatch
<1>4. ASSUME NEW p \in Proc, NEW status, NEW content, FileWorkItem(p, status, content)
      PROVE  LeaseMatchesLog'
  BY <1>4, FileAppends, OtherKeepsMatch DEF FileWorkItem, Ends
<1>5. ASSUME NEW p \in Proc, NEW status, NEW content, NEW diag, NEW force,
             UpdateWorkItem(p, status, content, diag, force)
      PROVE  LeaseMatchesLog'
  BY <1>5, UpdateAppends, OtherKeepsMatch DEF UpdateWorkItem, Ends
<1>6. ASSUME NEW p \in Proc, CloseWorkItem(p)
      PROVE  LeaseMatchesLog'
  BY <1>6, CloseAppends, OtherKeepsMatch DEF CloseWorkItem, DropLease
<1>7. ASSUME NEW p \in Proc, CloseWorkItemForce(p) \/ AttestGateWaiver(p)
      PROVE  LeaseMatchesLog'
  BY <1>7, ForceCloseAppends, AttestAppends, OtherKeepsMatch
     DEF CloseWorkItemForce, AttestGateWaiver, Ends
<1>8. ASSUME NEW p \in Proc, NEW t, NEW ack, ReviewTransition(p, t, ack)
      PROVE  LeaseMatchesLog'
  BY <1>8, ReviewAppends, OtherKeepsMatch DEF ReviewTransition, RecordVerdict, Ends
<1>9. ASSUME NEW p \in Proc, NEW ttl, Claim(p, ttl) \/ Heartbeat(p, ttl)
      PROVE  LeaseMatchesLog'
  BY <1>9, ClaimKeepsMatch, HeartbeatKeepsMatch
<1>10. ASSUME NEW p \in Proc, Release(p) \/ DeleteWorkItem(p)
       PROVE  LeaseMatchesLog'
  BY <1>10 DEF Release, DeleteWorkItem, EndLease, DropLease, LeaseMatchesLog
<1>11. QED
  BY <1>1, <1>2, <1>3, <1>4, <1>5, <1>6, <1>7, <1>8, <1>9, <1>10, NextIs DEF Runs

(* Whoever holds the lease is the actor of the last claim in the log.      *)
THEOREM LeaseIsLogged == Spec => []LeaseMatchesLog
<1>1. Init => LogOK /\ LeaseMatchesLog
  BY InitLogOK DEF Init, LeaseInit, LeaseMatchesLog
<1>2. LogOK /\ LeaseTypeOK /\ LeaseMatchesLog /\ [Next]_vars
      => LogOK' /\ LeaseMatchesLog'
  <2> SUFFICES ASSUME LogOK, LeaseTypeOK, LeaseMatchesLog, [Next]_vars
               PROVE  LogOK' /\ LeaseMatchesLog'
    OBVIOUS
  <2>1. LogOK'
    BY StepAppends, AppendsLogOK DEF LogOK
  <2>2. QED
    BY <2>1, MatchStep
<1>3. Spec => []LeaseTypeOK
  BY ItemImplementsLease, LeaseTypeCorrect, PTL
<1>4. QED
  BY <1>1, <1>2, <1>3, PTL DEF Spec

(* An item's lease that still runs is never taken over or swept, whatever  *)
(* the item's commands do.                                                 *)
THEOREM ItemLeaseKept == Spec => []NowIsPast /\ LiveLeaseKept
BY ItemImplementsLease, LeaseNowIsPast, RunningLeaseKept, PTL


-----------------------------------------------------------------------------
(* What a command does to the row.                                         *)

(* The row has its three columns. *)
IsRow(r) == r = [status |-> r.status, content |-> r.content, diag |-> r.diag]

ItemOK == LogOK /\ IsRow(row)

(* What an op written after the seal does to the row. *)
RowAfter(r, x) ==
  IF x.type \in StatusOps THEN [r EXCEPT !.status = x.status]
  ELSE IF x.type = "set_field"
       THEN [r EXCEPT !.content = IF x.content = Keep THEN @ ELSE x.content,
                      !.diag = @ \cup x.diag]
  ELSE r

CommandOps == StatusOps \cup {"set_field", "claim", "release", "heartbeat"}

(* An entity that exists and was not deleted. *)
Stands(acc) == IsAcc(acc) /\ acc.exists /\ ~acc.dead

LEMMA FoldStands ==
  ASSUME NEW ops, NEW n \in Nat, Serial(ops, n), Stands(FoldState(ops))
  PROVE  Fold(ops) = Visible(FoldState(ops))
BY DEF Fold, Stands

LEMMA RecordStands ==
  ASSUME NEW s, NEW c, NEW g
  PROVE  LET acc == [exists |-> TRUE, dead |-> FALSE, status |-> s, content |-> c, diag |-> g]
         IN  Stands(acc) /\ Visible(acc) = [status |-> s, content |-> c, diag |-> g]
BY DEF Stands, IsAcc, Visible

LEMMA OpOnRow ==
  ASSUME NEW acc, Stands(acc), NEW x, x.id \in Nat, x.type \in CommandOps
  PROVE  /\ Stands(ApplyGroup(acc, {x}))
         /\ Visible(ApplyGroup(acc, {x})) = RowAfter(Visible(acc), x)
<1> DEFINE s == acc.status
           c == acc.content
           g == acc.diag
           rec == [exists |-> TRUE, dead |-> FALSE, status |-> s, content |-> c, diag |-> g]
<1>1. acc = rec
  BY DEF IsAcc, Stands
<1>0. Visible(acc) = [status |-> s, content |-> c, diag |-> g]
  BY DEF Visible
<1> HIDE DEF s, c, g
<1>2. CASE x.type \in StatusOps
  <2> DEFINE new == ApplyGroup(rec, {x})
  <2>1. new = [rec EXCEPT !.status = x.status]
    BY <1>2, LoneGroup
  <2> HIDE DEF new
  <2>2. new = [exists |-> TRUE, dead |-> FALSE, status |-> x.status, content |-> c, diag |-> g]
    BY <2>1
  <2>3. RowAfter([status |-> s, content |-> c, diag |-> g], x)
          = [status |-> x.status, content |-> c, diag |-> g]
    BY <1>2 DEF RowAfter
  <2> HIDE DEF rec
  <2>4. QED
    BY <1>0, <1>1, <2>2, <2>3, RecordStands DEF new
<1>3. CASE x.type = "set_field"
  <2>1. ApplyGroup(rec, {x}) = ApplyOp(rec, x) /\ x.type \notin StatusOps
    BY <1>3, LoneGroup DEF StatusOps
  <2> DEFINE c1 == IF x.content = Keep THEN c ELSE x.content
             g1 == g \cup x.diag
  <2>2. ApplyOp(rec, x) = [exists |-> TRUE, dead |-> FALSE, status |-> s,
                           content |-> c1, diag |-> g1]
    BY <1>3 DEF ApplyOp
  <2>3. RowAfter([status |-> s, content |-> c, diag |-> g], x)
          = [status |-> s, content |-> c1, diag |-> g1]
    BY <1>3 DEF RowAfter, StatusOps
  <2> HIDE DEF rec, c1, g1
  <2>4. QED
    BY <1>0, <1>1, <2>1, <2>2, <2>3, RecordStands
<1>4. CASE x.type \in {"claim", "release", "heartbeat"}
  <2>1. ApplyGroup(rec, {x}) = ApplyOp(rec, x) /\ x.type \notin StatusOps
    BY <1>4, LoneGroup DEF StatusOps
  <2>2. ApplyOp(rec, x) = rec
    BY <1>4 DEF ApplyOp
  <2>3. RowAfter([status |-> s, content |-> c, diag |-> g], x)
          = [status |-> s, content |-> c, diag |-> g]
    BY <1>4 DEF RowAfter, StatusOps
  <2>4. QED
    BY <1>0, <1>1, <2>1, <2>2, <2>3, RecordStands
<1>5. QED
  BY <1>2, <1>3, <1>4 DEF CommandOps

(* A log extended by the ops of one transaction. *)
LEMMA PlacedSerial ==
  ASSUME LogOK, NEW p, NEW ops, Placed(p, ops)
  PROVE  /\ Serial(log \cup ops, seq + Cardinality(ops))
         /\ seq + Cardinality(ops) \in Nat
         /\ Bounded(log \cup ops, seq + Cardinality(ops))
<1>1. \A o \in log \cup ops : o.lamport \in 1..(seq + Cardinality(ops)) /\ o.id \in Nat
  BY DEF LogOK, Placed
<1>2. \A a, b \in log \cup ops : a.lamport = b.lamport => a = b
  BY DEF LogOK, Placed
<1>3. QED
  BY <1>1, <1>2 DEF Serial, Bounded, LogOK, Placed

(* The next op of the transaction. *)
LEMMA PlacedFold ==
  ASSUME LogOK, NEW p, NEW ops, Placed(p, ops),
         Stands(FoldState(log \cup ops)),
         NEW x, x.lamport = After(ops), x.id = x.lamport, x.type \in CommandOps
  PROVE  /\ Stands(FoldState(log \cup ops \cup {x}))
         /\ Visible(FoldState(log \cup ops \cup {x}))
              = RowAfter(Visible(FoldState(log \cup ops)), x)
<1> DEFINE all == log \cup ops
           n   == seq + Cardinality(ops)
<1>1. n \in Nat /\ Bounded(all, n)
  BY PlacedSerial
<1>2. x.lamport \in Nat /\ x.lamport > n /\ x.id \in Nat
  BY <1>1 DEF After
<1> HIDE DEF all, n
<1>3. FoldState(all \cup {x}) = ApplyGroup(FoldState(all), {x})
  BY <1>1, <1>2, FoldAdd
<1>4. QED
  BY <1>2, <1>3, OpOnRow DEF all

(* After the seal the log folds to the row. *)
LEMMA SealFolds ==
  ASSUME ItemOK, NEW p, row # Absent
  PROVE  /\ Stands(FoldState(log \cup SealOps(p)))
         /\ Visible(FoldState(log \cup SealOps(p))) = row
<1> DEFINE stub == IF \E o \in log : o.type = "create" THEN {}
                   ELSE {CreateOp(seq + 1, p, "open", NoContent)}
           n    == seq + Cardinality(stub) + 1
           snap == [NewOp(n, p, "snapshot") EXCEPT
                      !.status = row.status, !.content = row.content, !.diag = row.diag]
<1>1. SealOps(p) = IF ~Drifted THEN {} ELSE stub \cup {snap}
  BY DEF SealOps
<1>2. CASE ~Drifted
  <2>1. Fold(log) = row
    BY <1>2 DEF Drifted
  <2>2. Serial(log, seq) /\ seq \in Nat
    BY DEF ItemOK, LogOK, Serial
  <2>3. IsAcc(FoldState(log))
    BY <2>2, FoldIsAcc
  <2>4. log \cup SealOps(p) = log
    BY <1>1, <1>2
  <2> HIDE DEF stub, snap
  <2>5. QED
    BY <2>1, <2>3, <2>4 DEF Fold, Stands, IsAcc
<1>3. CASE Drifted
  <2>1. /\ snap.lamport = n /\ snap.id = n /\ snap.type = "snapshot"
        /\ snap.status = row.status /\ snap.content = row.content
        /\ snap.diag = row.diag
    BY DEF NewOp
  <2>2. Placed(p, stub)
    <3>1. CASE \E o \in log : o.type = "create"
      BY <3>1, FS_EmptySet DEF Placed
    <3>2. CASE ~\E o \in log : o.type = "create"
      <4> DEFINE c == CreateOp(seq + 1, p, "open", NoContent)
      <4>1. c.lamport = seq + 1 /\ c.id = c.lamport /\ c.actor = p /\ c.lineage = Lineage[p]
        BY DEF CreateOp, NewOp
      <4> HIDE DEF c
      <4>2. Placed(p, {c})
        BY <4>1, PlacedOne DEF ItemOK, LogOK
      <4>3. QED
        BY <3>2, <4>2 DEF c
    <3>3. QED
      BY <3>1, <3>2
  <2> DEFINE all == log \cup stub
             k   == seq + Cardinality(stub)
  <2>3. Serial(all, k) /\ k \in Nat /\ Bounded(all, k)
    BY <2>2, PlacedSerial DEF ItemOK
  <2>4. n = k + 1
    OBVIOUS
  <2>5. log \cup SealOps(p) = all \cup {snap}
    BY <1>1, <1>3
  <2> HIDE DEF stub, snap, n, all, k
  <2>6. FoldState(all \cup {snap}) = ApplyGroup(FoldState(all), {snap})
    BY <2>1, <2>3, <2>4, FoldAdd
  <2>7. ApplyGroup(FoldState(all), {snap}) = ApplyOp(FoldState(all), snap)
    <3>1. snap.id \in Nat /\ snap.type \notin StatusOps
      BY <2>1, <2>3, <2>4 DEF StatusOps
    <3>2. QED
      BY <3>1, LoneGroup
  <2>8. ApplyOp(FoldState(all), snap)
          = [exists |-> TRUE, dead |-> FALSE, status |-> row.status,
             content |-> row.content, diag |-> row.diag]
    <3>1. ApplyOp(FoldState(all), snap)
          = [exists |-> TRUE, status |-> snap.status, content |-> snap.content,
             diag |-> snap.diag, dead |-> FoldState(all).dead /\ snap.type = "merge"]
      BY <2>1 DEF ApplyOp
    <3>2. (FoldState(all).dead /\ snap.type = "merge") = FALSE
      BY <2>1
    <3>3. QED
      BY <2>1, <3>1, <3>2
  <2>9. QED
    BY <2>5, <2>6, <2>7, <2>8, RecordStands DEF ItemOK, IsRow
<1>4. QED
  BY <1>2, <1>3

LEMMA RowNone ==
  ASSUME ItemOK, NEW p, row # Absent, Write(SealOps(p))
  PROVE  row' = row
<1> DEFINE all == log \cup SealOps(p)
           n   == seq + Cardinality(SealOps(p))
<1>1. Placed(p, SealOps(p))
  BY SealPlaced DEF ItemOK, LogOK
<1>2. Serial(all, n) /\ n \in Nat
  BY <1>1, PlacedSerial DEF ItemOK
<1>3. Stands(FoldState(all)) /\ Visible(FoldState(all)) = row
  BY SealFolds
<1>4. row' = Fold(all)
  BY DEF Write
<1> HIDE DEF all, n
<1>5. QED
  BY <1>2, <1>3, <1>4, FoldStands

LEMMA RowOne ==
  ASSUME ItemOK, NEW p, row # Absent,
         NEW x, Stamped(p, x), x.lamport = After(SealOps(p)), x.type \in CommandOps,
         Write(SealOps(p) \cup {x})
  PROVE  row' = RowAfter(row, x) /\ x \in NewOps
<1> DEFINE some == SealOps(p) \cup {x}
           all  == log \cup some
           n    == seq + Cardinality(some)
<1>1. Placed(p, SealOps(p))
  BY SealPlaced DEF ItemOK, LogOK
<1>2. Placed(p, some)
  BY <1>1, PlacedAdd DEF Stamped, ItemOK, LogOK
<1>3. Serial(all, n) /\ n \in Nat
  BY <1>2, PlacedSerial DEF ItemOK
<1>4. all = log \cup SealOps(p) \cup {x}
  OBVIOUS
<1>5. Stands(FoldState(all)) /\ Visible(FoldState(all)) = RowAfter(row, x)
  <2>1. Stands(FoldState(log \cup SealOps(p))) /\ Visible(FoldState(log \cup SealOps(p))) = row
    BY SealFolds
  <2>2. LogOK /\ x.id = x.lamport
    BY DEF Stamped, ItemOK
  <2> HIDE DEF all
  <2>3. QED
    BY <1>1, <1>4, <2>1, <2>2, PlacedFold
<1>6. row' = Fold(all) /\ log' = all
  BY DEF Write
<1>7. x \notin log
  BY <1>2 DEF Placed, ItemOK, LogOK
<1>8. x \in all
  OBVIOUS
<1> HIDE DEF all, n
<1>9. QED
  BY <1>3, <1>5, <1>6, <1>7, <1>8, FoldStands DEF NewOps

LEMMA RowTwo ==
  ASSUME ItemOK, NEW p, row # Absent,
         NEW x, Stamped(p, x), x.lamport = After(SealOps(p)), x.type \in CommandOps,
         NEW y, Stamped(p, y), y.lamport = After(SealOps(p)) + 1, y.type \in CommandOps,
         Write(SealOps(p) \cup {x} \cup {y})
  PROVE  row' = RowAfter(RowAfter(row, x), y) /\ x \in NewOps /\ y \in NewOps
<1> DEFINE some == SealOps(p) \cup {x}
           more == some \cup {y}
           all  == log \cup more
           n    == seq + Cardinality(more)
<1>1. Placed(p, SealOps(p))
  BY SealPlaced DEF ItemOK, LogOK
<1>2. Placed(p, some) /\ Cardinality(some) = Cardinality(SealOps(p)) + 1
  BY <1>1, PlacedAdd DEF Stamped, ItemOK, LogOK
<1>3. y.lamport = After(some)
  BY <1>1, <1>2 DEF After, Placed, ItemOK, LogOK
<1>4. log \cup some = log \cup SealOps(p) \cup {x}
  OBVIOUS
<1>5. Stands(FoldState(log \cup some)) /\ Visible(FoldState(log \cup some)) = RowAfter(row, x)
  <2>1. Stands(FoldState(log \cup SealOps(p))) /\ Visible(FoldState(log \cup SealOps(p))) = row
    BY SealFolds
  <2>2. LogOK /\ x.id = x.lamport
    BY DEF Stamped, ItemOK
  <2> HIDE DEF some
  <2>3. QED
    BY <1>1, <1>4, <2>1, <2>2, PlacedFold
<1>6. x \in more /\ y \in more
  OBVIOUS
<1> HIDE DEF some
<1>7. Placed(p, more)
  BY <1>2, <1>3, PlacedAdd DEF Stamped, ItemOK, LogOK
<1>8. Serial(all, n) /\ n \in Nat
  BY <1>7, PlacedSerial DEF ItemOK
<1>9. all = log \cup some \cup {y}
  OBVIOUS
<1>10. row' = Fold(all) /\ log' = all
  BY DEF Write, some
<1>11. x \notin log /\ y \notin log /\ x \in all /\ y \in all
  BY <1>6, <1>7 DEF Placed, ItemOK, LogOK
<1> HIDE DEF all, n, more
<1>12. Stands(FoldState(all)) /\ Visible(FoldState(all)) = RowAfter(RowAfter(row, x), y)
  <2>1. LogOK /\ y.id = y.lamport
    BY DEF Stamped, ItemOK
  <2>2. QED
    BY <1>2, <1>3, <1>5, <1>9, <2>1, PlacedFold
<1>13. QED
  BY <1>8, <1>10, <1>11, <1>12, FoldStands DEF NewOps

(* The columns after an op. *)
LEMMA RowFields ==
  ASSUME NEW r, IsRow(r), NEW x
  PROVE  /\ IsRow(RowAfter(r, x))
         /\ RowAfter(r, x).status = IF x.type \in StatusOps THEN x.status ELSE r.status
         /\ RowAfter(r, x).content =
              IF x.type = "set_field" /\ x.content # Keep THEN x.content ELSE r.content
         /\ RowAfter(r, x).diag =
              IF x.type = "set_field" THEN r.diag \cup x.diag ELSE r.diag
<1> DEFINE s == r.status
           c == r.content
           g == r.diag
           rec == [status |-> s, content |-> c, diag |-> g]
           new == RowAfter(rec, x)
<1>1. r = rec
  BY DEF IsRow
<1> HIDE DEF s, c, g
<1>2. CASE x.type \in StatusOps
  <2>1. new = [rec EXCEPT !.status = x.status]
    BY <1>2 DEF RowAfter
  <2> HIDE DEF new
  <2>2. new = [status |-> x.status, content |-> c, diag |-> g]
    BY <2>1
  <2>3. x.type # "set_field"
    BY <1>2 DEF StatusOps
  <2>4. QED
    BY <1>1, <1>2, <2>2, <2>3 DEF IsRow, new
<1>3. CASE x.type = "set_field"
  <2> DEFINE c1 == IF x.content = Keep THEN c ELSE x.content
             g1 == g \cup x.diag
  <2>1. new = [status |-> s, content |-> c1, diag |-> g1] /\ x.type \notin StatusOps
    BY <1>3 DEF RowAfter, StatusOps
  <2> HIDE DEF new
  <2>2. QED
    BY <1>1, <1>3, <2>1 DEF IsRow, new
<1>4. CASE x.type \notin StatusOps \cup {"set_field"}
  <2>1. new = rec
    BY <1>4 DEF RowAfter
  <2> HIDE DEF new
  <2>2. QED
    BY <1>1, <1>4, <2>1 DEF IsRow, new
<1>5. QED
  BY <1>2, <1>3, <1>4

-----------------------------------------------------------------------------
(* What a step owes: the row's changes are written, an exit from review    *)
(* has its evidence.                                                       *)

GatedExit ==
  row.status \in ReviewStates /\ row'.status \in Advanced \ {row.status} =>
    \E o \in NewOps : o.type \in StatusOps /\ o.approval # None

(* What _content_edits counts: a change of content that no verdict made.   *)
EditsContent(x) == x.type = "set_field" /\ x.content # Keep

ContentIsEdited ==
  row' # Absent /\ (row = Absent \/ row'.content # row.content) =>
    \E o \in NewOps :
      /\ o.verdict = None
      /\ EditsContent(o) \/ (o.type = "create" /\ o.content # NoContent)

(* A waiver folds without sealing, which matters when the row had drifted. *)
WaivesDrifted == Attests /\ Drifted /\ row.status \in IsTerminal

Owed == GatedExit /\ ((RowChangeIsWritten /\ ContentIsEdited) \/ WaivesDrifted)

Vouches(x) ==
  /\ x.type \in StatusOps /\ Gated(row.status, x.status) => x.approval # None
  /\ EditsContent(x) => x.verdict = None

LEMMA OwedSame ==
  ASSUME row' = row
  PROVE  Owed
BY DEF Owed, RowChangeIsWritten, ContentIsEdited, GatedExit

LEMMA OwedOne ==
  ASSUME ItemOK, row # Absent, NEW x \in NewOps, Vouches(x), row' = RowAfter(row, x)
  PROVE  Owed
<1>1. /\ row'.status = IF x.type \in StatusOps THEN x.status ELSE row.status
      /\ row'.content = IF x.type = "set_field" /\ x.content # Keep THEN x.content
                        ELSE row.content
      /\ row'.diag = IF x.type = "set_field" THEN row.diag \cup x.diag ELSE row.diag
  BY RowFields DEF ItemOK
<1>2. RowChangeIsWritten
  BY <1>1 DEF RowChangeIsWritten
<1>3. GatedExit
  BY <1>1 DEF GatedExit, Vouches, Gated
<1>4. ContentIsEdited
  BY <1>1 DEF ContentIsEdited, EditsContent, Vouches
<1>5. QED
  BY <1>2, <1>3, <1>4 DEF Owed

LEMMA OwedTwo ==
  ASSUME ItemOK, row # Absent, NEW x \in NewOps, Vouches(x), NEW y \in NewOps, Vouches(y),
         row' = RowAfter(RowAfter(row, x), y)
  PROVE  Owed
<1> DEFINE mid == RowAfter(row, x)
<1>1. /\ IsRow(mid)
      /\ mid.status = IF x.type \in StatusOps THEN x.status ELSE row.status
      /\ mid.content = IF x.type = "set_field" /\ x.content # Keep THEN x.content
                        ELSE row.content
      /\ mid.diag = IF x.type = "set_field" THEN row.diag \cup x.diag ELSE row.diag
  BY RowFields DEF ItemOK
<1> HIDE DEF mid
<1>2. /\ row'.status = IF y.type \in StatusOps THEN y.status ELSE mid.status
      /\ row'.content = IF y.type = "set_field" /\ y.content # Keep THEN y.content
                        ELSE mid.content
      /\ row'.diag = IF y.type = "set_field" THEN mid.diag \cup y.diag ELSE mid.diag
  BY <1>1, RowFields DEF mid
<1>3. RowChangeIsWritten
  BY <1>1, <1>2 DEF RowChangeIsWritten
<1>4. GatedExit
  BY <1>1, <1>2 DEF GatedExit, Vouches, Gated
<1>5. ContentIsEdited
  BY <1>1, <1>2 DEF ContentIsEdited, EditsContent, Vouches
<1>6. QED
  BY <1>3, <1>4, <1>5 DEF Owed

LEMMA EvidenceGiven ==
  ASSUME NEW p, NEW old, NEW new, NEW approval \in Evidence(p, old, new), Gated(old, new)
  PROVE  approval # None
BY DEF Evidence, Check, CheckModel, None

LEMMA UpdateOwes ==
  ASSUME ItemOK, NEW p, NEW status, NEW content, NEW diag, NEW force,
         UpdateWorkItem(p, status, content, diag, force)
  PROVE  Owed
<1> DEFINE seal    == SealOps(p)
           n       == After(seal)
           moves   == status \notin {NoStatus, row.status}
           edits   == content \notin {Keep, row.content} \/ diag \notin {{}, row.diag}
           verdict == ReviewTransitionFor(row.status, status)
           m(a)    == StatusOp(n, p, status, verdict, a)
           e(k)    == [NewOp(k, p, "set_field")
                         EXCEPT !.content = IF content = row.content THEN Keep ELSE content,
                                !.diag = IF diag = row.diag THEN {} ELSE diag]
<1>0. row # Absent
  BY DEF UpdateWorkItem
<1>1. PICK a \in IF moves THEN Evidence(p, row.status, status) ELSE {None} :
        LET move == IF moves THEN {m(a)} ELSE {}
            edit == IF edits THEN {e(n + Cardinality(move))} ELSE {}
        IN  Write(seal \cup move \cup edit)
  BY DEF UpdateWorkItem
<1>2. a \in Independent => a \in Check(p)
  BY <1>1, EvidenceVouches DEF Independent, None
<1>3. /\ OpOf(p, m(a)) /\ m(a).lamport = n /\ m(a).type \in StatusOps
      /\ moves => Vouches(m(a))
  <2>1. m(a).status = status /\ m(a).approval = a
    BY DEF StatusOp, NewOp
  <2>2. moves => Vouches(m(a))
    BY <1>1, <2>1, EvidenceGiven DEF Vouches, EditsContent, StatusOp, NewOp
  <2> HIDE DEF n, verdict, m
  <2>3. OpOf(p, m(a)) /\ m(a).lamport = n /\ m(a).type = "set_status"
    BY <1>2, StatusOpOf DEF m
  <2>4. QED
    BY <2>2, <2>3 DEF StatusOps
<1>4. ASSUME NEW k
      PROVE  /\ OpOf(p, e(k)) /\ e(k).lamport = k /\ e(k).type = "set_field"
             /\ Vouches(e(k))
  <2>1. /\ e(k).actor = p /\ e(k).lineage = Lineage[p] /\ e(k).approval = None
        /\ e(k).lamport = k /\ e(k).id = k /\ e(k).type = "set_field"
        /\ e(k).verdict = None
    BY DEF NewOp
  <2> HIDE DEF e
  <2>2. QED
    BY <2>1, PlainOpOf DEF Vouches, StatusOps
<1>5. n \in Int
  BY SealPlaced DEF After, ItemOK, LogOK, Placed
<1> HIDE DEF seal, n, moves, edits, verdict, m, e
<1>6. CASE moves /\ edits
  <2>1. Write(seal \cup {m(a)} \cup {e(n + 1)})
    BY <1>1, <1>6, FS_Singleton
  <2>2. /\ row' = RowAfter(RowAfter(row, m(a)), e(n + 1))
        /\ m(a) \in NewOps /\ e(n + 1) \in NewOps
    BY <1>0, <1>3, <1>4, <2>1, RowTwo DEF seal, n, CommandOps, OpOf
  <2>3. QED
    BY <1>0, <1>3, <1>4, <1>6, <2>2, OwedTwo
<1>7. CASE moves /\ ~edits
  <2>1. Write(seal \cup {m(a)})
    BY <1>1, <1>7
  <2>2. row' = RowAfter(row, m(a)) /\ m(a) \in NewOps
    BY <1>0, <1>3, <2>1, RowOne DEF seal, n, CommandOps, OpOf
  <2>3. QED
    BY <1>0, <1>3, <1>7, <2>2, OwedOne
<1>8. CASE ~moves /\ edits
  <2>1. Write(seal \cup {e(n)})
    BY <1>1, <1>5, <1>8, FS_EmptySet
  <2>2. row' = RowAfter(row, e(n)) /\ e(n) \in NewOps
    BY <1>0, <1>4, <2>1, RowOne DEF seal, n, CommandOps, OpOf
  <2>3. QED
    BY <1>0, <1>4, <2>2, OwedOne
<1>9. CASE ~moves /\ ~edits
  <2>1. Write(seal)
    BY <1>1, <1>9
  <2>2. row' = row
    BY <1>0, <2>1, RowNone DEF seal
  <2>3. QED
    BY <2>2, OwedSame
<1>10. QED
  BY <1>6, <1>7, <1>8, <1>9

LEMMA CloseOwes ==
  ASSUME ItemOK, NEW p, CloseWorkItem(p) \/ CloseWorkItemForce(p)
  PROVE  Owed
<1> DEFINE n == After(SealOps(p))
           v(new) == IF Gated(row.status, new) THEN "accept" ELSE None
<1>0. row # Absent
  BY DEF CloseWorkItem, CloseWorkItemForce
<1>1. ASSUME NEW new, NEW a \in Evidence(p, row.status, new), NEW x,
             x.id = n, x.lamport = n, x.actor = p, x.lineage = Lineage[p],
             x.status = new, x.approval = a, x.type \in StatusOps,
             Write(SealOps(p) \cup {x})
      PROVE  Owed
  <2>1. a \in Independent => a \in Check(p)
    BY EvidenceVouches
  <2>2. OpOf(p, x) /\ x.type \in CommandOps
    BY <1>1, <2>1 DEF OpOf, Stamped, CommandOps
  <2>3. Vouches(x)
    BY <1>1, EvidenceGiven DEF Vouches, EditsContent, StatusOps
  <2>4. row' = RowAfter(row, x) /\ x \in NewOps
    BY <1>0, <1>1, <2>2, RowOne DEF OpOf
  <2>5. QED
    BY <1>0, <2>3, <2>4, OwedOne
<1>2. CASE CloseWorkItem(p)
  <2>1. PICK a \in Evidence(p, row.status, "done") :
          Write(SealOps(p) \cup {StatusOp(n, p, "done", v("done"), a)})
    BY <1>2 DEF CloseWorkItem
  <2> DEFINE x == StatusOp(n, p, "done", v("done"), a)
  <2>2. /\ x.id = n /\ x.lamport = n /\ x.actor = p /\ x.lineage = Lineage[p]
        /\ x.status = "done" /\ x.approval = a /\ x.type \in StatusOps
    BY DEF StatusOp, NewOp, StatusOps
  <2> HIDE DEF n
  <2>3. Write(SealOps(p) \cup {x})
    BY <2>1
  <2> HIDE DEF x
  <2>4. QED
    BY <1>1, <2>2, <2>3
<1>3. CASE CloseWorkItemForce(p)
  <2>1. PICK a \in Evidence(p, row.status, "closed") :
          Write(SealOps(p) \cup
                {[StatusOp(n, p, "closed", v("closed"), a) EXCEPT !.type = "close"]})
    BY <1>3 DEF CloseWorkItemForce
  <2> DEFINE x == [StatusOp(n, p, "closed", v("closed"), a) EXCEPT !.type = "close"]
  <2>2. /\ x.id = n /\ x.lamport = n /\ x.actor = p /\ x.lineage = Lineage[p]
        /\ x.status = "closed" /\ x.approval = a /\ x.type \in StatusOps
    BY DEF StatusOp, NewOp, StatusOps
  <2> HIDE DEF n
  <2>3. Write(SealOps(p) \cup {x})
    BY <2>1
  <2> HIDE DEF x
  <2>4. QED
    BY <1>1, <2>2, <2>3
<1>4. QED
  BY <1>2, <1>3

LEMMA AttestOwes ==
  ASSUME ItemOK, NEW p, AttestGateWaiver(p)
  PROVE  Owed
<1> DEFINE x == [NewOp(seq + 1, p, "set_field") EXCEPT !.diag = {"gate_attestation"}]
<1>1. /\ x.lamport = seq + 1 /\ x.type = "set_field" /\ x.diag = {"gate_attestation"}
      /\ x.id = x.lamport /\ x.actor = p /\ x.lineage = Lineage[p] /\ x.verdict = None
  BY DEF NewOp
<1>2. log' = log \cup {x} /\ Write({x}) /\ row # Absent /\ row.status \in IsTerminal
  BY DEF AttestGateWaiver, Write
<1> HIDE DEF x
<1>3. x \in NewOps
  BY <1>1, <1>2 DEF NewOps, ItemOK, LogOK
<1>4. Attests
  BY <1>1, <1>3 DEF Attests
<1>5. CASE Drifted
  <2>1. GatedExit
    BY <1>2 DEF GatedExit, ReviewStates, IsTerminal
  <2>2. QED
    BY <1>2, <1>4, <1>5, <2>1 DEF Owed, WaivesDrifted
<1>6. CASE ~Drifted
  <2>1. SealOps(p) = {}
    BY <1>6 DEF SealOps
  <2>2. x.lamport = After(SealOps(p)) /\ Write(SealOps(p) \cup {x})
    BY <1>1, <1>2, <2>1, FS_EmptySet DEF After, ItemOK, LogOK
  <2>3. row' = RowAfter(row, x)
    BY <1>1, <1>2, <2>2, RowOne DEF Stamped, CommandOps
  <2>4. Vouches(x)
    BY <1>1 DEF Vouches, StatusOps
  <2>5. QED
    BY <1>2, <1>3, <2>3, <2>4, OwedOne
<1>7. QED
  BY <1>5, <1>6

(* A verdict's two ops, whoever vouches for it. *)
VerdictOps(p, t, a, x, y) ==
  /\ Stamped(p, x) /\ x.lamport = After(SealOps(p)) /\ x.type = "set_status"
  /\ x.status = Target(t) /\ x.verdict = t /\ x.approval = a
  /\ Stamped(p, y) /\ y.lamport = After(SealOps(p)) + 1 /\ y.type = "set_field"
  /\ y.content = Keep /\ y.verdict = t /\ y.approval = None
  /\ Write(SealOps(p) \cup {x} \cup {y})
  /\ row' = RowAfter(RowAfter(row, x), y) /\ x \in NewOps /\ y \in NewOps

LEMMA VerdictWrites ==
  ASSUME ItemOK, NEW p, NEW t, NEW approvals, RecordVerdict(p, t, approvals)
  PROVE  \E a \in approvals : \E x, y : VerdictOps(p, t, a, x, y)
<1> DEFINE n   == After(SealOps(p))
           new == Target(t)
           y   == [NewOp(n + 1, p, "set_field") EXCEPT
                     !.diag = row.diag \cup {"review_notes"}, !.verdict = t]
<1>0. row # Absent
  BY DEF RecordVerdict
<1>1. PICK a \in approvals : Write(SealOps(p) \cup {StatusOp(n, p, new, t, a), y})
  BY DEF RecordVerdict
<1> DEFINE x == StatusOp(n, p, new, t, a)
<1>2. /\ Stamped(p, x) /\ x.lamport = n /\ x.type = "set_status"
      /\ x.status = new /\ x.verdict = t /\ x.approval = a
  <2> HIDE DEF n, new
  <2>1. QED
    BY DEF StatusOp, NewOp, Stamped
<1>3. /\ Stamped(p, y) /\ y.lamport = n + 1 /\ y.type = "set_field"
      /\ y.content = Keep /\ y.verdict = t /\ y.approval = None
  BY DEF NewOp, Stamped
<1>4. Write(SealOps(p) \cup {x, y})
  BY <1>1
<1> HIDE DEF x, y
<1>5. SealOps(p) \cup {x, y} = SealOps(p) \cup {x} \cup {y}
  OBVIOUS
<1>6. row' = RowAfter(RowAfter(row, x), y) /\ x \in NewOps /\ y \in NewOps
  BY <1>0, <1>2, <1>3, <1>4, <1>5, RowTwo DEF CommandOps, StatusOps
<1>7. VerdictOps(p, t, a, x, y)
  BY <1>2, <1>3, <1>4, <1>5, <1>6 DEF VerdictOps
<1>8. QED
  BY <1>7

LEMMA RecordOwes ==
  ASSUME ItemOK, NEW p, NEW t \in Verdicts, NEW approvals,
         RecordVerdict(p, t, approvals), t \in Positive => None \notin approvals
  PROVE  Owed
<1>1. row # Absent
  BY DEF RecordVerdict
<1>2. PICK a \in approvals : \E x, y : VerdictOps(p, t, a, x, y)
  BY VerdictWrites
<1>3. PICK x, y : VerdictOps(p, t, a, x, y)
  BY <1>2
<1>4. /\ x.type = "set_status" /\ x.status = Target(t) /\ x.approval = a
      /\ y.type = "set_field" /\ y.content = Keep
      /\ row' = RowAfter(RowAfter(row, x), y) /\ x \in NewOps /\ y \in NewOps
  BY <1>3 DEF VerdictOps
<1>5. t \notin Positive => Target(t) = "in_progress"
  BY DEF Target, Positive, Verdicts, Resets
<1>6. Vouches(x) /\ Vouches(y)
  BY <1>2, <1>4, <1>5 DEF Vouches, EditsContent, StatusOps, Gated, Advanced
<1>7. QED
  BY <1>1, <1>4, <1>6, OwedTwo

(* review_transition records a positive verdict with evidence only. *)
LEMMA ReviewRecords ==
  ASSUME NEW p, NEW t, NEW ack, ReviewTransition(p, t, ack)
  PROVE  \E approvals : /\ RecordVerdict(p, t, approvals)
                        /\ t \in Positive => None \notin approvals
<1>1. t \in Positive => None \notin IF ack THEN {"acknowledged"} ELSE Check(p)
  BY DEF Check, CheckModel, None
<1>2. QED
  BY <1>1 DEF ReviewTransition

LEMMA ReviewOwes ==
  ASSUME ItemOK, NEW p, NEW t \in Verdicts, NEW ack, ReviewTransition(p, t, ack)
  PROVE  Owed
BY ReviewRecords, RecordOwes

LEMMA LeaseOwes ==
  ASSUME ItemOK, NEW p, (\E ttl : Claim(p, ttl)) \/ Release(p)
  PROVE  Owed
<1> DEFINE n == After(SealOps(p))
<1>0. row # Absent
  BY DEF Claim, Release
<1>1. ASSUME NEW type \in {"claim", "release"}
      PROVE  /\ OpOf(p, NewOp(n, p, type)) /\ NewOp(n, p, type).lamport = n
             /\ NewOp(n, p, type).type \in CommandOps
             /\ Vouches(NewOp(n, p, type))
  <2> HIDE DEF n
  <2>1. /\ OpOf(p, NewOp(n, p, type)) /\ NewOp(n, p, type).lamport = n
        /\ NewOp(n, p, type).type = type
    BY NewOpOf
  <2>2. QED
    BY <2>1 DEF CommandOps, Vouches, EditsContent, StatusOps
<1>2. ASSUME NEW type \in {"claim", "release"}, Write(SealOps(p) \cup {NewOp(n, p, type)})
      PROVE  Owed
  <2> DEFINE x == NewOp(n, p, type)
  <2>1. /\ OpOf(p, x) /\ x.lamport = n /\ x.type \in CommandOps /\ Vouches(x)
        /\ Write(SealOps(p) \cup {x})
    BY <1>1, <1>2
  <2> HIDE DEF x
  <2>2. row' = RowAfter(row, x) /\ x \in NewOps
    BY <1>0, <2>1, RowOne DEF OpOf
  <2>3. QED
    BY <1>0, <2>1, <2>2, OwedOne
<1>3. CASE \E ttl : Claim(p, ttl)
  BY <1>2, <1>3 DEF Claim
<1>4. CASE Release(p) /\ row.status # "claimed"
  <2>1. Write(SealOps(p) \cup {NewOp(n, p, "release")})
    BY <1>4 DEF Release
  <2>2. QED
    BY <1>2, <2>1
<1>5. CASE Release(p) /\ row.status = "claimed"
  <2> DEFINE x == NewOp(n, p, "release")
             y == StatusOp(n + 1, p, "open", None, None)
  <2>1. Write(SealOps(p) \cup {x} \cup {y})
    BY <1>5 DEF Release
  <2>2. /\ y.actor = p /\ y.lineage = Lineage[p] /\ y.approval = None
        /\ y.lamport = n + 1 /\ y.id = y.lamport
        /\ y.type = "set_status" /\ y.status = "open"
    BY DEF StatusOp, NewOp
  <2>3. OpOf(p, x) /\ x.lamport = n /\ x.type \in CommandOps /\ Vouches(x)
    BY <1>1
  <2> HIDE DEF x, y
  <2>4. Vouches(y) /\ OpOf(p, y) /\ y.type \in CommandOps
    BY <2>2, PlainOpOf DEF Vouches, EditsContent, Gated, Advanced, CommandOps, StatusOps
  <2>5. row' = RowAfter(RowAfter(row, x), y) /\ x \in NewOps /\ y \in NewOps
    BY <1>0, <2>1, <2>2, <2>3, <2>4, RowTwo DEF OpOf
  <2>6. QED
    BY <1>0, <2>3, <2>4, <2>5, OwedTwo
<1>6. QED
  BY <1>3, <1>4, <1>5

-----------------------------------------------------------------------------
(* Heartbeat and delete, which write without sealing or folding.           *)

LEMMA BareFold ==
  ASSUME ItemOK, NEW x, x.lamport = seq + 1, x.id = x.lamport
  PROVE  FoldState(log \cup {x}) = ApplyGroup(FoldState(log), {x}) /\ IsAcc(FoldState(log))
<1>1. Serial(log, seq) /\ Bounded(log, seq) /\ seq \in Nat
  BY DEF ItemOK, LogOK, Serial, Bounded
<1>2. QED
  BY <1>1, FoldAdd, FoldIsAcc

LEMMA HeartbeatInStep ==
  ASSUME ItemOK, NEW p, NEW ttl, Heartbeat(p, ttl)
  PROVE  Fold(log') = Fold(log)
<1> DEFINE x == NewOp(seq + 1, p, "heartbeat")
<1>1. x.lamport = seq + 1 /\ x.id = x.lamport /\ x.type = "heartbeat"
  BY DEF NewOp
<1>2. log' = log \cup {x}
  BY DEF Heartbeat
<1> HIDE DEF x
<1>3. FoldState(log \cup {x}) = ApplyGroup(FoldState(log), {x})
  BY <1>1, BareFold
<1>4. ApplyGroup(FoldState(log), {x}) = ApplyOp(FoldState(log), x)
  <2>1. x.id \in Nat /\ x.type \notin StatusOps
    BY <1>1 DEF ItemOK, LogOK, StatusOps
  <2>2. QED
    BY <2>1, LoneGroup
<1>5. ApplyOp(FoldState(log), x) = FoldState(log)
  BY <1>1 DEF ApplyOp
<1>6. QED
  BY <1>2, <1>3, <1>4, <1>5 DEF Fold

LEMMA DeleteInStep ==
  ASSUME ItemOK, NEW p, DeleteWorkItem(p)
  PROVE  Fold(log') = Absent
<1> DEFINE x == NewOp(seq + 1, p, "tombstone")
<1>1. x.lamport = seq + 1 /\ x.id = x.lamport /\ x.type = "tombstone"
  BY DEF NewOp
<1>2. log' = log \cup {x}
  BY DEF DeleteWorkItem
<1> HIDE DEF x
<1>3. FoldState(log \cup {x}) = ApplyGroup(FoldState(log), {x}) /\ IsAcc(FoldState(log))
  BY <1>1, BareFold
<1>4. ApplyGroup(FoldState(log), {x}) = ApplyOp(FoldState(log), x)
  <2>1. x.id \in Nat /\ x.type \notin StatusOps
    BY <1>1 DEF ItemOK, LogOK, StatusOps
  <2>2. QED
    BY <2>1, LoneGroup
<1>5. ApplyOp(FoldState(log), x).dead
  <2> DEFINE acc == FoldState(log)
             new == ApplyOp(acc, x)
  <2>1. new = [acc EXCEPT !.dead = TRUE]
    BY <1>1 DEF ApplyOp
  <2>2. "dead" \in DOMAIN acc
    <3>1. IsAcc(acc)
      BY <1>3
    <3> HIDE DEF acc
    <3>2. QED
      BY <3>1 DEF IsAcc
  <2> HIDE DEF acc, new
  <2>3. new.dead
    BY <2>1, <2>2
  <2>4. QED
    BY <2>3 DEF acc, new
<1>6. QED
  BY <1>2, <1>3, <1>4, <1>5 DEF Fold

(* Every step keeps the log's shape and owes what it changes; the fold     *)
(* follows the row.                                                        *)
LEMMA RowStep ==
  ASSUME ItemOK, [Next]_vars
  PROVE  /\ IsRow(row')
         /\ row = Fold(log) => row' = Fold(log')
         /\ row' \in {row, Absent, Fold(log')}
         /\ Owed
<1> DEFINE InStep == /\ row = Fold(log) => row' = Fold(log')
                    /\ row' \in {row, Absent, Fold(log')}
<1>1. ASSUME NEW ops, Write(ops)
      PROVE  IsRow(row') /\ InStep
  BY <1>1 DEF Write, Fold, Absent, Visible, IsRow
<1>2. CASE UNCHANGED itemVars
  BY <1>2, OwedSame DEF itemVars, ItemOK, IsRow
<1>3. ASSUME NEW p \in Proc, NEW status, NEW content \in Contents,
             FileWorkItem(p, status, content)
      PROVE  IsRow(row') /\ InStep /\ Owed
  <2>1. row = Absent /\ \E ops : Write(ops)
    BY <1>3 DEF FileWorkItem
  <2> DEFINE x == CreateOp(seq + 1, p, status, content)
  <2>2. x.type = "create" /\ x.content # NoContent /\ x.verdict = None
    BY WorkItemAssumption DEF CreateOp, NewOp
  <2>3. x \in NewOps
    BY <1>3 DEF FileWorkItem, Write, NewOps
  <2> HIDE DEF x
  <2>4. Owed
    BY <2>1, <2>2, <2>3
    DEF Owed, RowChangeIsWritten, ContentIsEdited, GatedExit, Absent, ReviewStates, NoStatus
  <2>5. QED
    BY <1>1, <2>1, <2>4
<1>4. ASSUME NEW p \in Proc, NEW status, NEW content, NEW diag, NEW force,
             UpdateWorkItem(p, status, content, diag, force)
      PROVE  IsRow(row') /\ InStep /\ Owed
  <2>1. \E ops : Write(ops)
    BY <1>4 DEF UpdateWorkItem
  <2>2. QED
    BY <1>1, <1>4, <2>1, UpdateOwes
<1>5. ASSUME NEW p \in Proc, CloseWorkItem(p) \/ CloseWorkItemForce(p)
      PROVE  IsRow(row') /\ InStep /\ Owed
  <2>1. \E ops : Write(ops)
    BY <1>5 DEF CloseWorkItem, CloseWorkItemForce
  <2>2. QED
    BY <1>1, <1>5, <2>1, CloseOwes
<1>6. ASSUME NEW p \in Proc, AttestGateWaiver(p)
      PROVE  IsRow(row') /\ InStep /\ Owed
  <2>1. \E ops : Write(ops)
    BY <1>6 DEF AttestGateWaiver
  <2>2. QED
    BY <1>1, <1>6, <2>1, AttestOwes
<1>7. ASSUME NEW p \in Proc, NEW t \in Verdicts, NEW ack, ReviewTransition(p, t, ack)
      PROVE  IsRow(row') /\ InStep /\ Owed
  <2>1. \E ops : Write(ops)
    BY <1>7 DEF ReviewTransition, RecordVerdict
  <2>2. QED
    BY <1>1, <1>7, <2>1, ReviewOwes
<1>8. ASSUME NEW p \in Proc, (\E ttl : Claim(p, ttl)) \/ Release(p)
      PROVE  IsRow(row') /\ InStep /\ Owed
  <2>1. \E ops : Write(ops)
    BY <1>8 DEF Claim, Release
  <2>2. QED
    BY <1>1, <1>8, <2>1, LeaseOwes
<1>9. ASSUME NEW p \in Proc, NEW ttl, Heartbeat(p, ttl)
      PROVE  IsRow(row') /\ InStep /\ Owed
  <2>1. row' = row
    BY <1>9 DEF Heartbeat
  <2>2. QED
    BY <1>9, <2>1, HeartbeatInStep, OwedSame DEF ItemOK, IsRow
<1>10. ASSUME NEW p \in Proc, DeleteWorkItem(p)
       PROVE  IsRow(row') /\ InStep /\ Owed
  <2>1. row' = Absent
    BY <1>10 DEF DeleteWorkItem
  <2>2. Owed
    BY <2>1 DEF Owed, RowChangeIsWritten, ContentIsEdited, GatedExit, Absent, Advanced, NoStatus
  <2>3. QED
    BY <1>10, <2>1, <2>2, DeleteInStep DEF Absent, IsRow
<1>11. CASE Next
  <2>1. CASE Time
    BY <1>2, <2>1 DEF Time
  <2>2. ASSUME NEW p \in Proc, Start1(p) \/ Refused(p) \/ SweepExpired(p)
        PROVE  UNCHANGED itemVars
    BY <2>2 DEF Start1, Refused, SweepExpired
  <2> HIDE DEF InStep
  <2>3. ASSUME NEW p \in Proc, Runs(p)
        PROVE  IsRow(row') /\ InStep /\ Owed
    <3>1. CASE Start1(p) \/ Refused(p) \/ SweepExpired(p)
      BY <1>2, <2>2, <3>1 DEF InStep
    <3>2. QED
      BY <1>3, <1>4, <1>5, <1>6, <1>7, <1>8, <1>9, <1>10, <2>3, <3>1 DEF Runs
  <2>4. IsRow(row') /\ InStep /\ Owed
    BY <1>11, <2>1, <2>3, NextIs DEF InStep
  <2>5. QED
    BY <2>4 DEF InStep
<1>12. CASE UNCHANGED vars
  BY <1>2, <1>12 DEF vars, itemVars
<1>13. QED
  BY <1>11, <1>12

LEMMA ItemOKStep ==
  ASSUME ItemOK, [Next]_vars
  PROVE  ItemOK'
<1>1. LogOK'
  BY StepAppends, AppendsLogOK DEF ItemOK, LogOK
<1>2. QED
  BY <1>1, RowStep DEF ItemOK, IsRow

LEMMA ItemOKInit ==
  ASSUME Init
  PROVE  ItemOK
<1>1. ASSUME NEW r \in LegacyRows PROVE IsRow(r)
  BY WorkItemAssumption DEF IsRow
<1>2. IsRow(row)
  BY <1>1 DEF Init, Legacy, Absent, IsRow
<1>3. QED
  BY <1>2, InitLogOK DEF ItemOK

(* The cache row never falls behind the log by a command of the engine,    *)
(* those that do not fold included (_native.py heartbeat, delete).         *)
THEOREM RowStaysInStep == Spec => StaysInStep
<1>1. Init => ItemOK
  BY ItemOKInit
<1>2. ItemOK /\ [Next]_vars => ItemOK'
  BY ItemOKStep
<1>3. ItemOK /\ [Next]_vars => [CacheVerified => CacheVerified']_vars
  BY RowStep DEF CacheVerified
<1>4. QED
  BY <1>1, <1>2, <1>3, PTL DEF Spec, StaysInStep

(* What the row loses or gains was written in the log by the command that  *)
(* changed it, whatever the row had drifted to before (_seal.py).          *)
THEOREM NothingRevertsSilently == Spec => NoSilentRevert
<1>1. Init => ItemOK
  BY ItemOKInit
<1>2. ItemOK /\ [Next]_vars => ItemOK'
  BY ItemOKStep
<1>3. ItemOK /\ [Next]_vars => [~Attests => RowChangeIsWritten]_vars
  BY RowStep DEF Owed, WaivesDrifted
<1>4. QED
  BY <1>1, <1>2, <1>3, PTL DEF Spec, NoSilentRevert

(* No command moves an item up out of review without evidence recorded in  *)
(* the same transaction (_independence.py ReviewerIndependenceGate).       *)
THEOREM ReviewExitsAreGated == Spec => NoUngatedExit
<1>1. Init => ItemOK
  BY ItemOKInit
<1>2. ItemOK /\ [Next]_vars => ItemOK'
  BY ItemOKStep
<1>3. ItemOK /\ [Next]_vars =>
        [row.status \in ReviewStates /\ row'.status \in Advanced \ {row.status} =>
           \E o \in NewOps : o.type \in StatusOps /\ o.approval # None]_vars
  BY RowStep DEF Owed, GatedExit
<1>4. QED
  BY <1>1, <1>2, <1>3, PTL DEF Spec, NoUngatedExit

-----------------------------------------------------------------------------
(* An accepted completion was reviewed.  The argument is about the ops     *)
(* that move the verifier's status, creates and status ops (Moves), and    *)
(* about how the row follows the last of them.                             *)

OpenCreate(o) == o.type = "create" /\ o.status = "open"

(* The entity was created before anything moved it. *)
CreateLeads ==
  \A o \in log : o.type \in StatusOps =>
    /\ \E c \in log : c.type = "create"
    /\ \A c \in log : c.type = "create" => c.lamport < o.lamport

(* Without force an item enters in_human_review by an evidenced pass only. *)
PassesVouched ==
  \A o \in log : o.type \in StatusOps /\ o.status = "in_human_review" => o.approval # None

(* What left a review state upward, in the log's own walk, has evidence.   *)
ExitsVouched ==
  \A x, q \in log :
    x.type \in StatusOps /\ IsLast(q, log, x.lamport - 1) /\ Gated(q.status, x.status)
      => x.approval # None

(* A bounce is recorded while the item is back in progress. *)
ResetsBounce ==
  \A r \in log : r.verdict \in Resets =>
    \E x \in log : IsLast(x, log, r.lamport) /\ x.status = "in_progress"

ReviewLog == CreateLeads /\ PassesVouched /\ ExitsVouched /\ ResetsBounce

(* The row follows the last move.  It may be ahead of a log that has not   *)
(* moved since it was created, as a regista-era row is.                    *)
RowIsCreated == row # Absent /\ row = Fold(log) => \E c \in log : c.type = "create"
DriftIsOld   == row \notin {Absent, Fold(log)} => \A o \in Moves(log) : OpenCreate(o)
RowFollows   ==
  row # Absent =>
    \A q \in log : IsLast(q, log, seq) => q.status = row.status \/ OpenCreate(q)

ReviewRow == RowIsCreated /\ DriftIsOld /\ RowFollows

ReviewOK == ItemOK /\ ReviewLog /\ ReviewRow

Reviewed == ReviewLog' /\ ReviewRow'

(* A log that grows at its end keeps its earlier last moves. *)
LEMMA LastStays ==
  ASSUME LogOK, NEW all, log' = log \cup all, \A a \in all : a.lamport \in Int /\ a.lamport > seq,
         NEW m \in Int, m <= seq
  PROVE  \A q : IsLast(q, log', m) <=> IsLast(q, log, m)
<1>1. \A x \in all : ~(x.lamport <= m)
  BY DEF LogOK
<1>2. \A x : x \in Moves(log') /\ x.lamport <= m <=> x \in Moves(log) /\ x.lamport <= m
  BY <1>1 DEF Moves
<1>3. QED
  BY <1>2 DEF IsLast

(* The last move up to a later lamport, when it is an old one. *)
LEMMA LastWasLast ==
  ASSUME LogOK, NEW all, log' = log \cup all, NEW m \in Int, m >= seq,
         NEW q \in log, IsLast(q, log', m)
  PROVE  IsLast(q, log, seq)
<1>1. \A x \in Moves(log) : x \in Moves(log') /\ x.lamport <= seq /\ x.lamport <= m
  BY DEF Moves, LogOK
<1>2. q \in Moves(log)
  BY DEF IsLast, Moves
<1>3. QED
  BY <1>1, <1>2 DEF IsLast

(* One op that is no move and no verdict. *)
LEMMA QuietLog ==
  ASSUME LogOK, ReviewLog, NEW x, x.lamport = seq + 1, x.verdict = None,
         x.type \notin StatusOps \cup {"create"}, log' = log \cup {x}
  PROVE  ReviewLog'
<1>1. \A a \in {x} : a.lamport \in Int /\ a.lamport > seq
  BY DEF LogOK
<1>2. Moves(log') = Moves(log) /\ x \notin Moves(log')
  BY DEF Moves
<1>3. \A q, m : IsLast(q, log', m) <=> IsLast(q, log, m)
  BY <1>2 DEF IsLast
<1>4. CreateLeads' /\ PassesVouched'
  BY DEF ReviewLog, CreateLeads, PassesVouched
<1>5. ExitsVouched'
  <2>1. \A q, m : IsLast(q, log', m) => q \in log
    BY <1>2 DEF IsLast, Moves
  <2>2. QED
    BY <1>3, <2>1 DEF ReviewLog, ExitsVouched
<1>6. ResetsBounce'
  <2>1. x.verdict \notin Resets
    BY DEF Resets, None
  <2>2. QED
    BY <1>3, <2>1 DEF ReviewLog, ResetsBounce
<1>7. QED
  BY <1>4, <1>5, <1>6 DEF ReviewLog

LEMMA QuietFollows ==
  ASSUME LogOK, NEW x, x.lamport = seq + 1, seq' = seq + 1,
         x.type \notin StatusOps \cup {"create"}, log' = log \cup {x}
  PROVE  \A q : IsLast(q, log', seq') => q \in Moves(log) /\ IsLast(q, log, seq)
<1>1. Moves(log') = Moves(log)
  BY DEF Moves
<1>2. ASSUME NEW q, IsLast(q, log', seq') PROVE q \in Moves(log) /\ IsLast(q, log, seq)
  <2>1. q \in Moves(log) /\ q \in log
    BY <1>1, <1>2 DEF IsLast, Moves
  <2>2. seq' \in Int /\ seq' >= seq
    BY DEF LogOK
  <2>3. QED
    BY <1>2, <2>1, <2>2, LastWasLast
<1>3. QED
  BY <1>2

LEMMA HeartbeatReviewed ==
  ASSUME ReviewOK, NEW p, NEW ttl, Heartbeat(p, ttl)
  PROVE  Reviewed
<1>1. PICK x : x = NewOp(seq + 1, p, "heartbeat")
  OBVIOUS
<1>2. x.lamport = seq + 1 /\ x.verdict = None /\ x.type \notin StatusOps \cup {"create"}
  BY <1>1 DEF NewOp, StatusOps
<1>3. log' = log \cup {x} /\ seq' = seq + 1 /\ row' = row
  BY <1>1 DEF Heartbeat
<1>4. ReviewLog'
  BY <1>2, <1>3, QuietLog DEF ReviewOK, ItemOK
<1>5. \A q : IsLast(q, log', seq') => q \in Moves(log) /\ IsLast(q, log, seq)
  BY <1>2, <1>3, QuietFollows DEF ReviewOK, ItemOK
<1>6. Fold(log') = Fold(log)
  BY HeartbeatInStep DEF ReviewOK
<1>7. Moves(log') = Moves(log)
  BY <1>2, <1>3 DEF Moves
<1>8. RowIsCreated' /\ DriftIsOld'
  BY <1>3, <1>6, <1>7 DEF ReviewOK, ReviewRow, RowIsCreated, DriftIsOld
<1>9. RowFollows'
  BY <1>3, <1>5 DEF ReviewOK, ReviewRow, RowFollows, Moves
<1>10. QED
  BY <1>4, <1>8, <1>9 DEF Reviewed, ReviewRow

LEMMA DeleteReviewed ==
  ASSUME ReviewOK, NEW p, DeleteWorkItem(p)
  PROVE  Reviewed
<1>1. PICK x : x = NewOp(seq + 1, p, "tombstone")
  OBVIOUS
<1>2. x.lamport = seq + 1 /\ x.verdict = None /\ x.type \notin StatusOps \cup {"create"}
  BY <1>1 DEF NewOp, StatusOps
<1>3. log' = log \cup {x} /\ row' = Absent
  BY <1>1 DEF DeleteWorkItem
<1>4. ReviewLog'
  BY <1>2, <1>3, QuietLog DEF ReviewOK, ItemOK
<1>5. QED
  BY <1>3, <1>4 DEF Reviewed, ReviewRow, RowIsCreated, DriftIsOld, RowFollows, Absent

(* A waiver keeps the status of a row in step; over a drifted row it puts  *)
(* the log's, which never moved.                                           *)
LEMMA AttestReviewed ==
  ASSUME ReviewOK, NEW p, AttestGateWaiver(p)
  PROVE  Reviewed
<1>1. PICK x : x = [NewOp(seq + 1, p, "set_field") EXCEPT !.diag = {"gate_attestation"}]
  OBVIOUS
<1>2. /\ x.lamport = seq + 1 /\ x.verdict = None /\ x.type = "set_field"
      /\ x.id = x.lamport /\ x.actor = p /\ x.lineage = Lineage[p]
  BY <1>1 DEF NewOp
<1>3. Write({x}) /\ row # Absent /\ \E c \in log : c.type = "create"
  BY <1>1 DEF AttestGateWaiver
<1>4. log' = log \cup {x} /\ seq' = seq + 1 /\ row' = Fold(log')
  BY <1>3, FS_Singleton DEF Write
<1>5. x.type \notin StatusOps \cup {"create"}
  BY <1>2 DEF StatusOps
<1>6. ReviewLog'
  BY <1>2, <1>4, <1>5, QuietLog DEF ReviewOK, ItemOK
<1>7. RowIsCreated' /\ DriftIsOld'
  BY <1>3, <1>4 DEF RowIsCreated, DriftIsOld
<1>8. ASSUME NEW q, IsLast(q, log', seq')
      PROVE  q.status = row'.status \/ OpenCreate(q)
  <2>1. q \in Moves(log) /\ IsLast(q, log, seq)
    BY <1>2, <1>4, <1>5, <1>8, QuietFollows DEF ReviewOK, ItemOK
  <2>2. CASE Drifted
    BY <1>3, <2>1, <2>2 DEF Drifted, ReviewOK, ReviewRow, DriftIsOld
  <2>3. CASE ~Drifted
    <3>1. SealOps(p) = {}
      BY <2>3 DEF SealOps
    <3>2. x.lamport = After(SealOps(p)) /\ Write(SealOps(p) \cup {x})
      BY <1>2, <1>3, <3>1, FS_EmptySet DEF After, ReviewOK, ItemOK, LogOK
    <3>3. row' = RowAfter(row, x)
      BY <1>2, <1>3, <3>2, RowOne DEF Stamped, CommandOps, ReviewOK
    <3>4. row'.status = row.status
      BY <1>5, <3>3, RowFields DEF ReviewOK, ItemOK
    <3>5. QED
      BY <1>3, <2>1, <3>4 DEF ReviewOK, ReviewRow, RowFollows, Moves
  <2>4. QED
    BY <2>2, <2>3
<1>9. RowFollows'
  BY <1>8 DEF RowFollows, OpenCreate
<1>10. QED
  BY <1>6, <1>7, <1>9 DEF Reviewed, ReviewRow

LEMMA FileReviewed ==
  ASSUME ReviewOK, NEW p, NEW status, NEW content, FileWorkItem(p, status, content)
  PROVE  Reviewed
<1>1. PICK x : x = CreateOp(seq + 1, p, status, content)
  OBVIOUS
<1>2. /\ x.lamport = seq + 1 /\ x.id = seq + 1 /\ x.type = "create"
      /\ x.status = status /\ x.verdict = None
  BY <1>1 DEF CreateOp, NewOp
<1>3. log = {} /\ Write({x})
  BY <1>1 DEF FileWorkItem
<1>4. log' = {x} /\ row' = Fold({x}) /\ x.type \notin StatusOps
  BY <1>2, <1>3 DEF Write, StatusOps
<1>5. ReviewLog'
  <2>1. x.verdict \notin Resets
    BY <1>2 DEF Resets, None
  <2>2. QED
    BY <1>4, <2>1 DEF ReviewLog, CreateLeads, PassesVouched, ExitsVouched, ResetsBounce
<1>6. RowIsCreated' /\ DriftIsOld'
  BY <1>2, <1>4 DEF RowIsCreated, DriftIsOld
<1>7. row' # Absent => row'.status = x.status
  <2>1. seq \in Nat /\ x.lamport \in Nat /\ x.lamport > 0 /\ Bounded({}, 0)
    BY <1>2 DEF ReviewOK, ItemOK, LogOK, Bounded
  <2>2. FoldState({x}) = ApplyGroup(FoldState({}), {x})
    <3>1. {} \cup {x} = {x}
      OBVIOUS
    <3>2. QED
      BY <2>1, <3>1, FoldAdd
  <2>3. ApplyGroup(Start, {x}) = ApplyOp(Start, x)
    BY <1>2, <1>4, <2>1, LoneGroup
  <2>4. FoldState({x}).status = x.status
    <3>1. ApplyOp(Start, x) = [exists |-> x.content # NoContent, dead |-> FALSE,
                               status |-> x.status, content |-> x.content,
                               diag |-> x.diag]
      BY <1>2 DEF ApplyOp, Start
    <3>2. QED
      BY <2>2, <2>3, <3>1, FoldEmpty
  <2>5. QED
    BY <1>4, <2>4 DEF Fold, Visible
<1>8. RowFollows'
  BY <1>4, <1>7 DEF RowFollows, OpenCreate
<1>9. QED
  BY <1>5, <1>6, <1>8 DEF Reviewed, ReviewRow

(* What a sealing command does: the seal, then ops of which one at most    *)
(* moves the item, with the evidence the gate asked for.                   *)
Sound(x) ==
  /\ x.type \in CommandOps
  /\ x.type \in StatusOps =>
       /\ x.status = "in_human_review" => x.approval # None
       /\ Gated(row.status, x.status) => x.approval # None
  /\ x.verdict \in Resets /\ x.type \in StatusOps => x.status = "in_progress"

Sealed(p, ops) ==
  /\ row # Absent
  /\ Placed(p, SealOps(p) \cup ops)
  /\ Write(SealOps(p) \cup ops)
  /\ \A s \in SealOps(p), o \in ops : s.lamport < o.lamport
  /\ \A o \in ops : Sound(o)
  /\ \A a, b \in ops : a.type \in StatusOps /\ b.type \in StatusOps => a = b
  /\ \A o \in ops : o.type \in StatusOps => row'.status = o.status
  /\ (\A o \in ops : o.type \notin StatusOps) => row'.status = row.status
  /\ \A r \in ops : r.verdict \in Resets =>
       \E x \in ops : /\ x.type \in StatusOps /\ x.status = "in_progress"
                      /\ x.lamport <= r.lamport

LEMMA SealedNone ==
  ASSUME ItemOK, NEW p, row # Absent, Write(SealOps(p))
  PROVE  Sealed(p, {})
<1>1. row' = row
  BY RowNone
<1>2. Placed(p, SealOps(p)) /\ SealOps(p) \cup {} = SealOps(p)
  BY SealPlaced DEF ItemOK, LogOK
<1>3. QED
  BY <1>1, <1>2 DEF Sealed

LEMMA SealedOne ==
  ASSUME ItemOK, NEW p, row # Absent,
         NEW x, Stamped(p, x), x.lamport = After(SealOps(p)), Sound(x),
         x.verdict \in Resets => x.type \in StatusOps,
         Write(SealOps(p) \cup {x})
  PROVE  Sealed(p, {x})
<1>1. row' = RowAfter(row, x)
  BY RowOne DEF Sound
<1>2. row'.status = IF x.type \in StatusOps THEN x.status ELSE row.status
  BY <1>1, RowFields DEF ItemOK
<1>3. Placed(p, SealOps(p)) /\ seq \in Nat
  BY SealPlaced DEF ItemOK, LogOK
<1>4. Placed(p, SealOps(p) \cup {x})
  BY <1>3, PlacedAdd DEF Stamped
<1>5. \A s \in SealOps(p) : s.lamport < x.lamport
  BY <1>3 DEF Placed, After
<1>6. x.lamport <= x.lamport
  BY <1>3 DEF Placed, After
<1>7. x.verdict \in Resets => x.type \in StatusOps /\ x.status = "in_progress"
  BY DEF Sound
<1>8. QED
  BY <1>2, <1>4, <1>5, <1>6, <1>7 DEF Sealed

LEMMA SealedTwo ==
  ASSUME ItemOK, NEW p, row # Absent,
         NEW x, Stamped(p, x), x.lamport = After(SealOps(p)), Sound(x),
         NEW y, Stamped(p, y), y.lamport = After(SealOps(p)) + 1, Sound(y),
         ~(x.type \in StatusOps /\ y.type \in StatusOps),
         x.verdict \in Resets => x.type \in StatusOps,
         y.verdict \in Resets =>
           y.type \in StatusOps \/ (x.type \in StatusOps /\ x.verdict \in Resets),
         Write(SealOps(p) \cup {x} \cup {y})
  PROVE  Sealed(p, {x, y})
<1>0. SealOps(p) \cup {x} \cup {y} = SealOps(p) \cup {x, y}
  OBVIOUS
<1>1. row' = RowAfter(RowAfter(row, x), y)
  BY RowTwo DEF Sound
<1>2. row'.status = IF y.type \in StatusOps THEN y.status
                    ELSE IF x.type \in StatusOps THEN x.status ELSE row.status
  <2>1. PICK mid : mid = RowAfter(row, x)
    OBVIOUS
  <2>2. IsRow(mid) /\ mid.status = IF x.type \in StatusOps THEN x.status ELSE row.status
    BY <2>1, RowFields DEF ItemOK
  <2>3. row'.status = IF y.type \in StatusOps THEN y.status ELSE mid.status
    BY <1>1, <2>1, <2>2, RowFields
  <2>4. QED
    BY <2>2, <2>3
<1>3. Placed(p, SealOps(p)) /\ seq \in Nat
  BY SealPlaced DEF ItemOK, LogOK
<1>4. /\ Placed(p, SealOps(p) \cup {x})
      /\ Cardinality(SealOps(p) \cup {x}) = Cardinality(SealOps(p)) + 1
  BY <1>3, PlacedAdd DEF Stamped
<1>5. y.lamport = After(SealOps(p) \cup {x})
  BY <1>3, <1>4 DEF After, Placed
<1>6. Placed(p, SealOps(p) \cup {x, y})
  BY <1>0, <1>3, <1>4, <1>5, PlacedAdd DEF Stamped
<1>7. \A s \in SealOps(p) : s.lamport < x.lamport /\ s.lamport < y.lamport
  BY <1>3 DEF Placed, After
<1>8. x.lamport <= x.lamport /\ x.lamport <= y.lamport /\ y.lamport <= y.lamport
  BY <1>3 DEF Placed, After
<1>9. /\ x.verdict \in Resets => x.type \in StatusOps /\ x.status = "in_progress"
      /\ y.verdict \in Resets /\ y.type \in StatusOps => y.status = "in_progress"
  BY DEF Sound
<1>10. \A r \in {x, y} : r.verdict \in Resets =>
         \E z \in {x, y} : /\ z.type \in StatusOps /\ z.status = "in_progress"
                           /\ z.lamport <= r.lamport
  BY <1>8, <1>9
<1>11. /\ \A o \in {x, y} : o.type \in StatusOps => row'.status = o.status
       /\ (\A o \in {x, y} : o.type \notin StatusOps) => row'.status = row.status
  BY <1>2
<1>12. /\ \A s \in SealOps(p), o \in {x, y} : s.lamport < o.lamport
       /\ \A o \in {x, y} : Sound(o)
       /\ \A a, b \in {x, y} : a.type \in StatusOps /\ b.type \in StatusOps => a = b
  BY <1>7
<1>13. Write(SealOps(p) \cup {x, y})
  BY <1>0
<1>14. QED
  BY <1>6, <1>10, <1>11, <1>12, <1>13 DEF Sealed

(* The seal moves the item only by the create a chainless row lacks. *)
LEMMA SealMoves ==
  ASSUME ReviewOK, NEW p, row # Absent
  PROVE  /\ \A s \in SealOps(p) :
              /\ s.type \notin StatusOps /\ s.verdict = None
              /\ s.type = "create" => OpenCreate(s) /\ ~\E c \in log : c.type = "create"
         /\ \E c \in log \cup SealOps(p) : c.type = "create"
<1>1. PICK c : c = CreateOp(seq + 1, p, "open", NoContent)
  OBVIOUS
<1>2. c.type = "create" /\ c.status = "open" /\ c.verdict = None
  BY <1>1 DEF CreateOp, NewOp
<1>3. PICK stub : stub = IF \E o \in log : o.type = "create" THEN {} ELSE {c}
  OBVIOUS
<1>4. PICK snap : snap = [NewOp(seq + Cardinality(stub) + 1, p, "snapshot") EXCEPT
                            !.status = row.status, !.content = row.content,
                            !.diag = row.diag]
  OBVIOUS
<1>5. snap.type = "snapshot" /\ snap.verdict = None
  BY <1>4 DEF NewOp
<1>6. SealOps(p) = IF ~Drifted THEN {} ELSE stub \cup {snap}
  BY <1>1, <1>3, <1>4 DEF SealOps
<1>7. \A s \in SealOps(p) :
              /\ s.type \notin StatusOps /\ s.verdict = None
              /\ s.type = "create" => OpenCreate(s) /\ ~\E o \in log : o.type = "create"
  BY <1>2, <1>3, <1>5, <1>6 DEF OpenCreate, StatusOps
<1>8. CASE \E o \in log : o.type = "create"
  BY <1>7, <1>8
<1>9. CASE ~\E o \in log : o.type = "create"
  <2>1. Drifted
    BY <1>9 DEF Drifted, ReviewOK, ReviewRow, RowIsCreated
  <2>2. c \in SealOps(p)
    BY <1>3, <1>6, <1>9, <2>1
  <2>3. QED
    BY <1>2, <1>7, <2>2
<1>10. QED
  BY <1>8, <1>9

LEMMA SealedReviewed ==
  ASSUME ReviewOK, NEW p, NEW ops, Sealed(p, ops)
  PROVE  Reviewed
<1> DEFINE all == SealOps(p) \cup ops
<1>1. LogOK /\ seq \in Nat /\ row # Absent
  BY DEF ReviewOK, ItemOK, LogOK, Sealed
<1>2. log' = log \cup all /\ seq' = seq + Cardinality(all) /\ row' = Fold(log')
  BY DEF Sealed, Write
<1>3. /\ \A a \in all : a.lamport \in Int /\ a.lamport > seq /\ a.lamport <= seq'
      /\ \A o \in log : o.lamport \in Int /\ o.lamport <= seq
      /\ seq' \in Nat /\ seq <= seq'
  <2>1. PICK k : k = Cardinality(all)
    OBVIOUS
  <2>2. k \in Nat /\ \A a \in all : a.lamport \in (seq + 1)..(seq + k)
    BY <2>1 DEF Sealed, Placed
  <2>3. seq' = seq + k
    BY <1>2, <2>1
  <2> HIDE DEF all
  <2>4. QED
    BY <1>1, <2>2, <2>3 DEF LogOK
<1>4. /\ \A s \in SealOps(p) :
              /\ s.type \notin StatusOps /\ s.verdict = None
              /\ s.type = "create" => OpenCreate(s) /\ ~\E c \in log : c.type = "create"
      /\ \E c \in log \cup SealOps(p) : c.type = "create"
  BY <1>1, SealMoves
<1>5. /\ \A s \in SealOps(p), o \in ops : s.lamport < o.lamport
      /\ \A o \in ops : Sound(o) /\ o.type # "create"
      /\ \A a, b \in ops : a.type \in StatusOps /\ b.type \in StatusOps => a = b
      /\ \A o \in ops : o.type \in StatusOps => row'.status = o.status
      /\ (\A o \in ops : o.type \notin StatusOps) => row'.status = row.status
      /\ \A r \in ops : r.verdict \in Resets =>
           \E x \in ops : /\ x.type \in StatusOps /\ x.status = "in_progress"
                          /\ x.lamport <= r.lamport
  BY DEF Sealed, Sound, CommandOps, StatusOps
<1>6. \A m \in Int : m <= seq => \A q : IsLast(q, log', m) <=> IsLast(q, log, m)
  <2> HIDE DEF all
  <2>1. QED
    BY <1>1, <1>2, <1>3, LastStays
<1>7. \A m \in Int : m >= seq => \A q \in log : IsLast(q, log', m) => IsLast(q, log, seq)
  <2> HIDE DEF all
  <2>1. QED
    BY <1>1, <1>2, LastWasLast
<1>8. ReviewLog /\ ReviewRow
  BY DEF ReviewOK
<1>9. \E c \in log' : c.type = "create"
  BY <1>2, <1>4
<1>10. CreateLeads'
  <2> SUFFICES ASSUME NEW o \in log', o.type \in StatusOps,
                      NEW c \in log', c.type = "create"
               PROVE  c.lamport < o.lamport
    BY <1>9 DEF CreateLeads
  <2>1. CASE o \in log
    <3>1. \E k \in log : k.type = "create"
      BY <1>8, <2>1 DEF ReviewLog, CreateLeads
    <3>2. c \in log
      BY <1>2, <1>4, <1>5, <3>1
    <3>3. QED
      BY <1>8, <2>1, <3>2 DEF ReviewLog, CreateLeads
  <2>2. CASE o \notin log
    <3>1. o \in ops
      BY <1>2, <1>4, <2>2
    <3>2. c \in log \/ c \in SealOps(p)
      BY <1>2, <1>5
    <3>3. QED
      BY <1>1, <1>3, <1>5, <3>1, <3>2
  <2>3. QED
    BY <2>1, <2>2
<1>11. PassesVouched'
  BY <1>2, <1>4, <1>5, <1>8 DEF ReviewLog, PassesVouched, Sound
<1>12. ExitsVouched'
  <2> SUFFICES ASSUME NEW x \in log', NEW q \in log', x.type \in StatusOps,
                      IsLast(q, log', x.lamport - 1), Gated(q.status, x.status)
               PROVE  x.approval # None
    BY DEF ExitsVouched, Gated
  <2>0. x.lamport \in Int /\ q.lamport \in Int /\ q.lamport <= x.lamport - 1 /\ q \in Moves(log')
    BY <1>2, <1>3 DEF IsLast
  <2>1. CASE x \in log
    <3>1. x.lamport - 1 \in Int /\ x.lamport - 1 <= seq
      BY <1>1, <1>3, <2>0, <2>1
    <3>2. IsLast(q, log, x.lamport - 1)
      BY <1>6, <3>1
    <3>3. q \in log
      BY <3>2 DEF IsLast, Moves
    <3>4. QED
      BY <1>8, <2>1, <3>2, <3>3 DEF ReviewLog, ExitsVouched
  <2>2. CASE x \notin log
    <3>1. x \in ops /\ x.lamport > seq
      BY <1>2, <1>3, <1>4, <2>2
    <3>2. q \notin ops
      BY <1>5, <2>0, <3>1 DEF Moves
    <3>3. q.status = row.status \/ OpenCreate(q)
      <4>1. CASE q \in log
        <5>1. x.lamport - 1 \in Int /\ x.lamport - 1 >= seq
          BY <1>1, <2>0, <3>1
        <5>2. IsLast(q, log, seq)
          BY <1>7, <4>1, <5>1
        <5>3. QED
          BY <1>1, <1>8, <4>1, <5>2 DEF ReviewRow, RowFollows
      <4>2. CASE q \in SealOps(p)
        BY <1>4, <2>0, <4>2 DEF Moves
      <4>3. QED
        BY <1>2, <3>2, <4>1, <4>2
    <3>4. ~OpenCreate(q)
      BY DEF Gated, ReviewStates, OpenCreate
    <3>5. QED
      BY <1>5, <3>1, <3>3, <3>4 DEF Sound
  <2>3. QED
    BY <2>1, <2>2
<1>13. ResetsBounce'
  <2> SUFFICES ASSUME NEW r \in log', r.verdict \in Resets
               PROVE  \E x \in log' : IsLast(x, log', r.lamport) /\ x.status = "in_progress"
    BY DEF ResetsBounce
  <2>1. CASE r \in log
    <3>1. PICK x \in log : IsLast(x, log, r.lamport) /\ x.status = "in_progress"
      BY <1>8, <2>1 DEF ReviewLog, ResetsBounce
    <3>2. IsLast(x, log', r.lamport)
      BY <1>3, <1>6, <2>1, <3>1
    <3>3. QED
      BY <1>2, <3>1, <3>2
  <2>2. CASE r \notin log
    <3>1. r \in ops
      BY <1>2, <1>4, <2>2 DEF Resets, None
    <3>2. PICK x \in ops : /\ x.type \in StatusOps /\ x.status = "in_progress"
                           /\ x.lamport <= r.lamport
      BY <1>5, <3>1
    <3>3. x \in log' /\ x \in Moves(log') /\ x.lamport \in Int
      BY <1>2, <1>3, <3>2 DEF Moves
    <3>4. \A y \in Moves(log') : y.lamport <= x.lamport
      <4>1. ASSUME NEW y \in log PROVE y.lamport <= x.lamport
        BY <1>1, <1>3, <3>2
      <4>2. ASSUME NEW y \in SealOps(p) PROVE y.lamport <= x.lamport
        BY <1>3, <1>5, <3>2
      <4>3. ASSUME NEW y \in ops, y \in Moves(log') PROVE y.lamport <= x.lamport
        BY <1>3, <1>5, <3>2, <4>3 DEF Moves
      <4>4. QED
        BY <1>2, <4>1, <4>2, <4>3 DEF Moves
    <3>5. QED
      BY <3>2, <3>3, <3>4 DEF IsLast
  <2>3. QED
    BY <2>1, <2>2
<1>14. RowIsCreated' /\ DriftIsOld'
  BY <1>2, <1>9 DEF RowIsCreated, DriftIsOld
<1>15. RowFollows'
  <2> SUFFICES ASSUME NEW q \in log', IsLast(q, log', seq')
               PROVE  q.status = row'.status \/ OpenCreate(q)
    BY DEF RowFollows, OpenCreate
  <2>0. q \in Moves(log')
    BY DEF IsLast
  <2>1. CASE \E x \in ops : x.type \in StatusOps
    <3>1. PICK x \in ops : x.type \in StatusOps
      BY <2>1
    <3>2. x.lamport <= q.lamport
      BY <1>2, <1>3, <3>1 DEF IsLast, Moves
    <3>3. q \in ops
      BY <1>1, <1>2, <1>3, <1>5, <3>1, <3>2
    <3>4. q = x
      BY <1>5, <2>0, <3>1, <3>3 DEF Moves
    <3>5. QED
      BY <1>5, <3>1, <3>4
  <2>2. CASE ~\E x \in ops : x.type \in StatusOps
    <3>1. row'.status = row.status /\ q \notin ops
      BY <1>5, <2>0, <2>2 DEF Moves
    <3>2. CASE q \in log
      <4>1. IsLast(q, log, seq)
        BY <1>3, <1>7, <3>2
      <4>2. QED
        BY <1>1, <1>8, <3>1, <3>2, <4>1 DEF ReviewRow, RowFollows
    <3>3. CASE q \in SealOps(p)
      BY <1>4, <2>0, <3>3 DEF Moves
    <3>4. QED
      BY <1>2, <3>1, <3>2, <3>3
  <2>3. QED
    BY <2>1, <2>2
<1>16. QED
  BY <1>10, <1>11, <1>12, <1>13, <1>14, <1>15 DEF Reviewed, ReviewLog, ReviewRow

-----------------------------------------------------------------------------
(* The commands, each with what it appends.                                *)

LEMMA OnlyPassEnters ==
  ASSUME NEW old, MayMove(old, "in_human_review"), old # "in_human_review"
  PROVE  Gated(old, "in_human_review")
<1>1. PICK v \in ValidTransitions : v.from = SourceAlias(old) /\ v.to = "in_human_review"
  BY DEF MayMove, TransitionFor, TargetAlias
<1>2. v.from = "in_review"
  BY <1>1 DEF ValidTransitions
<1>3. old = "in_review"
  BY <1>1, <1>2 DEF SourceAlias
<1>4. QED
  BY <1>3 DEF Gated, ReviewStates, Advanced

LEMMA OnlyBouncesReset ==
  ASSUME NEW old, NEW new, ReviewTransitionFor(old, new) \in Resets
  PROVE  new = "in_progress"
BY DEF ReviewTransitionFor, Resets, None, IsTerminal

LEMMA UpdateReviewed ==
  ASSUME ReviewOK, NEW p, NEW status, NEW content, NEW diag,
         UpdateWorkItem(p, status, content, diag, FALSE)
  PROVE  Reviewed
<1>1. PICK seal : seal = SealOps(p)
  OBVIOUS
<1>2. PICK n : n = After(seal)
  OBVIOUS
<1>3. PICK verdict : verdict = ReviewTransitionFor(row.status, status)
  OBVIOUS
<1> DEFINE moves == status \notin {NoStatus, row.status}
           edits == content \notin {Keep, row.content} \/ diag \notin {{}, row.diag}
           e(k)  == [NewOp(k, p, "set_field")
                       EXCEPT !.content = IF content = row.content THEN Keep ELSE content,
                              !.diag = IF diag = row.diag THEN {} ELSE diag]
<1>4. row # Absent /\ (moves => MayMove(row.status, status))
  BY DEF UpdateWorkItem
<1>5. PICK a \in IF moves THEN Evidence(p, row.status, status) ELSE {None} :
        LET move == IF moves THEN {StatusOp(n, p, status, verdict, a)} ELSE {}
            edit == IF edits THEN {e(n + Cardinality(move))} ELSE {}
        IN  Write(seal \cup move \cup edit)
  BY <1>1, <1>2, <1>3 DEF UpdateWorkItem
<1>6. PICK x : x = StatusOp(n, p, status, verdict, a)
  OBVIOUS
<1>7. /\ Stamped(p, x) /\ x.lamport = n /\ x.type = "set_status"
      /\ x.status = status /\ x.verdict = verdict /\ x.approval = a
  BY <1>6 DEF StatusOp, NewOp, Stamped
<1>8. moves => Sound(x)
  <2>1. moves /\ Gated(row.status, status) => a # None
    BY <1>5, EvidenceGiven
  <2>2. moves /\ status = "in_human_review" => Gated(row.status, status)
    BY <1>4, OnlyPassEnters
  <2>3. verdict \in Resets => status = "in_progress"
    BY <1>3, OnlyBouncesReset
  <2> HIDE DEF moves
  <2>4. QED
    BY <1>7, <2>1, <2>2, <2>3 DEF Sound, CommandOps, StatusOps
<1>9. ASSUME NEW k
      PROVE  /\ Stamped(p, e(k)) /\ e(k).lamport = k /\ e(k).type = "set_field"
             /\ e(k).verdict = None
  BY DEF NewOp, Stamped
<1>10. ASSUME NEW k
       PROVE  Sound(e(k)) /\ e(k).type \notin StatusOps /\ e(k).verdict \notin Resets
  <2>1. e(k).type = "set_field" /\ e(k).verdict = None
    BY <1>9
  <2> HIDE DEF e
  <2>2. QED
    BY <2>1 DEF Sound, CommandOps, StatusOps, Resets, None
<1>11. n \in Int
  BY <1>1, <1>2, SealPlaced DEF After, ReviewOK, ItemOK, LogOK, Placed
<1>12. ItemOK /\ (x.verdict \in Resets => x.type \in StatusOps)
  BY <1>7 DEF ReviewOK, StatusOps
<1> HIDE DEF moves, edits, e
<1>13. CASE moves /\ edits
  <2>1. Write(seal \cup {x} \cup {e(n + 1)})
    BY <1>5, <1>6, <1>13, FS_Singleton
  <2>2. Sealed(p, {x, e(n + 1)})
    BY <1>1, <1>2, <1>4, <1>7, <1>8, <1>9, <1>10, <1>12, <1>13, <2>1, SealedTwo
  <2>3. QED
    BY <2>2, SealedReviewed
<1>14. CASE moves /\ ~edits
  <2>1. Write(seal \cup {x})
    BY <1>5, <1>6, <1>14
  <2>2. Sealed(p, {x})
    BY <1>1, <1>2, <1>4, <1>7, <1>8, <1>12, <1>14, <2>1, SealedOne
  <2>3. QED
    BY <2>2, SealedReviewed
<1>15. CASE ~moves /\ edits
  <2>1. Write(seal \cup {e(n)})
    BY <1>5, <1>11, <1>15, FS_EmptySet
  <2>2. Sealed(p, {e(n)})
    BY <1>1, <1>2, <1>4, <1>9, <1>10, <1>12, <2>1, SealedOne
  <2>3. QED
    BY <2>2, SealedReviewed
<1>16. CASE ~moves /\ ~edits
  <2>1. Write(seal)
    BY <1>5, <1>16
  <2>2. Sealed(p, {})
    BY <1>1, <1>4, <1>12, <2>1, SealedNone
  <2>3. QED
    BY <2>2, SealedReviewed
<1>17. QED
  BY <1>13, <1>14, <1>15, <1>16

LEMMA CloseReviewed ==
  ASSUME ReviewOK, NEW p, CloseWorkItem(p)
  PROVE  Reviewed
<1>1. PICK n : n = After(SealOps(p))
  OBVIOUS
<1>2. PICK verdict : verdict = IF Gated(row.status, "done") THEN "accept" ELSE None
  OBVIOUS
<1>3. PICK a \in Evidence(p, row.status, "done") :
        Write(SealOps(p) \cup {StatusOp(n, p, "done", verdict, a)})
  BY <1>1, <1>2 DEF CloseWorkItem
<1>4. PICK x : x = StatusOp(n, p, "done", verdict, a)
  OBVIOUS
<1>5. /\ Stamped(p, x) /\ x.lamport = n /\ x.type = "set_status"
      /\ x.status = "done" /\ x.verdict = verdict /\ x.approval = a
  BY <1>4 DEF StatusOp, NewOp, Stamped
<1>6. verdict \notin Resets
  BY <1>2 DEF Resets, None
<1>7. Gated(row.status, "done") => a # None
  BY <1>3, EvidenceGiven
<1>8. Sound(x)
  BY <1>5, <1>6, <1>7 DEF Sound, CommandOps, StatusOps
<1>9. ItemOK /\ row # Absent
  BY DEF ReviewOK, CloseWorkItem
<1>10. Sealed(p, {x})
  BY <1>1, <1>3, <1>4, <1>5, <1>6, <1>8, <1>9, SealedOne
<1>11. QED
  BY <1>10, SealedReviewed

LEMMA RecordReviewed ==
  ASSUME ReviewOK, NEW p, NEW t \in Verdicts, NEW approvals,
         RecordVerdict(p, t, approvals), t \in Positive => None \notin approvals
  PROVE  Reviewed
<1>2. row # Absent /\ ItemOK
  BY DEF RecordVerdict, ReviewOK
<1>3. PICK a \in approvals : \E x, y : VerdictOps(p, t, a, x, y)
  BY <1>2, VerdictWrites
<1>4. PICK x, y : VerdictOps(p, t, a, x, y)
  BY <1>3
<1>5. /\ Stamped(p, x) /\ x.lamport = After(SealOps(p)) /\ x.type = "set_status"
      /\ x.status = Target(t) /\ x.verdict = t /\ x.approval = a
      /\ Stamped(p, y) /\ y.lamport = After(SealOps(p)) + 1 /\ y.type = "set_field"
      /\ y.verdict = t
      /\ Write(SealOps(p) \cup {x} \cup {y})
  BY <1>4 DEF VerdictOps
<1>6. Sound(x) /\ x.type \in StatusOps
  <2>1. CASE t \in Positive
    <3>1. a # None /\ t \notin Resets
      BY <2>1 DEF Positive, Resets
    <3>2. QED
      BY <1>5, <3>1 DEF Sound, CommandOps, StatusOps
  <2>2. CASE t \notin Positive
    <3>1. Target(t) = "in_progress"
      BY <2>2 DEF Target, Positive, Verdicts, Resets
    <3>2. QED
      BY <1>5, <3>1 DEF Sound, CommandOps, StatusOps, Gated, Advanced
  <2>3. QED
    BY <2>1, <2>2
<1>7. Sound(y) /\ y.type \notin StatusOps
  BY <1>5 DEF Sound, CommandOps, StatusOps
<1>8. Sealed(p, {x, y})
  BY <1>2, <1>5, <1>6, <1>7, SealedTwo
<1>9. QED
  BY <1>8, SealedReviewed

LEMMA VerdictReviewed ==
  ASSUME ReviewOK, NEW p, NEW t \in Verdicts, NEW ack, ReviewTransition(p, t, ack)
  PROVE  Reviewed
BY ReviewRecords, RecordReviewed

LEMMA LeaseReviewed ==
  ASSUME ReviewOK, NEW p, (\E ttl : Claim(p, ttl)) \/ Release(p)
  PROVE  Reviewed
<1>1. PICK n : n = After(SealOps(p))
  OBVIOUS
<1>2. row # Absent /\ ItemOK
  BY DEF Claim, Release, ReviewOK
<1>3. ASSUME NEW type \in {"claim", "release"}, NEW x, x = NewOp(n, p, type)
      PROVE  /\ Stamped(p, x) /\ x.lamport = n /\ Sound(x)
             /\ x.type \notin StatusOps /\ x.verdict \notin Resets
  <2>1. Stamped(p, x) /\ x.lamport = n /\ x.type = type /\ x.verdict = None
    BY <1>3 DEF NewOp, Stamped
  <2>2. QED
    BY <2>1 DEF Sound, CommandOps, StatusOps, Resets, None
<1>4. ASSUME NEW type \in {"claim", "release"}, Write(SealOps(p) \cup {NewOp(n, p, type)})
      PROVE  Reviewed
  <2>1. PICK x : x = NewOp(n, p, type)
    OBVIOUS
  <2>2. /\ Stamped(p, x) /\ x.lamport = n /\ Sound(x)
        /\ x.type \notin StatusOps /\ x.verdict \notin Resets
    BY <1>3, <2>1
  <2>3. Sealed(p, {x})
    BY <1>1, <1>2, <1>4, <2>1, <2>2, SealedOne
  <2>4. QED
    BY <2>3, SealedReviewed
<1>5. CASE \E ttl : Claim(p, ttl)
  BY <1>1, <1>4, <1>5 DEF Claim
<1>6. CASE Release(p) /\ row.status # "claimed"
  <2>1. Write(SealOps(p) \cup {NewOp(n, p, "release")})
    BY <1>1, <1>6 DEF Release
  <2>2. QED
    BY <1>4, <2>1
<1>7. CASE Release(p) /\ row.status = "claimed"
  <2>1. PICK x : x = NewOp(n, p, "release")
    OBVIOUS
  <2>2. PICK y : y = StatusOp(n + 1, p, "open", None, None)
    OBVIOUS
  <2>3. Write(SealOps(p) \cup {x} \cup {y})
    BY <1>1, <1>7, <2>1, <2>2 DEF Release
  <2>4. /\ Stamped(p, x) /\ x.lamport = n /\ Sound(x)
        /\ x.type \notin StatusOps /\ x.verdict \notin Resets
    BY <1>3, <2>1
  <2>5. /\ Stamped(p, y) /\ y.lamport = n + 1 /\ y.type = "set_status"
        /\ y.status = "open" /\ y.verdict = None
    BY <2>2 DEF StatusOp, NewOp, Stamped
  <2>6. Sound(y) /\ y.verdict \notin Resets
    BY <2>5 DEF Sound, CommandOps, StatusOps, Gated, Advanced, Resets, None
  <2>7. Sealed(p, {x, y})
    BY <1>1, <1>2, <2>3, <2>4, <2>5, <2>6, SealedTwo
  <2>8. QED
    BY <2>7, SealedReviewed
<1>8. QED
  BY <1>5, <1>6, <1>7

LEMMA ReviewOKStep ==
  ASSUME TRUE \notin Forces, ReviewOK, [Next]_vars
  PROVE  ReviewOK'
<1>0. ItemOK'
  BY ItemOKStep DEF ReviewOK
<1>1. SUFFICES Reviewed
  BY <1>0 DEF Reviewed, ReviewOK
<1>2. ASSUME UNCHANGED itemVars PROVE Reviewed
  BY <1>2 DEF itemVars, Reviewed, ReviewOK, ReviewLog, ReviewRow, CreateLeads, PassesVouched,
              ExitsVouched, ResetsBounce, RowIsCreated, DriftIsOld, RowFollows, Gated
<1>3. ASSUME NEW p \in Proc, NEW force \in Forces, NEW status, NEW content, NEW diag,
             UpdateWorkItem(p, status, content, diag, force)
      PROVE  Reviewed
  <2>1. force = FALSE
    BY WorkItemAssumption
  <2>2. QED
    BY <1>3, <2>1, UpdateReviewed
<1>4. CASE Time
  BY <1>2, <1>4 DEF Time
<1>5. ASSUME NEW p \in Proc, Start1(p) \/ Refused(p) \/ SweepExpired(p)
      PROVE  Reviewed
  BY <1>2, <1>5 DEF Start1, Refused, SweepExpired
<1>6. CASE UNCHANGED vars
  BY <1>2, <1>6 DEF vars, itemVars
<1>7. QED
  BY <1>3, <1>4, <1>5, <1>6, FileReviewed, CloseReviewed, AttestReviewed, VerdictReviewed,
     LeaseReviewed, HeartbeatReviewed, DeleteReviewed, NextIs DEF Runs

LEMMA ReviewOKInit ==
  ASSUME Init
  PROVE  ReviewOK
<1>1. PICK c : c = CreateOp(1, CHOOSE p \in Proc : TRUE, "open", CHOOSE k \in Contents : TRUE)
  OBVIOUS
<1>2. PICK d : d = NewOp(2, CHOOSE p \in Proc : TRUE, "tombstone")
  OBVIOUS
<1>3. /\ c.type = "create" /\ c.status = "open" /\ c.verdict = None
      /\ d.type = "tombstone" /\ d.verdict = None
  BY <1>1, <1>2 DEF CreateOp, NewOp
<1>4. log \in {{}, {c}, {c, d}} /\ (row = Absent => log = {})
  <2>1. ASSUME NEW r \in LegacyRows, NEW shape \in {"chainless", "stale", "resurrected"},
               Legacy(r, shape)
        PROVE  log \in {{}, {c}, {c, d}} /\ row # Absent
    <3>1. log \in {{}, {c}, {c, d}}
      BY <1>1, <1>2, <2>1 DEF Legacy
    <3>2. row.status # NoStatus
      BY <2>1, WorkItemAssumption
         DEF Legacy, AllValidStates, CanonicalStates, LegacyStates, NoStatus
    <3>3. QED
      BY <3>1, <3>2 DEF Absent
  <2>2. QED
    BY <2>1 DEF Init
<1>5. \A o \in log : o.type \notin StatusOps /\ o.verdict \notin Resets
  BY <1>3, <1>4 DEF StatusOps, Resets, None
<1>6. ReviewLog
  BY <1>5 DEF ReviewLog, CreateLeads, PassesVouched, ExitsVouched, ResetsBounce
<1>7. \A o \in Moves(log) : OpenCreate(o)
  BY <1>3, <1>4 DEF Moves, OpenCreate, StatusOps
<1>8. DriftIsOld /\ RowFollows
  BY <1>7 DEF DriftIsOld, RowFollows, IsLast
<1>9. RowIsCreated
  <2>1. CASE log = {}
    <3>1. Fold(log) = Absent
      BY <2>1, FoldEmpty DEF Fold, Start
    <3>2. QED
      BY <3>1 DEF RowIsCreated
  <2>2. CASE log # {}
    BY <1>3, <1>4, <2>2 DEF RowIsCreated
  <2>3. QED
    BY <2>1, <2>2
<1>10. QED
  BY <1>6, <1>8, <1>9, ItemOKInit DEF ReviewOK, ReviewRow

(* What the transition's name says of where it left from. *)
LEMMA NamedSource ==
  ASSUME NEW from, NEW to
  PROVE  /\ TransitionFor(TargetAlias(from), to) = {"close_from_open"}
              => SourceAlias(from) = "open"
         /\ TransitionFor(TargetAlias(from), to) = {"accept"} => from = "in_human_review"
<1>1. SourceAlias(TargetAlias(from)) = SourceAlias(from)
  BY DEF SourceAlias, TargetAlias
<1>2. ASSUME NEW name, TransitionFor(TargetAlias(from), to) = {name}
      PROVE  \E v \in ValidTransitions : v.name = name /\ v.from = SourceAlias(from)
  BY <1>1, <1>2 DEF TransitionFor
<1>3. \A v \in ValidTransitions : /\ v.name = "close_from_open" => v.from = "open"
                                  /\ v.name = "accept" => v.from = "in_human_review"
  BY DEF ValidTransitions
<1>4. SourceAlias(from) = "in_human_review" => from = "in_human_review"
  BY DEF SourceAlias
<1>5. QED
  BY <1>2, <1>3, <1>4

LEMMA ReviewedIsClean ==
  ASSUME ReviewOK
  PROVE  CleanMeansReviewed
<1>1. SUFFICES ASSUME row.status \in IsTerminal, "gate_attestation" \notin row.diag,
                      ~DegradedCompletion(log),
                      NEW ends, ends = {t \in Transitions(log) : t.to \in IsTerminal},
                      ends # {},
                      NEW last, last = CHOOSE t \in ends : \A e \in ends : e.at <= t.at
               PROVE  \/ SourceAlias(last.from) = "open"
                      \/ /\ last.op.approval # None
                         /\ \E p \in log :
                              /\ p.status = "in_human_review" /\ p.approval # None
                              /\ p.lamport < last.at
                              /\ ~\E r \in log : /\ r.verdict \in Resets
                                                 /\ p.lamport < r.lamport
                                                 /\ r.lamport < last.at
  BY DEF CleanMeansReviewed, GateVerified
<1>2. LogOK /\ seq \in Nat /\ Serial(log, seq) /\ ReviewLog /\ ReviewRow
  BY DEF ReviewOK, ItemOK, LogOK, Serial
<1>3. last \in ends /\ last \in Transitions(log) /\ last.to \in IsTerminal
  <2>1. \E t \in ends : \A e \in ends : e.at <= t.at
    BY <1>1, <1>2, LastTransition
  <2>2. last \in ends
    BY <1>1, <2>1
  <2>3. QED
    BY <1>1, <2>2
<1>4. PICK x : IsMove(last, x, log)
  BY <1>2, <1>3, TransitionIsMove
<1>5. row = Fold(log)
  <2>1. row # Absent
    BY <1>1 DEF Absent, NoStatus, IsTerminal
  <2>2. ~OpenCreate(x) /\ x \in Moves(log)
    BY <1>4 DEF IsMove, OpenCreate, Moves, StatusOps
  <2>3. QED
    BY <1>2, <2>1, <2>2 DEF ReviewRow, DriftIsOld
<1>6. PICK name : name = TransitionFor(TargetAlias(last.from), last.to)
  OBVIOUS
<1>7. \/ name = {"close_from_open"}
      \/ name = {"accept"} /\ \E t \in Transitions(log) : IsPass(t) /\ t.at < last.at
  BY <1>1, <1>5, <1>6 DEF DegradedCompletion
<1>8. CASE name = {"close_from_open"}
  BY <1>6, <1>8, NamedSource
<1>9. CASE name = {"accept"} /\ \E t \in Transitions(log) : IsPass(t) /\ t.at < last.at
  <2>1. last.from = "in_human_review"
    BY <1>6, <1>9, NamedSource
  <2>2. PICK t \in Transitions(log) : IsPass(t) /\ t.at < last.at
    BY <1>9
  <2>3. PICK y : IsMove(t, y, log)
    BY <1>2, <2>2, TransitionIsMove
  <2>4. /\ x \in log /\ x.type \in StatusOps /\ last.at = x.lamport /\ last.op = x
        /\ last.to = x.status /\ last.from = Seen(log, x.lamport - 1)
        /\ y \in log /\ y.type \in StatusOps /\ y.lamport < x.lamport
        /\ x.lamport \in Nat /\ y.lamport \in Nat
    BY <1>2, <1>4, <2>2, <2>3 DEF IsMove, LogOK
  <2>5. PICK q \in log : IsLast(q, log, x.lamport - 1) /\ q.status = "in_human_review"
    <3>1. Seen(log, x.lamport - 1) # NoStatus
      BY <2>1, <2>4 DEF NoStatus
    <3>2. QED
      BY <2>1, <2>4, <3>1, SeenSome
  <2>6. x.approval # None
    <3>1. Gated(q.status, x.status)
      BY <1>3, <2>4, <2>5 DEF Gated, ReviewStates, Advanced, IsTerminal
    <3>2. QED
      BY <1>2, <2>4, <2>5, <3>1 DEF ReviewLog, ExitsVouched
  <2>7. q.lamport \in Nat /\ q.lamport <= x.lamport - 1 /\ y.lamport <= q.lamport
    BY <1>2, <2>4, <2>5 DEF LogOK, IsLast, Moves
  <2>8. q.type \in StatusOps
    <3>1. q.type # "create"
      BY <1>2, <2>4, <2>7 DEF ReviewLog, CreateLeads
    <3>2. QED
      BY <2>5, <3>1 DEF IsLast, Moves
  <2>9. q.approval # None
    BY <1>2, <2>5, <2>8 DEF ReviewLog, PassesVouched
  <2>10. ASSUME NEW r \in log, r.verdict \in Resets, q.lamport < r.lamport,
                r.lamport < x.lamport
         PROVE  FALSE
    <3>1. PICK z \in log : IsLast(z, log, r.lamport) /\ z.status = "in_progress"
      BY <1>2, <2>10 DEF ReviewLog, ResetsBounce
    <3>2. z.lamport \in Nat /\ r.lamport \in Nat
      BY <1>2, <2>10, <3>1 DEF LogOK
    <3>3. q.lamport <= z.lamport
      BY <2>5, <2>7, <2>10, <3>1, <3>2 DEF IsLast
    <3>4. z.lamport <= q.lamport
      BY <2>4, <2>5, <2>10, <3>1, <3>2 DEF IsLast
    <3>5. z = q
      BY <1>2, <2>5, <2>7, <3>1, <3>2, <3>3, <3>4 DEF LogOK
    <3>6. QED
      BY <2>5, <3>1, <3>5
  <2>11. QED
    BY <2>4, <2>5, <2>6, <2>7, <2>9, <2>10
<1>10. QED
  BY <1>7, <1>8, <1>9

(* Without force, a completion the degraded-completion detector lets pass  *)
(* was dismissed from open or passed and accepted with evidence since the  *)
(* last bounce (verifier.py _check_degraded_completion), from whatever     *)
(* regista-era row the item started.                                       *)
THEOREM CleanIsReviewed ==
  ASSUME TRUE \notin Forces
  PROVE  Spec => []CleanMeansReviewed
<1>1. Init => ReviewOK
  BY ReviewOKInit
<1>2. ReviewOK /\ [Next]_vars => ReviewOK'
  BY ReviewOKStep
<1>3. ReviewOK => CleanMeansReviewed
  BY ReviewedIsClean
<1>4. QED
  BY <1>1, <1>2, <1>3, PTL DEF Spec
=============================================================================
