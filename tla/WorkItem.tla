------------------------------ MODULE WorkItem ------------------------------
(***************************************************************************)
(* One work item of the native engine (core/work_item/_native.py): its op  *)
(* log, its cache row in work_items, its lease and the commands that       *)
(* change them, with the seal that every command but three applies first   *)
(* (_seal.py) and the reviewer-independence gate (_independence.py).       *)
(*                                                                         *)
(* Every command takes the row lock before it reads (lock_row, FOR UPDATE) *)
(* and holds it to COMMIT, so between Begin and the commit each command is *)
(* one step; an exception rolls everything back and is Abort.              *)
(***************************************************************************)
EXTENDS OpLog, Leases

CONSTANTS Lineage,   \* Lineage[p]: the vendor lineage p's producer resolves to
          Unknown,   \* the lineage of a process that reports no model
          Human,     \* the processes whose actor is "human:..."
          Contents,  \* values of the content fields
          Statuses,  \* the statuses callers ask update for
          DiagEdits, \* the diagnostic_keys callers pass to update, {} when none
          Forces,    \* the values of --force callers use
          Commands,  \* the commands callers run besides file
          LegacyRows,\* regista-era rows the item may start from (see Init)
          MaxSeq,    \* bound on op_log_id_seq
          MaxTx      \* bound on the transactions open at once

None == "none"
DiagKeys == {"fix", "review_notes", "gate_attestation"}

ASSUME WorkItemAssumption ==
  /\ Proc # {}
  /\ Human \subseteq Proc
  /\ DOMAIN Lineage = Proc
  /\ {Keep, NoContent} \cap Contents = {}
  /\ Statuses \subseteq AllValidStates
  /\ Forces \subseteq BOOLEAN
  /\ Commands \subseteq {"update", "close", "attest", "review", "lease", "delete"}
  /\ LegacyRows \subseteq [status : AllValidStates, content : Contents,
                           diag : SUBSET DiagKeys]
  /\ {} \in DiagEdits /\ DiagEdits \subseteq SUBSET DiagKeys
  /\ MaxSeq \in Nat /\ MaxTx \in Nat

VARIABLES log,  \* op_log: the item's ops
          row,  \* the work_items row, Absent when there is none
          seq   \* op_log_id_seq: the last lamport handed out

itemVars == <<log, row, seq>>
vars == <<log, row, seq, leaseVars>>

Verdicts == {"adversarial_pass", "accept", "reject", "request_changes"}
Positive == {"adversarial_pass", "accept"}

-----------------------------------------------------------------------------
(* Ops.  The lamport of an op is its place in op_log_id_seq, and so here   *)
(* is its op_id: locally no two ops share a lamport.  The producer block   *)
(* (actor, lineage) is stamped on every op.                                *)

NewOp(n, p, type) ==
  [id |-> n, lamport |-> n, type |-> type, actor |-> p, lineage |-> Lineage[p],
   status |-> NoStatus, content |-> Keep, diag |-> {}, verdict |-> None,
   approval |-> None]

CreateOp(n, p, status, content) ==
  [NewOp(n, p, "create") EXCEPT !.status = status, !.content = content]

StatusOp(n, p, status, verdict, approval) ==
  [NewOp(n, p, "set_status") EXCEPT !.status = status, !.verdict = verdict,
                                 !.approval = approval]

(* commit_op for each op, then fold_work_item. *)
Write(ops) ==
  /\ seq + Cardinality(ops) <= MaxSeq
  /\ seq' = seq + Cardinality(ops)
  /\ log' = log \cup ops
  /\ row' = Fold(log \cup ops)

Ends(p) == EndTx(p) /\ UNCHANGED <<clock, lease, event>>

-----------------------------------------------------------------------------
(* The seal: a row the log does not reproduce is written into the log      *)
(* before the command folds it.                                            *)

Drifted == row # Absent /\ Fold(log) # row

(* Mutant: the snapshot restates the folded content, not the row's. *)
SealOpsStale(p) ==
  LET stub == IF \E o \in log : o.type = "create" THEN {}
              ELSE {CreateOp(seq + 1, p, "open", NoContent)}
      n    == seq + Cardinality(stub) + 1
  IN  IF ~Drifted THEN {}
      ELSE stub \cup {[NewOp(n, p, "snapshot") EXCEPT
                         !.status = row.status, !.content = FoldState(log).content,
                         !.diag = row.diag]}

SealOps(p) ==
  LET stub == IF \E o \in log : o.type = "create" THEN {}
              ELSE {CreateOp(seq + 1, p, "open", NoContent)}
      n    == seq + Cardinality(stub) + 1
  IN  IF ~Drifted THEN {}
      ELSE stub \cup {[NewOp(n, p, "snapshot") EXCEPT
                         !.status = row.status, !.content = row.content,
                         !.diag = row.diag]}

(* The first lamport after ops. *)
After(ops) == seq + Cardinality(ops) + 1

-----------------------------------------------------------------------------
(* The review gate. *)

ReviewStates == {"in_review", "in_human_review"}
Advanced     == {"in_human_review", "done", "closed"}
Resets       == {"reject", "request_changes"}

(* Mutant: a force-closed item does not count as approved. *)
GatedNotClosed(old, new) ==
  old \in ReviewStates /\ new \in {"in_human_review", "done"} /\ new # old

Gated(old, new) == old \in ReviewStates /\ new \in Advanced /\ new # old

ReviewTransitionFor(old, new) ==
  CASE old \notin ReviewStates \/ new = old -> None
    [] new = "in_human_review"              -> "adversarial_pass"
    [] new \in IsTerminal                   -> "accept"
    [] new = "in_progress" /\ old = "in_human_review" -> "reject"
    [] new = "in_progress" /\ old = "in_review"       -> "request_changes"
    [] OTHER                                -> None

AuthoredOps == {"create", "set_field", "set_status", "claim", "close", "merge"}

(* Review records, waivers and seal stubs are not implementation work. *)
IsBookkeeping(op) ==
  \/ op.verdict # None
  \/ op.type = "create" /\ op.content = NoContent
  \/ op.type = "set_field" /\ op.content = Keep /\ op.diag = {"gate_attestation"}

(* Mutant: every set_status bounces, whatever its verdict. *)
WorkOpsForgetful(ops) ==
  { o \in ops : /\ o.type \in AuthoredOps /\ ~IsBookkeeping(o) /\ o.actor # None
                /\ ~\E r \in ops : r.type = "set_status" /\ r.lamport > o.lamport }

(* Everything authored since the item last bounced from review. *)
WorkOps(ops) ==
  { o \in ops : /\ o.type \in AuthoredOps /\ ~IsBookkeeping(o) /\ o.actor # None
                /\ ~\E r \in ops : /\ r.type = "set_status" /\ r.verdict \in Resets
                                   /\ r.lamport > o.lamport }

(* check, for a reviewer known by its model's lineage. *)
CheckModel(lineage, actor) ==
  LET work == WorkOps(log)
  IN  IF \/ lineage = Unknown
         \/ \E o \in work : o.lineage = lineage
         \/ \E o \in work : o.lineage = Unknown /\ o.actor = actor
      THEN {}
      ELSE IF work = {} THEN {"no-recorded-implementers"}
      ELSE IF \E o \in work : o.lineage = Unknown THEN {"unverified-legacy"}
      ELSE {"verified"}

(* check: the evidence recorded for reviewer p, empty when p is refused. *)
Check(p) ==
  IF p \in Human
  THEN IF \E o \in WorkOps(log) : o.actor = p THEN {} ELSE {"human"}
  ELSE CheckModel(Lineage[p], p)

(* The evidence a command may record for old -> new: none is asked for     *)
(* unless the move approves review work.                                   *)
Evidence(p, old, new) == IF Gated(old, new) THEN Check(p) ELSE {None}

-----------------------------------------------------------------------------
(* Commands. *)

Start1(p) ==
  /\ Cardinality({q \in Proc : InTx(q)}) < MaxTx
  /\ Begin(p)
  /\ UNCHANGED itemVars

Refused(p) == Abort(p) /\ UNCHANGED itemVars

Time == Tick /\ UNCHANGED itemVars

FileWorkItem(p, status, content) ==
  /\ InTx(p)
  /\ row = Absent /\ log = {}
  /\ Write({CreateOp(seq + 1, p, status, content)})
  /\ Ends(p)

(* update_work_item: only what differs from the row is written.  An update *)
(* that changes nothing still commits the seal.                            *)
UpdateWorkItem(p, status, content, diag, force) ==
  LET seal    == SealOps(p)
      n       == After(seal)
      moves   == status \notin {NoStatus, row.status}
      edits   == content \notin {Keep, row.content} \/ diag \notin {{}, row.diag}
      verdict == ReviewTransitionFor(row.status, status)
  IN  /\ InTx(p)
      /\ row # Absent
      /\ moves => force \/ MayMove(row.status, status)
      /\ moves /\ Gated(row.status, status) => ~edits
      /\ \E approval \in IF moves THEN Evidence(p, row.status, status) ELSE {None} :
           LET move == IF moves THEN {StatusOp(n, p, status, verdict, approval)} ELSE {}
               edit == IF edits
                       THEN {[NewOp(n + Cardinality(move), p, "set_field")
                                EXCEPT !.content = IF content = row.content
                                                   THEN Keep ELSE content,
                                       !.diag = IF diag = row.diag
                                                THEN {} ELSE diag]}
                       ELSE {}
           IN  Write(seal \cup move \cup edit)
      /\ Ends(p)

Closable == {"open", "in_progress", "claimed", "in_review", "in_human_review"}

CloseWorkItem(p) ==
  /\ InTx(p)
  /\ row # Absent
  /\ row.status \in Closable
  /\ \E approval \in Evidence(p, row.status, "done") :
       LET seal    == SealOps(p)
           verdict == IF Gated(row.status, "done") THEN "accept" ELSE None
       IN  Write(seal \cup {StatusOp(After(seal), p, "done", verdict, approval)})
  /\ DropLease /\ event' = "ended"
  /\ EndTx(p) /\ UNCHANGED clock

(* close_work_item_force: the legacy terminal op, from any status. *)
CloseWorkItemForce(p) ==
  /\ InTx(p)
  /\ row # Absent
  /\ \E approval \in Evidence(p, row.status, "closed") :
       LET seal    == SealOps(p)
           verdict == IF Gated(row.status, "closed") THEN "accept" ELSE None
       IN  Write(seal \cup {[StatusOp(After(seal), p, "closed", verdict, approval)
                                EXCEPT !.type = "close"]})
  /\ Ends(p)

(* attest_gate_waiver: locks the row but does not seal it. *)
AttestGateWaiver(p) ==
  /\ InTx(p)
  /\ row # Absent
  /\ row.status \in IsTerminal
  /\ \E o \in log : o.type = "create"
  /\ Write({[NewOp(seq + 1, p, "set_field") EXCEPT !.diag = {"gate_attestation"}]})
  /\ row' # Absent
  /\ Ends(p)

Target(transition) ==
  CASE transition = "adversarial_pass" -> "in_human_review"
    [] transition = "accept"           -> "done"
    [] transition \in Resets           -> "in_progress"

(* The verdict, then the note in diagnostic_keys, with one of approvals.   *)
RecordVerdict(p, transition, approvals) ==
  LET seal == SealOps(p)
      n    == After(seal)
      new  == Target(transition)
  IN  /\ InTx(p)
      /\ row # Absent
      /\ row.status # new
      /\ MayMove(row.status, new)
      /\ \E approval \in approvals :
           Write(seal \cup
                 {StatusOp(n, p, new, transition, approval),
                  [NewOp(n + 1, p, "set_field") EXCEPT
                     !.diag = row.diag \cup {"review_notes"}, !.verdict = transition]})
      /\ Ends(p)

(* review_transition: a positive verdict needs an independent reviewer or  *)
(* an acknowledgement.  (The attempt that may stand in for the reviewer is *)
(* in ReviewDelegation.)                                                   *)
ReviewTransition(p, transition, acknowledged) ==
  RecordVerdict(p, transition,
                IF transition \notin Positive THEN {None}
                ELSE IF acknowledged THEN {"acknowledged"} ELSE Check(p))

(* Mutant: a claim that does not ask whether the item is leased. *)
ClaimSteals(p, ttl) ==
  /\ InTx(p)
  /\ row # Absent
  /\ row.status \in IsOpen
  /\ Grant(p, ttl)
  /\ event' = "granted"
  /\ EndTx(p) /\ UNCHANGED clock
  /\ LET seal == SealOps(p) IN Write(seal \cup {NewOp(After(seal), p, "claim")})

Claim(p, ttl) ==
  /\ row # Absent
  /\ row.status \in IsOpen
  /\ ClaimLease(p, ttl)
  /\ LET seal == SealOps(p) IN Write(seal \cup {NewOp(After(seal), p, "claim")})

(* Mutant: the lease's row stays when the release is logged. *)
ReleaseKeepsLease(p) ==
  /\ row # Absent
  /\ InTx(p)
  /\ LET seal == SealOps(p) IN Write(seal \cup {NewOp(After(seal), p, "release")})
  /\ Ends(p)

(* release_work_item: only a legacy "claimed" row goes back to open. *)
Release(p) ==
  LET seal   == SealOps(p)
      n      == After(seal)
      reopen == IF row.status = "claimed"
                THEN {StatusOp(n + 1, p, "open", None, None)} ELSE {}
  IN  /\ row # Absent
      /\ EndLease(p)
      /\ Write(seal \cup {NewOp(n, p, "release")} \cup reopen)

(* heartbeat_work_item: neither seals nor folds. *)
Heartbeat(p, ttl) ==
  /\ row # Absent
  /\ HeartbeatLease(p, ttl)
  /\ seq < MaxSeq
  /\ seq' = seq + 1
  /\ log' = log \cup {NewOp(seq + 1, p, "heartbeat")}
  /\ UNCHANGED row

(* Mutant: the tombstone is written but the row is not deleted. *)
DeleteLeavesRow(p) ==
  /\ row # Absent
  /\ EndLease(p)
  /\ seq < MaxSeq
  /\ seq' = seq + 1
  /\ log' = log \cup {NewOp(seq + 1, p, "tombstone")}
  /\ UNCHANGED row

(* delete_work_item: neither seals nor folds; the row goes with the lease. *)
DeleteWorkItem(p) ==
  /\ row # Absent
  /\ EndLease(p)
  /\ seq < MaxSeq
  /\ seq' = seq + 1
  /\ log' = log \cup {NewOp(seq + 1, p, "tombstone")}
  /\ row' = Absent

SweepExpired(p) == Sweep(p) /\ UNCHANGED itemVars

-----------------------------------------------------------------------------
(* The regista-era shapes _seal.py describes: a row without a chain, a row *)
(* whose chain stopped when the item moved to regista, and a row that was  *)
(* re-mirrored after its native deletion.                                  *)
Legacy(r, shape) ==
  LET creator == CHOOSE p \in Proc : TRUE
      first   == CHOOSE c \in Contents : TRUE
      create  == CreateOp(1, creator, "open", first)
      ops     == CASE shape = "chainless"   -> {}
                   [] shape = "stale"       -> {create}
                   [] shape = "resurrected" -> {create, NewOp(2, creator, "tombstone")}
  IN  /\ row = r
      /\ log = ops
      /\ seq = Cardinality(ops)

Init ==
  /\ LeaseInit
  /\ \/ LegacyRows = {} /\ row = Absent /\ log = {} /\ seq = 0
     \/ \E r \in LegacyRows, shape \in {"chainless", "stale", "resurrected"} :
          Legacy(r, shape)

-----------------------------------------------------------------------------
(* The commands that write the item, with the options each offers          *)
(* (cli/work_items.py).  Any of them may be refused before it writes.      *)

FileCommand(p) ==
  \E status \in Statuses, content \in Contents : FileWorkItem(p, status, content)

(* What was not given stays.  --append-body is another content, that the   *)
(* command made from the body it read in an earlier transaction.           *)
UpdateCommand(p) ==
  /\ "update" \in Commands
  /\ \E status \in Statuses \cup {NoStatus}, content \in Contents \cup {Keep}, force \in Forces :
       UpdateWorkItem(p, status, content, {}, force)

(* No command edits diagnostic keys; other callers of the model may. *)
UpdateKeys(p) ==
  /\ "update" \in Commands
  /\ \E status \in Statuses \cup {NoStatus}, content \in Contents \cup {Keep},
        diag \in DiagEdits \ {{}}, force \in Forces :
          UpdateWorkItem(p, status, content, diag, force)

CloseCommand(p) ==
  /\ "close" \in Commands
  /\ \/ CloseWorkItem(p)
     \/ TRUE \in Forces /\ CloseWorkItemForce(p)

AttestCommand(p) == "attest" \in Commands /\ AttestGateWaiver(p)

DeleteCommand(p) == "delete" \in Commands /\ DeleteWorkItem(p)

(* --same-lineage-acknowledged is offered with every verdict. *)
ReviewCommand(p, transition) ==
  "review" \in Commands /\ \E ack \in BOOLEAN : ReviewTransition(p, transition, ack)

PassCommand(p)           == ReviewCommand(p, "adversarial_pass")
AcceptCommand(p)         == ReviewCommand(p, "accept")
RejectCommand(p)         == ReviewCommand(p, "reject")
RequestChangesCommand(p) == ReviewCommand(p, "request_changes")

ClaimCommand(p)     == "lease" \in Commands /\ \E ttl \in TTLs : Claim(p, ttl)
HeartbeatCommand(p) == "lease" \in Commands /\ \E ttl \in TTLs : Heartbeat(p, ttl)
ReleaseCommand(p)   == "lease" \in Commands /\ Release(p)
RequeueCommand(p)   == "lease" \in Commands /\ SweepExpired(p)

ItemCommand(p) ==
  \/ FileCommand(p) \/ UpdateCommand(p) \/ CloseCommand(p)
  \/ AttestCommand(p) \/ DeleteCommand(p)
  \/ PassCommand(p) \/ AcceptCommand(p) \/ RejectCommand(p) \/ RequestChangesCommand(p)
  \/ ClaimCommand(p) \/ HeartbeatCommand(p) \/ ReleaseCommand(p) \/ RequeueCommand(p)

Next ==
  \/ Time
  \/ \E p \in Proc : Start1(p) \/ Refused(p) \/ ItemCommand(p) \/ UpdateKeys(p)

Spec == Init /\ [][Next]_vars
-----------------------------------------------------------------------------
(* The verifier's two checks of an item (core/verifier.py).                *)

(* verify_cache: the fields of the row are those of the fold, and there is *)
(* a row just when the fold has one.                                       *)
CacheVerified == row = Fold(log)

(* verify_gate_integrity: the item is not reported as completed without    *)
(* the review gate.                                                        *)
GateVerified == ~DegradedCompletion(log)
-----------------------------------------------------------------------------
(* PROPERTIES *)

NewOps == log' \ log

(* The cache never drifts from the log by a command: once the log          *)
(* reproduces the row, every command keeps it so, those that do not fold   *)
(* (heartbeat, delete) included.  This is what verify_cache reports on.    *)
StaysInStep == [][CacheVerified => CacheVerified']_vars

(* A command changes in the row what it wrote an op for and nothing else,  *)
(* however far the row had drifted from the log before it.  Attestation,   *)
(* which folds without sealing, is left out: it puts a stale log's status  *)
(* and content back over the row.                                          *)
Attests == \E o \in NewOps : o.type = "set_field" /\ o.diag = {"gate_attestation"}

RowChangeIsWritten ==
  row # Absent /\ row' # Absent =>
    /\ row'.content # row.content =>
         \E o \in NewOps : o.type = "set_field" /\ o.content = row'.content
    /\ row'.status # row.status =>
         \E o \in NewOps : o.type \in StatusOps /\ o.status = row'.status
    /\ row.diag \subseteq row'.diag

NoSilentRevert == [][~Attests => RowChangeIsWritten]_vars

(* No command takes an item out of review upward without recorded evidence *)
(* of who approved it, forced or not.                                      *)
NoUngatedExit ==
  [][row.status \in ReviewStates /\ row'.status \in Advanced \ {row.status} =>
       \E o \in NewOps : o.type \in StatusOps /\ o.approval # None]_vars

(* Two authors count as the same party: the same lineage when both are     *)
(* known, the same actor when one is not or when a human reviews.          *)
SameParty(reviewer, author) ==
  IF reviewer.actor \in Human \/ author.lineage = Unknown
  THEN reviewer.actor = author.actor
  ELSE reviewer.lineage = author.lineage

(* What o's author did to the item itself: everything but verdicts,        *)
(* waivers, the seal, leases and deletion.                                 *)
IsWork(o) ==
  /\ o.type \in {"create", "set_field", "set_status", "close"}
  /\ o.verdict = None
  /\ o.content # NoContent
  /\ ~(o.type = "set_field" /\ o.diag = {"gate_attestation"})

(* Approvals that claim independence. *)
Independent == {"human", "verified", "unverified-legacy", "no-recorded-implementers"}

(* Whoever passed or accepted an item, and did not record an               *)
(* acknowledgement, did none of the work since the item last bounced: by   *)
(* any route, after any number of review rounds.                           *)
ApproverIndependent ==
  \A o \in log : o.approval \in Independent =>
    \A w \in log :
      /\ w.lamport < o.lamport /\ IsWork(w)
      /\ ~\E r \in log : /\ r.type = "set_status" /\ r.verdict \in Resets
                         /\ w.lamport < r.lamport /\ r.lamport < o.lamport
      => ~SameParty(o, w)

(* The same with "bounced" taken at its word: an op that moved the item    *)
(* out of a review state.  The module doc promises this one.               *)
BouncedFromReview(r) ==
  /\ r.type = "set_status" /\ r.verdict \in Resets
  /\ SeenStatus(log)[r.lamport - 1] \in ReviewStates

ApproverDidNoWork ==
  \A o \in log : o.approval \in Independent =>
    \A w \in log :
      /\ w.lamport < o.lamport /\ IsWork(w)
      /\ ~\E r \in log : /\ w.lamport < r.lamport /\ r.lamport < o.lamport
                         /\ BouncedFromReview(r)
      => ~SameParty(o, w)

(* Without force, a completion the degraded-completion detector accepts    *)
(* was dismissed from open, or an evidenced pass and then an evidenced     *)
(* accept followed the last bounce.                                        *)
CleanMeansReviewed ==
  /\ row.status \in IsTerminal /\ "gate_attestation" \notin row.diag
  /\ GateVerified
  => LET ends == {t \in Transitions(log) : t.to \in IsTerminal}
     IN  ends # {} =>
           LET last == CHOOSE t \in ends : \A e \in ends : e.at <= t.at
           IN  \/ SourceAlias(last.from) = "open"
               \/ /\ last.op.approval # None
                  /\ \E p \in log :
                       /\ p.status = "in_human_review" /\ p.approval # None
                       /\ p.lamport < last.at
                       /\ ~\E r \in log : /\ r.verdict \in Resets
                                          /\ p.lamport < r.lamport
                                          /\ r.lamport < last.at

(* The lease's holder is the actor of the log's last claim, and nothing in *)
(* the log gave the lease up since.                                        *)
LeaseMatchesLog ==
  lease # NoLease =>
    \E c \in log :
      /\ c.type = "claim" /\ c.actor = lease.holder
      /\ \A o \in log : o.lamport > c.lamport =>
           o.type \notin {"claim", "release", "tombstone"}
=============================================================================
