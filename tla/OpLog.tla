------------------------------- MODULE OpLog -------------------------------
(***************************************************************************)
(* The operations of one work item and what they fold to                   *)
(* (core/kernel.py), and the transition chain the verifier rebuilds from   *)
(* them (core/verifier.py).                                                *)
(*                                                                         *)
(* op_log is a table ordered by (lamport, op_id) whenever it is read, so a *)
(* log is a SET of ops and the order is part of the fold.  An op's content *)
(* hash is abstracted to a number: only equality and the order that breaks *)
(* ties matter.  The item's fields are three: the status, the content      *)
(* (title, body, kind, severity: everything set_field overwrites) and the  *)
(* set of keys present in diagnostic_keys (which set_field merges).        *)
(***************************************************************************)
EXTENDS Lifecycle, FiniteSets

Keep      == "keep"      \* a field the op's payload does not carry
NoContent == "nothing"   \* the content of an entity with no usable create

StatusOps == {"set_status", "close"}
OpTypes   == {"create", "set_field", "snapshot", "tombstone", "merge", "claim",
              "release", "heartbeat"} \cup StatusOps

(* What the fold accumulates, and its value before the first op. *)
Start == [exists |-> FALSE, dead |-> FALSE, status |-> NoStatus,
          content |-> NoContent, diag |-> {}]

Absent == [status |-> NoStatus, content |-> NoContent, diag |-> {}]

(* One op that is not a status op.  A create without content is the stub   *)
(* the seal writes for a chainless row: it names no project, so the entity *)
(* does not exist yet.  A sealed snapshot supersedes a tombstone, a merge  *)
(* does not.                                                               *)
ApplyOp(acc, op) ==
  CASE op.type = "create" ->
         [acc EXCEPT !.exists = op.content # NoContent, !.status = op.status,
                     !.content = op.content, !.diag = op.diag]
    [] op.type = "set_field" ->
         [acc EXCEPT !.content = IF op.content = Keep THEN @ ELSE op.content,
                     !.diag = @ \cup op.diag]
    [] op.type \in {"snapshot", "merge"} ->
         [exists |-> TRUE, status |-> op.status, content |-> op.content,
          diag |-> op.diag, dead |-> acc.dead /\ op.type = "merge"]
    [] op.type = "tombstone" -> [acc EXCEPT !.dead = TRUE]
    [] OTHER -> acc

(* The fail-safe lattice over the status ops of one lamport: the more      *)
(* unfinished status wins, the smaller op_id breaks a tie.                 *)
Winner(ops) ==
  CHOOSE o \in ops : \A x \in ops :
    \/ StatusRank(o.status) > StatusRank(x.status)
    \/ StatusRank(o.status) = StatusRank(x.status) /\ o.id <= x.id

(* All ops of one lamport: the others in op_id order, then the status. *)
ApplyGroup(acc, group) ==
  LET status == {o \in group : o.type \in StatusOps}
      apply[ops \in SUBSET (group \ status)] ==
        IF ops = {} THEN acc
        ELSE LET last == CHOOSE o \in ops : \A x \in ops : x.id <= o.id
             IN  ApplyOp(apply[ops \ {last}], last)
      done == apply[group \ status]
  IN  IF status = {} THEN done
      ELSE [done EXCEPT !.status = Winner(status).status]

MaxLamport(ops) ==
  IF ops = {} THEN 0
  ELSE CHOOSE m \in {o.lamport : o \in ops} : \A o \in ops : o.lamport <= m

FoldState(ops) ==
  LET upTo[m \in 0..MaxLamport(ops)] ==
        IF m = 0 THEN Start
        ELSE ApplyGroup(upTo[m - 1], {o \in ops : o.lamport = m})
  IN  upTo[MaxLamport(ops)]

Visible(acc) == [status |-> acc.status, content |-> acc.content, diag |-> acc.diag]

(* fold_work_item_state: Absent for a dangling or a tombstoned entity. *)
Fold(ops) ==
  LET acc == FoldState(ops)
  IN  IF acc.dead \/ ~acc.exists THEN Absent ELSE Visible(acc)

-----------------------------------------------------------------------------
(* _reconstruct_status_transitions: the verifier's own walk over the log,  *)
(* whose status only creates and status ops move.                          *)
SeenStatus(ops) ==
  LET seen[m \in 0..MaxLamport(ops)] ==
        LET group   == {o \in ops : o.lamport = m}
            status  == {o \in group : o.type \in StatusOps}
            creates == {o \in group : o.type = "create"}
        IN  IF m = 0 THEN NoStatus
            ELSE IF status # {} THEN Winner(status).status
            ELSE IF creates # {} THEN (CHOOSE o \in creates : TRUE).status
            ELSE seen[m - 1]
  IN  seen

Transitions(ops) ==
  LET seen == SeenStatus(ops)
  IN  { [at |-> m, from |-> seen[m - 1], to |-> seen[m],
         op |-> Winner({o \in ops : o.lamport = m /\ o.type \in StatusOps})] :
        m \in {n \in 1..MaxLamport(ops) :
                 /\ seen[n] # seen[n - 1]
                 /\ \E o \in ops : o.lamport = n /\ o.type \in StatusOps} }

IsPass(t) == t.from = "in_review" /\ t.to = "in_human_review"

(* Mutant: a move that is no workflow transition is taken for reviewed. *)
DegradedUnlessAccept(ops) ==
  LET row  == Fold(ops)
      ends == {t \in Transitions(ops) : t.to \in IsTerminal}
  IN  /\ row.status \in IsTerminal
      /\ "gate_attestation" \notin row.diag
      /\ \E t \in ends : t.op.type = "close" /\ \A e \in ends : e.at <= t.at

(* _check_degraded_completion: the item is terminal, carries no waiver and *)
(* its last completion is neither a dismissal nor an accept after a pass.  *)
DegradedCompletion(ops) ==
  LET row   == Fold(ops)
      moves == Transitions(ops)
      ends  == {t \in moves : t.to \in IsTerminal}
  IN  /\ row.status \in IsTerminal
      /\ "gate_attestation" \notin row.diag
      /\ ends # {}
      /\ LET last == CHOOSE t \in ends : \A e \in ends : e.at <= t.at
             name == TransitionFor(TargetAlias(last.from), last.to)
         IN  \/ last.op.type = "close"
             \/ /\ name # {"close_from_open"}
                /\ name = {"accept"} => ~\E t \in moves : IsPass(t) /\ t.at < last.at
=============================================================================
