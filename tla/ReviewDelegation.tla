-------------------------- MODULE ReviewDelegation --------------------------
(***************************************************************************)
(* Delegated review: jobs that review a work item with another model, the  *)
(* journal of their attempts and the gate that lets an attempt stand for a *)
(* reviewer (dispatcher/review_job.py, core/work_item/                     *)
(* _review_orchestrator.py, _review_journal.py, _independence.py,          *)
(* _native.py), composed with the work item's own commands.                *)
(*                                                                         *)
(* A job reads the item, plans its attempt, marks it running and records   *)
(* the result in four transactions with none of them open while the        *)
(* reviewer runs; commands on the item and other jobs run in between, and  *)
(* a dispatcher may die at any point.  Nothing restarts a job.             *)
(***************************************************************************)
EXTENDS WorkItem

CONSTANTS Job,      \* review requests; each is run at most once
          Ask,      \* what a request names: revisions and reviewer model
          Reviewer, \* Reviewer[a]: the lineage of the model that reports for a
          Shown     \* Shown[c]: what the prompt shows of contents c (title, body)

Prompts == {Shown[c] : c \in Contents}

(* attempt_idempotency_key: entity, head, model and prompt digest. *)
Key == Ask \X Prompts

ASSUME DelegationAssumption ==
  /\ DOMAIN Shown = Contents
  /\ DOMAIN Reviewer = Ask

VARIABLES attempt, \* review_delegation_attempts: the rows there are, by key
          job      \* the jobs' own memory

reviewVars == <<vars, attempt, job>>

AttemptStatus == {"planned", "running", "result_validated", "transition_applied", "failed"}
ReviewVerdicts == {"accept", "request_changes"}

(* op: native_op_id, here the op's lamport, 0 when the attempt has none. *)
Attempt == [status : AttemptStatus, lamport : 0..MaxSeq,
            verdict : ReviewVerdicts \cup {None}, op : 0..MaxSeq]

(* A job before it has read the item. *)
NewJob(a) == [pc |-> "new", ask |-> a, prompt |-> None, status |-> NoStatus,
              lamport |-> 0, launched |-> FALSE, reply |-> None]

(* The error codes, as far as they tell how far the job came: whatever     *)
(* ends it before it plans an attempt is one.                              *)
Failures == {"refused", "conflict", "review_failed", "job_failed"}

KeyOf(j) == <<job[j].ask, job[j].prompt>>

HasStatus(k, status) == k \in DOMAIN attempt /\ attempt[k].status = status

(* UPDATE of one attempt's row. *)
Sets(k, status, verdict, op) ==
  attempt' = [attempt EXCEPT ![k] = [status |-> status, lamport |-> attempt[k].lamport,
                                     verdict |-> verdict, op |-> op]]

(* What a review ends with, compared and set: nothing but the attempt that *)
(* its job marked running.                                                 *)
MarkResultValidated(k, verdict) ==
  HasStatus(k, "running") /\ Sets(k, "result_validated", verdict, 0)
MarkFailed(k) == HasStatus(k, "running") /\ Sets(k, "failed", None, 0)

(* transition_pending and transition_applied, in one transaction. *)
MarkApplied(k, op) ==
  HasStatus(k, "result_validated") /\ Sets(k, "transition_applied", "accept", op)

Goes(j, pc, launched, reply) ==
  job' = [job EXCEPT ![j] =
            [pc |-> pc, ask |-> job[j].ask, prompt |-> job[j].prompt,
             status |-> job[j].status, lamport |-> job[j].lamport,
             launched |-> launched, reply |-> reply]]

Replies(j, reply) == Goes(j, "replied", job[j].launched, reply)

-----------------------------------------------------------------------------
(* The job. *)

(* A payload that names no project, revisions or model it can use, no      *)
(* checkout here, commits that are not there after a fetch or, once the    *)
(* item was read, that prepare_review can't take for a target; or whatever *)
(* a statement raises this early.                                          *)
JobRefuses(j) ==
  /\ job[j].pc \in {"new", "read"}
  /\ Replies(j, "refused")
  /\ UNCHANGED <<vars, attempt>>

(* _work_item_request: one statement reads the row and the highest lamport *)
(* of the item's ops.                                                      *)
ReadItem(j) ==
  /\ job[j].pc = "new"
  /\ IF row = Absent \/ log = {}
     THEN Replies(j, "refused")
     ELSE job' = [job EXCEPT ![j] =
                    [pc |-> "read", ask |-> job[j].ask, prompt |-> Shown[row.content],
                     status |-> row.status, lamport |-> MaxLamport(log),
                     launched |-> FALSE, reply |-> None]]
  /\ UNCHANGED <<vars, attempt>>

(* prepare_review refuses an item that was not in review when it was read. *)
PrepareRefuses(j) ==
  /\ job[j].pc = "read"
  /\ job[j].status # "in_review"
  /\ Replies(j, "refused")
  /\ UNCHANGED <<vars, attempt>>

(* The row an INSERT adds; the one a key already has stays. *)
Inserts(k, watermark) ==
  attempt' = [x \in DOMAIN attempt \cup {k} |->
                IF x \in DOMAIN attempt THEN attempt[x]
                ELSE [status |-> "planned", lamport |-> watermark,
                      verdict |-> None, op |-> 0]]

(* Mutant: the watermark is the lamport at planning. *)
PlanAttemptLate(j) ==
  /\ job[j].pc = "read"
  /\ job[j].status = "in_review"
  /\ Inserts(KeyOf(j), MaxLamport(log))
  /\ IF attempt'[KeyOf(j)].status = "planned"
     THEN Goes(j, "planned", FALSE, None)
     ELSE Replies(j, "conflict")
  /\ UNCHANGED vars

Lower(m, n) == IF m < n THEN m ELSE n

(* plan_attempt: INSERT ... ON CONFLICT DO NOTHING.  A row that is planned *)
(* already, whoever planned it, is taken up; any other is a conflict.      *)
PlanAttempt(j) ==
  /\ job[j].pc = "read"
  /\ job[j].status = "in_review"
  /\ Inserts(KeyOf(j), Lower(job[j].lamport, MaxLamport(log)))
  /\ IF attempt'[KeyOf(j)].status = "planned"
     THEN Goes(j, "planned", FALSE, None)
     ELSE Replies(j, "conflict")
  /\ UNCHANGED vars

(* Mutant: running is written whatever the status is. *)
MarkRunningBlindly(j) ==
  /\ job[j].pc = "planned"
  /\ Sets(KeyOf(j), "running", None, 0)
  /\ Goes(j, "running", TRUE, None)
  /\ UNCHANGED vars

(* mark_running: compare and set. *)
MarkRunning(j) ==
  /\ job[j].pc = "planned"
  /\ IF HasStatus(KeyOf(j), "planned")
     THEN Sets(KeyOf(j), "running", None, 0) /\ Goes(j, "running", TRUE, None)
     ELSE Replies(j, "conflict") /\ UNCHANGED attempt
  /\ UNCHANGED vars

(* evaluate_prepared_review succeeds: the artifact is stored and the       *)
(* attempt validated in one transaction.                                   *)
ReviewSucceeds(j, verdict) ==
  /\ job[j].pc = "running"
  /\ MarkResultValidated(KeyOf(j), verdict)
  /\ Replies(j, verdict)
  /\ UNCHANGED vars

(* It raises a DelegatedReviewError: the reviewer is killed at its timeout *)
(* or when it writes too much, exits badly, is not the model that was      *)
(* asked for, returns a malformed result or touches its worktree.          *)
ReviewFails(j) ==
  /\ job[j].pc = "running"
  /\ MarkFailed(KeyOf(j))
  /\ Replies(j, "review_failed")
  /\ UNCHANGED vars

(* Mutant: the attempt is validated before the artifact is stored, and the *)
(* store raises.                                                           *)
JobRaisesValidated(j) ==
  /\ job[j].pc = "running"
  /\ Sets(KeyOf(j), "result_validated", "accept", 0)
  /\ Replies(j, "job_failed")
  /\ UNCHANGED vars

(* Any other exception once the attempt is planned, the database's         *)
(* included, rolls its transaction back: the row stays as it was.          *)
JobRaises(j) ==
  /\ job[j].pc \in {"planned", "running"}
  /\ Replies(j, "job_failed")
  /\ UNCHANGED <<vars, attempt>>

(* The dispatcher dies: the reply is for its next life to send (see        *)
(* DispatcherJobs), the attempt stays where it is.                         *)
JobDies(j) ==
  /\ job[j].pc \in {"new", "read", "planned", "running"}
  /\ Goes(j, "dead", job[j].launched, None)
  /\ UNCHANGED <<vars, attempt>>

-----------------------------------------------------------------------------
(* review_transition --attempt. *)

ContentOps == {"create", "set_field", "merge"}

(* _content_edits *)
ContentEdits == {o \in log : o.type \in ContentOps /\ ~IsBookkeeping(o)}

(* attempt_reviewer: validated, no content edit above the watermark, and   *)
(* an accept.  (The job's requests are always "asserted", never degraded.) *)
Usable(k) ==
  /\ attempt[k].status = "result_validated"
  /\ \A o \in ContentEdits : o.lamport <= attempt[k].lamport
  /\ attempt[k].verdict = "accept"

(* Mutant: a validated attempt is independent whoever the model is. *)
AttemptTrusted(k, acknowledged) ==
  IF acknowledged THEN {"acknowledged"} ELSE {"verified"}

(* The reviewer is the attempt: its model's lineage, and an actor          *)
(* ("attempt:<id>") no op has.                                             *)
AttemptEvidence(k, acknowledged) ==
  IF acknowledged THEN {"acknowledged"} ELSE CheckModel(Reviewer[k[1]], None)

(* Mutant: the attempt is not consumed. *)
ApplyAttemptKept(p, k, transition, acknowledged) ==
  /\ transition \in Positive
  /\ Usable(k)
  /\ RecordVerdict(p, transition, AttemptEvidence(k, acknowledged))
  /\ Sets(k, "result_validated", "accept", After(SealOps(p)))
  /\ UNCHANGED job

(* review_transition with an attempt, which consume_attempt marks applied  *)
(* by that op in the same transaction.                                     *)
ApplyAttempt(p, k, transition, acknowledged) ==
  /\ transition \in Positive
  /\ Usable(k)
  /\ RecordVerdict(p, transition, AttemptEvidence(k, acknowledged))
  /\ MarkApplied(k, After(SealOps(p)))
  /\ UNCHANGED job

-----------------------------------------------------------------------------
ReviewInit ==
  /\ Init
  /\ attempt = [k \in {} |-> None]
  /\ job \in [Job -> {NewJob(a) : a \in Ask}]

EvaluateAndRecord(j) ==
  \/ PrepareRefuses(j)
  \/ PlanAttempt(j)
  \/ MarkRunning(j)
  \/ \E verdict \in ReviewVerdicts : ReviewSucceeds(j, verdict)
  \/ ReviewFails(j)

JobNext(j) ==
  \/ JobRefuses(j)
  \/ ReadItem(j)
  \/ EvaluateAndRecord(j)
  \/ JobRaises(j)
  \/ JobDies(j)

ReviewNext ==
  \/ Next /\ UNCHANGED <<attempt, job>>
  \/ \E j \in Job : JobNext(j)
  \/ \E p \in Proc, k \in DOMAIN attempt, transition \in Positive, acknowledged \in BOOLEAN :
       ApplyAttempt(p, k, transition, acknowledged)

ReviewSpec == ReviewInit /\ [][ReviewNext]_reviewVars

-----------------------------------------------------------------------------
(* PROPERTIES *)

(* Job j launched the reviewer of attempt k and has not ended its row: it  *)
(* waits, it died, or it raised what nothing turns into a failed attempt.  *)
LeftRunning(j, k) ==
  /\ KeyOf(j) = k
  /\ job[j].launched
  /\ job[j].pc \in {"running", "dead"} \/ job[j].reply = "job_failed"

(* One request's reviewer at a time, and one in all, works on an attempt:  *)
(* two jobs that planned the same attempt never both launch the model, a   *)
(* job whose reviewer runs still owns the attempt, and an attempt that is  *)
(* marked running has such a job, or one that died or raised: no conflict, *)
(* refusal or verdict of any job leaves a row running that nobody works    *)
(* on.                                                                     *)
OneReviewer ==
  /\ \A j \in Job :
       /\ job[j].pc = "running" => HasStatus(KeyOf(j), "running")
       /\ \A i \in Job \ {j} :
            ~(job[i].launched /\ job[j].launched /\ KeyOf(i) = KeyOf(j))
  /\ \A k \in DOMAIN attempt :
       attempt[k].status = "running" => \E j \in Job : LeftRunning(j, k)

(* What an attempt was applied to is what its reviewer was shown: the item *)
(* just before the approval has the title and body of the prompt, however  *)
(* many edits and bounces came between the read and the approval.          *)
AppliedAsReviewed ==
  \A k \in DOMAIN attempt : attempt[k].op # 0 =>
    Shown[FoldState({o \in log : o.lamport < attempt[k].op}).content] = k[2]

(* An attempt approves once: after a bounce or at the human gate it cannot *)
(* be used again.                                                          *)
AppliedOnce ==
  [][\A k \in DOMAIN attempt :
       attempt[k].op # 0 => attempt'[k] = attempt[k]]_reviewVars

(* The model behind an approval that was not acknowledged as its own did   *)
(* none of the work since the item last bounced, whoever applied it.       *)
ReviewerDidNoWork ==
  \A k \in DOMAIN attempt, o \in log :
    o.lamport = attempt[k].op /\ o.approval \in Independent =>
      \A w \in log :
        /\ w.lamport < o.lamport /\ IsWork(w)
        /\ ~\E r \in log : /\ r.type = "set_status" /\ r.verdict \in Resets
                           /\ w.lamport < r.lamport /\ r.lamport < o.lamport
        => w.lineage # Reviewer[k[1]]

(* What the requester is told is what the gate will honour: a verdict that *)
(* was sent is in the journal, and an attempt whose review some job        *)
(* reported as failed never becomes usable.                                *)
ReplyMatchesJournal ==
  \A j \in Job :
    /\ job[j].reply \in ReviewVerdicts =>
         /\ KeyOf(j) \in DOMAIN attempt
         /\ attempt[KeyOf(j)].verdict = job[j].reply
         /\ attempt[KeyOf(j)].status \in {"result_validated", "transition_applied"}
    /\ job[j].launched /\ job[j].reply \in Failures =>
         KeyOf(j) \in DOMAIN attempt /\ ~Usable(KeyOf(j))
=============================================================================
