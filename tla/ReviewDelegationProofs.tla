----------------------- MODULE ReviewDelegationProofs -----------------------
(***************************************************************************)
(* The journal's promises, for any number of jobs, items' contents and     *)
(* commands on the item: an attempt has one reviewer, the reply and the    *)
(* journal agree, an attempt is applied once, to the contents its reviewer *)
(* was shown, and by a model that did none of the work.                    *)
(*                                                                         *)
(* The first three do not depend on what the item's log folds to: their    *)
(* argument is about the journal's rows and the jobs' memory, launching    *)
(* marks the row (Launches), and from then on only the job that launched,  *)
(* and the gate after it, may write it (Alone, Answers, Consumed).  The    *)
(* last two relate the row to the log and to the item's revisions.         *)
(***************************************************************************)
EXTENDS ReviewDelegation, WorkItemProofs

(* A job has launched its reviewer only with the row out of "planned", and *)
(* while the reviewer runs the row is "running".                           *)
Launches ==
  \A j \in Job :
    /\ job[j].launched \in BOOLEAN
    /\ job[j].pc \in {"new", "read", "planned"} => ~job[j].launched
    /\ job[j].pc \in {"new", "read", "planned", "running", "dead"} =>
         job[j].reply = None
    /\ job[j].pc = "running" => job[j].launched /\ HasStatus(KeyOf(j), "running")
    /\ job[j].launched =>
         KeyOf(j) \in DOMAIN attempt /\ attempt[KeyOf(j)].status # "planned"

Alone ==
  \A i, j \in Job :
    i # j /\ job[i].launched /\ job[j].launched => KeyOf(i) # KeyOf(j)

(* What a reply says of the row. *)
Answers ==
  \A j \in Job :
    /\ job[j].reply \in ReviewVerdicts =>
         /\ job[j].launched
         /\ attempt[KeyOf(j)].verdict = job[j].reply
         /\ attempt[KeyOf(j)].status \in {"result_validated", "transition_applied"}
    /\ job[j].launched /\ job[j].reply \in Failures =>
         attempt[KeyOf(j)].status \in {"running", "failed"}

(* A row names the op that applied it only once it is spent. *)
Consumed ==
  \A k \in DOMAIN attempt :
    attempt[k].op # 0 => attempt[k].status = "transition_applied"

(* A running row has the job that launched its reviewer and did not end it. *)
Manned ==
  \A k \in DOMAIN attempt :
    attempt[k].status = "running" => \E j \in Job : LeftRunning(j, k)

IInv == DOMAIN job = Job /\ Launches /\ Alone /\ Answers /\ Consumed /\ Manned

LEMMA InitIInv == ReviewInit => IInv
<1> SUFFICES ASSUME ReviewInit PROVE IInv
  OBVIOUS
<1>1. DOMAIN job = Job /\ \A j \in Job : \E a \in Ask : job[j] = NewJob(a)
  BY DEF ReviewInit
<1>2. DOMAIN attempt = {}
  BY DEF ReviewInit
<1>3. \A j \in Job : /\ job[j].pc = "new" /\ job[j].launched = FALSE
                     /\ job[j].reply = None
  BY <1>1 DEF NewJob
<1>4. QED
  BY <1>1, <1>2, <1>3 DEF IInv, Launches, Alone, Answers, Consumed, Manned, None,
                          ReviewVerdicts, Failures

-----------------------------------------------------------------------------
(* What a write to one job or one row leaves alone. *)

LEMMA GoesFrame ==
  ASSUME DOMAIN job = Job, NEW j \in Job, NEW pc, NEW launched, NEW reply,
         Goes(j, pc, launched, reply)
  PROVE  /\ DOMAIN job' = Job
         /\ \A i \in Job \ {j} : job'[i] = job[i] /\ KeyOf(i)' = KeyOf(i)
         /\ job'[j].pc = pc /\ job'[j].launched = launched /\ job'[j].reply = reply
         /\ KeyOf(j)' = KeyOf(j)
<1>1. /\ DOMAIN job' = Job
      /\ \A i \in Job \ {j} : job'[i] = job[i]
      /\ job'[j] = [pc |-> pc, ask |-> job[j].ask, prompt |-> job[j].prompt,
                    status |-> job[j].status, lamport |-> job[j].lamport,
                    launched |-> launched, reply |-> reply]
  BY DEF Goes
<1>2. QED
  BY <1>1 DEF KeyOf

LEMMA SetsFrame ==
  ASSUME NEW k \in DOMAIN attempt, NEW status, NEW verdict, NEW op,
         Sets(k, status, verdict, op)
  PROVE  /\ DOMAIN attempt' = DOMAIN attempt
         /\ \A x \in DOMAIN attempt \ {k} : attempt'[x] = attempt[x]
         /\ attempt'[k].status = status /\ attempt'[k].verdict = verdict
         /\ attempt'[k].op = op
BY DEF Sets

LEMMA InsertsFrame ==
  ASSUME NEW k, NEW watermark, Inserts(k, watermark)
  PROVE  /\ DOMAIN attempt' = DOMAIN attempt \cup {k}
         /\ \A x \in DOMAIN attempt : attempt'[x] = attempt[x]
         /\ k \notin DOMAIN attempt =>
              attempt'[k].status = "planned" /\ attempt'[k].op = 0
BY DEF Inserts

-----------------------------------------------------------------------------
(* The invariant, one action at a time. *)

(* A job that ends without a verdict, and leaves the rows alone. *)
LEMMA EndsWithoutVerdict ==
  ASSUME IInv, NEW j \in Job, NEW pc \in {"replied", "dead"},
         NEW reply \in Failures \cup {None},
         pc = "dead" => reply = None,
         job[j].pc = "running" => pc = "dead" \/ reply = "job_failed",
         job[j].pc \in {"new", "read", "planned", "running"},
         Goes(j, pc, job[j].launched, reply), UNCHANGED attempt
  PROVE  IInv'
<1>1. /\ DOMAIN job' = Job
      /\ \A i \in Job \ {j} : job'[i] = job[i] /\ KeyOf(i)' = KeyOf(i)
      /\ job'[j].pc = pc /\ job'[j].launched = job[j].launched
      /\ job'[j].reply = reply /\ KeyOf(j)' = KeyOf(j)
  BY GoesFrame DEF IInv
<1>2. Launches'
  BY <1>1 DEF IInv, Launches, HasStatus
<1>3. Alone'
  BY <1>1 DEF IInv, Alone
<1>4. Answers'
  <2>1. job[j].launched => attempt[KeyOf(j)].status = "running"
    BY DEF IInv, Launches, HasStatus
  <2>2. reply \notin ReviewVerdicts
    BY DEF Failures, ReviewVerdicts, None
  <2>3. QED
    BY <1>1, <2>1, <2>2 DEF IInv, Answers
<1>5. Consumed'
  BY DEF IInv, Consumed
<1>6. ASSUME NEW k, NEW i \in Job, LeftRunning(i, k) PROVE LeftRunning(i, k)'
  <2>1. i # j => job'[i] = job[i] /\ KeyOf(i)' = KeyOf(i)
    BY <1>1
  <2>2. i = j => job[j].pc = "running"
    BY <1>6 DEF LeftRunning, IInv, Launches
  <2>3. QED
    BY <1>1, <1>6, <2>1, <2>2 DEF LeftRunning
<1>7. Manned'
  BY <1>6 DEF IInv, Manned
<1>8. QED
  BY <1>1, <1>2, <1>3, <1>4, <1>5, <1>7 DEF IInv

(* A job that has not launched mans no row: what it does next leaves every *)
(* row the one it has.                                                     *)
LEMMA OthersMan ==
  ASSUME IInv, NEW j \in Job, ~job[j].launched,
         \A i \in Job \ {j} : job'[i] = job[i] /\ KeyOf(i)' = KeyOf(i)
  PROVE  \A k \in DOMAIN attempt :
           attempt[k].status = "running" => \E i \in Job : LeftRunning(i, k)'
<1> SUFFICES ASSUME NEW k \in DOMAIN attempt, attempt[k].status = "running"
             PROVE  \E i \in Job : LeftRunning(i, k)'
  OBVIOUS
<1>1. PICK i \in Job : LeftRunning(i, k)
  BY DEF IInv, Manned
<1>2. i # j
  BY <1>1 DEF LeftRunning
<1>3. LeftRunning(i, k)'
  BY <1>1, <1>2 DEF LeftRunning
<1>4. QED
  BY <1>3

LEMMA ReadItemKeeps ==
  ASSUME IInv, NEW j \in Job, ReadItem(j)
  PROVE  IInv'
<1>1. CASE row = Absent \/ log = {}
  <2>1. Goes(j, "replied", job[j].launched, "refused") /\ job[j].pc = "new"
        /\ attempt' = attempt
    BY <1>1 DEF ReadItem, Replies
  <2>2. QED
    BY <2>1, EndsWithoutVerdict DEF Failures
<1>2. CASE ~(row = Absent \/ log = {})
  <2>1. /\ DOMAIN job' = Job
        /\ \A i \in Job \ {j} : job'[i] = job[i]
        /\ job'[j].pc = "read" /\ job'[j].launched = FALSE /\ job'[j].reply = None
        /\ attempt' = attempt
    BY <1>2 DEF ReadItem, IInv
  <2>2. \A i \in Job \ {j} : KeyOf(i)' = KeyOf(i)
    BY <2>1 DEF KeyOf
  <2>3. Launches'
    BY <2>1, <2>2 DEF IInv, Launches, HasStatus
  <2>4. Alone'
    BY <2>1, <2>2 DEF IInv, Alone
  <2>5. Answers'
    BY <2>1, <2>2 DEF IInv, Answers, ReviewVerdicts, Failures, None
  <2>6. Consumed'
    BY <2>1 DEF IInv, Consumed
  <2>7. Manned'
    <3>1. ~job[j].launched
      BY DEF ReadItem, IInv, Launches
    <3>2. QED
      BY <2>1, <2>2, <3>1, OthersMan DEF Manned
  <2>8. QED
    BY <2>1, <2>3, <2>4, <2>5, <2>6, <2>7 DEF IInv
<1>3. QED
  BY <1>1, <1>2

LEMMA PlanAttemptKeeps ==
  ASSUME IInv, NEW j \in Job, PlanAttempt(j)
  PROVE  IInv'
<1> DEFINE k == KeyOf(j)
<1>1. /\ DOMAIN attempt' = DOMAIN attempt \cup {k}
      /\ \A x \in DOMAIN attempt : attempt'[x] = attempt[x]
      /\ k \notin DOMAIN attempt => attempt'[k].status = "planned" /\ attempt'[k].op = 0
  BY InsertsFrame DEF PlanAttempt
<1>2. job[j].pc = "read"
  BY DEF PlanAttempt
<1>3. ~job[j].launched /\ job[j].launched \in BOOLEAN
  BY <1>2 DEF IInv, Launches
<1>4. PICK pc \in {"planned", "replied"}, reply \in {None, "conflict"} :
        /\ Goes(j, pc, FALSE, reply)
        /\ pc = "planned" => reply = None
  <2>1. job[j].launched = FALSE
    BY <1>3
  <2>2. \/ Goes(j, "planned", FALSE, None)
        \/ Goes(j, "replied", FALSE, "conflict")
    BY <2>1 DEF PlanAttempt, Replies
  <2>3. QED
    BY <2>2
<1>5. /\ DOMAIN job' = Job
      /\ \A i \in Job \ {j} : job'[i] = job[i] /\ KeyOf(i)' = KeyOf(i)
      /\ job'[j].pc = pc /\ job'[j].launched = FALSE /\ job'[j].reply = reply
  <2>1. DOMAIN job = Job /\ Goes(j, pc, FALSE, reply)
    BY <1>4 DEF IInv
  <2>2. /\ DOMAIN job' = Job
        /\ \A i \in Job \ {j} : job'[i] = job[i]
        /\ job'[j].pc = pc /\ job'[j].launched = FALSE /\ job'[j].reply = reply
    BY <2>1 DEF Goes
  <2>3. QED
    BY <2>2 DEF KeyOf
<1> HIDE DEF k
<1>6. Launches'
  BY <1>1, <1>4, <1>5 DEF IInv, Launches, HasStatus
<1>7. Alone'
  BY <1>5 DEF IInv, Alone
<1>8. Answers'
  <2>1. reply \notin ReviewVerdicts
    BY <1>4 DEF ReviewVerdicts, None
  <2>2. ASSUME NEW i \in Job \ {j}, job[i].launched PROVE attempt'[KeyOf(i)] = attempt[KeyOf(i)]
    BY <1>1, <2>2 DEF IInv, Launches
  <2>3. \A i \in Job \ {j} : job[i].reply \in ReviewVerdicts => job[i].launched
    BY DEF IInv, Answers
  <2>4. QED
    BY <1>5, <2>1, <2>2, <2>3 DEF IInv, Answers
<1>9. Consumed'
  BY <1>1 DEF IInv, Consumed
<1>10. Manned'
  <2>1. \A x \in DOMAIN attempt :
          attempt[x].status = "running" => \E i \in Job : LeftRunning(i, x)'
    BY <1>3, <1>5, OthersMan
  <2>2. QED
    BY <1>1, <2>1 DEF Manned
<1>11. QED
  BY <1>5, <1>6, <1>7, <1>8, <1>9, <1>10 DEF IInv

LEMMA MarkRunningKeeps ==
  ASSUME IInv, NEW j \in Job, MarkRunning(j)
  PROVE  IInv'
<1> DEFINE k == KeyOf(j)
<1>1. CASE ~HasStatus(k, "planned")
  <2>1. Goes(j, "replied", job[j].launched, "conflict") /\ attempt' = attempt
        /\ job[j].pc = "planned"
    BY <1>1 DEF MarkRunning, Replies
  <2>2. QED
    BY <2>1, EndsWithoutVerdict DEF Failures
<1>2. CASE HasStatus(k, "planned")
  <2>1. /\ Sets(k, "running", None, 0)
        /\ Goes(j, "running", TRUE, None)
    BY <1>2 DEF MarkRunning
  <2>2. k \in DOMAIN attempt /\ attempt[k].status = "planned"
    BY <1>2 DEF HasStatus
  <2>3. /\ DOMAIN attempt' = DOMAIN attempt
        /\ \A x \in DOMAIN attempt \ {k} : attempt'[x] = attempt[x]
        /\ attempt'[k].status = "running" /\ attempt'[k].op = 0
    BY <2>1, <2>2, SetsFrame
  <2>4. /\ DOMAIN job' = Job
        /\ \A i \in Job \ {j} : job'[i] = job[i] /\ KeyOf(i)' = KeyOf(i)
        /\ job'[j].pc = "running" /\ job'[j].launched = TRUE /\ job'[j].reply = None
        /\ KeyOf(j)' = k
    BY <2>1, GoesFrame DEF IInv
  <2>5. \A i \in Job : job[i].launched => KeyOf(i) \in DOMAIN attempt \ {k}
    BY <2>2 DEF IInv, Launches
  <2> HIDE DEF k
  <2>6. Launches'
    <3>1. \A i \in Job \ {j} : job[i].pc = "running" => HasStatus(KeyOf(i), "running")'
      BY <2>3, <2>4, <2>5 DEF IInv, Launches, HasStatus
    <3>2. HasStatus(KeyOf(j), "running")'
      BY <2>2, <2>3, <2>4 DEF HasStatus
    <3>3. QED
      BY <2>2, <2>3, <2>4, <2>5, <3>1, <3>2 DEF IInv, Launches
  <2>7. Alone'
    BY <2>4, <2>5 DEF IInv, Alone
  <2>8. Answers'
    BY <2>3, <2>4, <2>5 DEF IInv, Answers, ReviewVerdicts, Failures, None
  <2>9. Consumed'
    BY <2>3 DEF IInv, Consumed
  <2>10. Manned'
    <3>1. ~job[j].launched
      BY DEF MarkRunning, IInv, Launches
    <3>2. \A x \in DOMAIN attempt :
            attempt[x].status = "running" => \E i \in Job : LeftRunning(i, x)'
      BY <2>4, <3>1, OthersMan
    <3>3. \A x : x = k => LeftRunning(j, x)'
      BY <2>4 DEF LeftRunning
    <3>4. QED
      BY <2>3, <3>2, <3>3 DEF Manned
  <2>11. QED
    BY <2>4, <2>6, <2>7, <2>8, <2>9, <2>10 DEF IInv
<1>3. QED
  BY <1>1, <1>2

(* The running job writes its row and replies: nobody else launched it. *)
LEMMA FinishKeeps ==
  ASSUME IInv, NEW j \in Job, job[j].pc = "running",
         NEW status, NEW verdict, NEW reply,
         \/ status = "result_validated" /\ verdict \in ReviewVerdicts /\ reply = verdict
         \/ status = "failed" /\ verdict = None /\ reply = "review_failed",
         Sets(KeyOf(j), status, verdict, 0), Replies(j, reply)
  PROVE  IInv'
<1> DEFINE k == KeyOf(j)
<1>1. job[j].launched /\ k \in DOMAIN attempt
  BY DEF IInv, Launches, HasStatus
<1>2. /\ DOMAIN attempt' = DOMAIN attempt
      /\ \A x \in DOMAIN attempt \ {k} : attempt'[x] = attempt[x]
      /\ attempt'[k].status = status /\ attempt'[k].verdict = verdict
      /\ attempt'[k].op = 0
  BY <1>1, SetsFrame
<1>3. /\ DOMAIN job' = Job
      /\ \A i \in Job \ {j} : job'[i] = job[i] /\ KeyOf(i)' = KeyOf(i)
      /\ job'[j].pc = "replied" /\ job'[j].launched = job[j].launched
      /\ job'[j].reply = reply /\ KeyOf(j)' = k
  BY GoesFrame DEF IInv, Replies
<1>4. \A i \in Job \ {j} : job[i].launched => KeyOf(i) \in DOMAIN attempt \ {k}
  BY <1>1 DEF IInv, Launches, Alone
<1> HIDE DEF k
<1>5. status # "planned"
  OBVIOUS
<1>6. Launches'
  <2>1. \A i \in Job \ {j} : job[i].pc = "running" => HasStatus(KeyOf(i), "running")'
    BY <1>2, <1>3, <1>4 DEF IInv, Launches, HasStatus
  <2>2. QED
    BY <1>1, <1>2, <1>3, <1>4, <1>5, <2>1 DEF IInv, Launches
<1>7. Alone'
  BY <1>1, <1>3, <1>4 DEF IInv, Alone
<1>8. Answers'
  <2>1. /\ reply \in ReviewVerdicts => status = "result_validated" /\ verdict = reply
        /\ reply \in Failures => status = "failed"
    BY DEF ReviewVerdicts, Failures
  <2>2. QED
    <3>1. ASSUME NEW i \in Job \ {j}, job[i].launched
          PROVE  attempt'[KeyOf(i)] = attempt[KeyOf(i)]
      BY <1>2, <1>4, <3>1
    <3>2. \A i \in Job \ {j} : job[i].reply \in ReviewVerdicts => job[i].launched
      BY DEF IInv, Answers
    <3>3. ASSUME NEW i \in Job \ {j}
          PROVE  /\ job'[i].reply \in ReviewVerdicts =>
                      /\ job'[i].launched
                      /\ attempt'[KeyOf(i)'].verdict = job'[i].reply
                      /\ attempt'[KeyOf(i)'].status \in
                           {"result_validated", "transition_applied"}
                 /\ job'[i].launched /\ job'[i].reply \in Failures =>
                      attempt'[KeyOf(i)'].status \in {"running", "failed"}
      BY <1>3, <3>1, <3>2 DEF IInv, Answers
    <3>4. /\ job'[j].reply \in ReviewVerdicts =>
               /\ job'[j].launched
               /\ attempt'[KeyOf(j)'].verdict = job'[j].reply
               /\ attempt'[KeyOf(j)'].status = "result_validated"
          /\ job'[j].reply \in Failures => attempt'[KeyOf(j)'].status = "failed"
      BY <1>1, <1>2, <1>3, <2>1
    <3>5. QED
      BY <3>3, <3>4 DEF Answers
<1>9. Consumed'
  BY <1>2 DEF IInv, Consumed
<1>10. Manned'
  <2>1. ASSUME NEW x \in DOMAIN attempt \ {k}, attempt[x].status = "running"
        PROVE  \E i \in Job : LeftRunning(i, x)'
    <3>1. PICK i \in Job : LeftRunning(i, x)
      BY <2>1 DEF IInv, Manned
    <3>2. i # j
      BY <2>1, <3>1 DEF LeftRunning, k
    <3>3. LeftRunning(i, x)'
      BY <1>3, <3>1, <3>2 DEF LeftRunning
    <3>4. QED
      BY <3>3
  <2>2. attempt'[k].status # "running"
    BY <1>2
  <2>3. QED
    BY <1>2, <2>1, <2>2 DEF Manned
<1>11. QED
  BY <1>3, <1>6, <1>7, <1>8, <1>9, <1>10 DEF IInv

LEMMA ApplyAttemptKeeps ==
  ASSUME IInv, NEW p, NEW k \in DOMAIN attempt, NEW t, NEW ack,
         ApplyAttempt(p, k, t, ack)
  PROVE  IInv'
<1> DEFINE op == After(SealOps(p))
<1>1. /\ attempt[k].status = "result_validated" /\ attempt[k].verdict = "accept"
      /\ Sets(k, "transition_applied", "accept", op)
      /\ job' = job
  BY DEF ApplyAttempt, MarkApplied, Usable
<1> HIDE DEF op
<1>2. /\ DOMAIN attempt' = DOMAIN attempt
      /\ \A x \in DOMAIN attempt \ {k} : attempt'[x] = attempt[x]
      /\ attempt'[k].status = "transition_applied" /\ attempt'[k].verdict = "accept"
  BY <1>1, SetsFrame
<1>3. \A i \in Job : KeyOf(i)' = KeyOf(i)
  BY <1>1 DEF KeyOf
<1>4. Launches'
  BY <1>1, <1>2, <1>3 DEF IInv, Launches, HasStatus
<1>5. Alone'
  BY <1>1, <1>3 DEF IInv, Alone
<1>6. Answers'
  <2>1. \A i \in Job : job[i].launched => KeyOf(i) \in DOMAIN attempt
    BY DEF IInv, Launches
  <2>2. QED
    BY <1>1, <1>2, <1>3, <2>1 DEF IInv, Answers
<1>7. Consumed'
  BY <1>2 DEF IInv, Consumed
<1>8. Manned'
  <2>1. ASSUME NEW x, NEW i \in Job, LeftRunning(i, x) PROVE LeftRunning(i, x)'
    BY <1>1, <1>3, <2>1 DEF LeftRunning
  <2>2. QED
    BY <1>2, <2>1 DEF IInv, Manned
<1>9. QED
  BY <1>1, <1>4, <1>5, <1>6, <1>7, <1>8 DEF IInv

LEMMA StepIInv == IInv /\ [ReviewNext]_reviewVars => IInv'
<1> SUFFICES ASSUME IInv, [ReviewNext]_reviewVars PROVE IInv'
  OBVIOUS
<1>1. CASE attempt' = attempt /\ job' = job
  <2>1. \A j \in Job : KeyOf(j)' = KeyOf(j)
    BY <1>1 DEF KeyOf
  <2>2. QED
    BY <1>1, <2>1 DEF IInv, Launches, Alone, Answers, Consumed, Manned, LeftRunning,
                      HasStatus
<1>2. ASSUME NEW j \in Job, JobNext(j) PROVE IInv'
  <2>1. CASE ReadItem(j)
    BY <2>1, ReadItemKeeps
  <2>2. CASE PrepareRefuses(j)
    <3>1. job[j].pc = "read" /\ attempt' = attempt
          /\ Goes(j, "replied", job[j].launched, "refused")
      BY <2>2 DEF PrepareRefuses, Replies
    <3>2. QED
      BY <3>1, EndsWithoutVerdict DEF Failures
  <2>3. CASE PlanAttempt(j)
    BY <2>3, PlanAttemptKeeps
  <2>4. CASE MarkRunning(j)
    BY <2>4, MarkRunningKeeps
  <2>5. ASSUME NEW verdict \in ReviewVerdicts, ReviewSucceeds(j, verdict) PROVE IInv'
    BY <2>5, FinishKeeps DEF ReviewSucceeds, MarkResultValidated
  <2>6. CASE ReviewFails(j)
    BY <2>6, FinishKeeps DEF ReviewFails, MarkFailed
  <2>7. CASE JobRaises(j)
    <3>1. job[j].pc \in {"planned", "running"} /\ attempt' = attempt
          /\ Goes(j, "replied", job[j].launched, "job_failed")
      BY <2>7 DEF JobRaises, Replies
    <3>2. QED
      BY <3>1, EndsWithoutVerdict DEF Failures
  <2>8. CASE JobDies(j)
    <3>1. job[j].pc \in {"new", "read", "planned", "running"} /\ attempt' = attempt
          /\ Goes(j, "dead", job[j].launched, None)
      BY <2>8 DEF JobDies
    <3>2. QED
      BY <3>1, EndsWithoutVerdict
  <2>9. CASE JobRefuses(j)
    <3>1. job[j].pc \in {"new", "read"} /\ attempt' = attempt
          /\ Goes(j, "replied", job[j].launched, "refused")
      BY <2>9 DEF JobRefuses, Replies
    <3>2. QED
      BY <3>1, EndsWithoutVerdict DEF Failures
  <2>10. QED
    BY <1>2, <2>1, <2>2, <2>3, <2>4, <2>5, <2>6, <2>7, <2>8, <2>9
       DEF JobNext, EvaluateAndRecord
<1>3. ASSUME NEW p \in Proc, NEW k \in DOMAIN attempt, NEW t \in Positive, NEW ack \in BOOLEAN,
             ApplyAttempt(p, k, t, ack)
      PROVE  IInv'
  BY <1>3, ApplyAttemptKeeps
<1>4. QED
  BY <1>1, <1>2, <1>3 DEF ReviewNext, reviewVars

THEOREM JournalInvariant == ReviewSpec => []IInv
<1>1. QED
  BY InitIInv, StepIInv, PTL DEF ReviewSpec

-----------------------------------------------------------------------------
(* An attempt has one reviewer: review_delegation_attempts' compare-and-   *)
(* set admits one launch, whatever jobs race on the key or die.            *)
THEOREM ReviewedOnce == ReviewSpec => []OneReviewer
<1>1. IInv => OneReviewer
  BY DEF IInv, Launches, Alone, Manned, OneReviewer
<1>2. QED
  BY <1>1, JournalInvariant, PTL

(* The reply a requester got and the journal the gate reads never differ.  *)
THEOREM ReplyIsTrue == ReviewSpec => []ReplyMatchesJournal
<1>1. IInv => ReplyMatchesJournal
  BY DEF IInv, Launches, Answers, ReplyMatchesJournal, Usable
<1>2. QED
  BY <1>1, JournalInvariant, PTL

(* No step writes a row that names the op it approved. *)
LEMMA KeptStep ==
  ASSUME IInv, [ReviewNext]_reviewVars, NEW k \in DOMAIN attempt, attempt[k].op # 0
  PROVE  attempt'[k] = attempt[k]
<1>1. attempt[k].status = "transition_applied"
  BY DEF IInv, Consumed
<1>2. CASE attempt' = attempt
  BY <1>2
<1>3. ASSUME NEW j \in Job, JobNext(j) PROVE attempt'[k] = attempt[k]
  <2>1. CASE PlanAttempt(j)
    BY <2>1, InsertsFrame DEF PlanAttempt
  <2>2. ASSUME NEW x, NEW status, NEW verdict, NEW op,
               HasStatus(x, "planned") \/ HasStatus(x, "running"),
               Sets(x, status, verdict, op)
        PROVE  attempt'[k] = attempt[k]
    <3>1. x \in DOMAIN attempt /\ x # k
      BY <1>1, <2>2 DEF HasStatus
    <3>2. QED
      BY <2>2, <3>1, SetsFrame
  <2>3. CASE MarkRunning(j)
    BY <2>2, <2>3 DEF MarkRunning
  <2>4. ASSUME NEW verdict, ReviewSucceeds(j, verdict) PROVE attempt'[k] = attempt[k]
    BY <2>2, <2>4 DEF ReviewSucceeds, MarkResultValidated
  <2>5. CASE ReviewFails(j)
    BY <2>2, <2>5 DEF ReviewFails, MarkFailed
  <2>6. CASE attempt' = attempt
    BY <2>6
  <2>7. QED
    BY <1>3, <2>1, <2>3, <2>4, <2>5, <2>6
       DEF JobNext, EvaluateAndRecord, JobRefuses, ReadItem, PrepareRefuses, JobRaises, JobDies
<1>4. ASSUME NEW p, NEW x \in DOMAIN attempt, NEW t, NEW ack, ApplyAttempt(p, x, t, ack)
      PROVE  attempt'[k] = attempt[k]
  <2>1. x # k /\ Sets(x, "transition_applied", "accept", After(SealOps(p)))
    BY <1>1, <1>4 DEF ApplyAttempt, MarkApplied, Usable
  <2>2. QED
    BY <2>1, SetsFrame
<1>5. QED
  BY <1>2, <1>3, <1>4 DEF ReviewNext, reviewVars

(* An attempt that was applied is never written again, so it approves      *)
(* once, whatever the item goes through afterwards.                        *)
THEOREM UsedOnce == ReviewSpec => AppliedOnce
<1>1. IInv /\ [ReviewNext]_reviewVars =>
        [\A k \in DOMAIN attempt : attempt[k].op # 0 => attempt'[k] = attempt[k]]_reviewVars
  BY KeptStep
<1>2. QED
  BY <1>1, JournalInvariant, PTL DEF ReviewSpec, AppliedOnce

-----------------------------------------------------------------------------
(* What the approval stands on.  A watermark marks the prompt it was read  *)
(* with: while no content edit is logged above it, the item still shows    *)
(* that prompt, and the seal a command writes first cannot change that,    *)
(* since the row is what the log folds to or a seal restates the row.      *)
Mark(prompt, n) ==
  /\ n \in 0..seq
  /\ row # Absent /\ (\A o \in ContentEdits : o.lamport <= n) =>
       /\ Shown[row.content] = prompt
       /\ row = Fold(log) \/ row.status = "in_review"

(* What the jobs and the unspent attempts remember is marked. *)
Remembered ==
  \A j \in Job : job[j].pc \in {"read", "planned"} /\ job[j].status = "in_review" =>
    Mark(job[j].prompt, job[j].lamport)

Unspent == \A k \in DOMAIN attempt : attempt[k].op = 0 => Mark(k[2], attempt[k].lamport)

(* The attempt's op is in the log's past, which shows what was reviewed.   *)
Past(k) == {o \in log : o.lamport < attempt[k].op}

Spent ==
  \A k \in DOMAIN attempt : attempt[k].op # 0 =>
    attempt[k].op \in 1..seq /\ Shown[FoldState(Past(k)).content] = k[2]

SeenInv == ItemOK /\ Remembered /\ Unspent /\ Spent /\ ReviewerDidNoWork

(* How the log grows: later ops take later numbers. *)
Grows ==
  /\ log \subseteq log' /\ seq' \in Nat /\ seq <= seq'
  /\ \A o \in log' \ log : o.lamport \in (seq + 1)..seq'

(* What a mark needs of a step: the row goes on, or to the log's fold, and *)
(* its content changes by a content edit only.                             *)
Follows ==
  /\ row' \in {row, Absent, Fold(log')}
  /\ row = Fold(log) => row' = Fold(log')
  /\ ContentIsEdited \/ WaivesDrifted

LEMMA PlacedGrows ==
  ASSUME LogOK, NEW p, NEW ops, Placed(p, ops),
         log' = log \cup ops, seq' = seq + Cardinality(ops)
  PROVE  Grows
BY DEF Placed, LogOK, Grows

LEMMA StepMoves ==
  ASSUME ItemOK, [Next]_vars
  PROVE  Grows /\ Follows
<1>1. LogOK
  BY DEF ItemOK
<1>2. UNCHANGED <<log, seq>> \/ \E p \in Proc : \E ops : Appends(p, ops)
  BY <1>1, StepAppends
<1>3. Grows
  BY <1>1, <1>2, PlacedGrows DEF Appends, Grows, LogOK
<1>4. QED
  BY <1>3, RowStep DEF Follows, Owed

LEMMA EditsAreEdits ==
  ASSUME NEW o, o.verdict = None,
         EditsContent(o) \/ (o.type = "create" /\ o.content # NoContent)
  PROVE  o.type \in ContentOps /\ ~IsBookkeeping(o)
BY DEF EditsContent, ContentOps, IsBookkeeping

LEMMA MarkMoves ==
  ASSUME ItemOK, Grows, Follows, NEW prompt, NEW n, Mark(prompt, n)
  PROVE  Mark(prompt, n)'
<1>1. n \in 0..seq'
  BY DEF Mark, Grows, ItemOK, LogOK
<1>2. SUFFICES ASSUME row' # Absent, \A o \in ContentEdits' : o.lamport <= n
               PROVE  Shown[row'.content] = prompt
                      /\ (row' = Fold(log') \/ row'.status = "in_review")
  BY <1>1 DEF Mark
<1>3. ContentEdits \subseteq ContentEdits'
  BY DEF ContentEdits, Grows
<1>4. ASSUME NEW o \in NewOps PROVE ~(o.type \in ContentOps /\ ~IsBookkeeping(o))
  <2>1. ~(o.lamport <= n) /\ o \in log'
    BY <1>4 DEF NewOps, Grows, Mark, ItemOK, LogOK
  <2>2. o \notin ContentEdits'
    BY <1>2, <2>1, <1>1
  <2>3. QED
    BY <2>1, <2>2 DEF ContentEdits
<1>5. row # Absent => /\ Shown[row.content] = prompt
                      /\ row = Fold(log) \/ row.status = "in_review"
  BY <1>2, <1>3 DEF Mark
<1>6. ~WaivesDrifted
  BY <1>5 DEF WaivesDrifted, Drifted, IsTerminal
<1>7. row # Absent /\ row'.content = row.content
  BY <1>2, <1>4, <1>6, EditsAreEdits DEF Follows, ContentIsEdited
<1>8. QED
  BY <1>2, <1>5, <1>7 DEF Follows

LEMMA MarkLowers ==
  ASSUME NEW prompt, NEW n, Mark(prompt, n), ItemOK, NEW m \in Nat, m <= n
  PROVE  Mark(prompt, m)
BY DEF Mark, ContentEdits, ItemOK, LogOK

(* The logs before the op that spent an attempt do not change any more.    *)
LEMMA PastStays ==
  ASSUME ItemOK, Grows, NEW n \in 1..seq
  PROVE  {o \in log' : o.lamport < n} = {o \in log : o.lamport < n}
BY DEF ItemOK, LogOK, Grows

(* One attempt's part of ReviewerDidNoWork. *)
Idle(ask, n) ==
  \A o \in log :
    o.lamport = n /\ o.approval \in Independent =>
      \A w \in log :
        /\ w.lamport < o.lamport /\ IsWork(w)
        /\ ~\E r \in log : /\ r.type = "set_status" /\ r.verdict \in Resets
                           /\ w.lamport < r.lamport /\ r.lamport < o.lamport
        => w.lineage # Reviewer[ask]

LEMMA IdleStays ==
  ASSUME ItemOK, Grows, NEW ask, NEW n \in 0..seq, Idle(ask, n)
  PROVE  Idle(ask, n)'
<1>1. \A o \in log' : o.lamport <= n => o \in log
  BY DEF ItemOK, LogOK, Grows
<1>2. SUFFICES ASSUME NEW o \in log', o.lamport = n, o.approval \in Independent,
                      NEW w \in log', w.lamport < o.lamport, IsWork(w),
                      ~\E r \in log' : /\ r.type = "set_status" /\ r.verdict \in Resets
                                       /\ w.lamport < r.lamport /\ r.lamport < o.lamport
               PROVE  w.lineage # Reviewer[ask]
  BY DEF Idle
<1>3. log \subseteq log'
  BY DEF Grows
<1>4. o \in log
  BY <1>1, <1>2
<1>5. o.lamport \in Nat /\ w.lamport \in Nat
  BY <1>2, <1>4 DEF ItemOK, LogOK, Grows
<1>6. w \in log
  BY <1>1, <1>2, <1>5
<1>7. QED
  BY <1>2, <1>3, <1>4, <1>6 DEF Idle

-----------------------------------------------------------------------------
(* The steps of the jobs, which leave the item alone. *)

LEMMA IdleSays ==
  ASSUME ItemOK
  PROVE  /\ ReviewerDidNoWork <=> \A k \in DOMAIN attempt : Idle(k[1], attempt[k].op)
         /\ \A ask : Idle(ask, 0)
<1>1. ReviewerDidNoWork <=> \A k \in DOMAIN attempt : Idle(k[1], attempt[k].op)
  BY DEF ReviewerDidNoWork, Idle
<1>2. \A ask : Idle(ask, 0)
  BY DEF Idle, ItemOK, LogOK
<1>3. QED
  BY <1>1, <1>2

LEMMA JournalMoves ==
  ASSUME SeenInv, UNCHANGED vars,
         \A k \in DOMAIN attempt' :
           /\ attempt'[k].op # 0 => k \in DOMAIN attempt /\ attempt'[k].op = attempt[k].op
           /\ attempt'[k].op = 0 => Mark(k[2], attempt'[k].lamport),
         \A i \in Job :
           job'[i].pc \in {"read", "planned"} /\ job'[i].status = "in_review" =>
             Mark(job'[i].prompt, job'[i].lamport)
  PROVE  SeenInv'
<1>1. row' = row /\ log' = log /\ seq' = seq
  BY DEF vars
<1>2. ItemOK'
  BY <1>1 DEF SeenInv, ItemOK, LogOK, IsRow
<1>3. Remembered'
  BY <1>1 DEF Remembered, Mark, ContentEdits
<1>4. Unspent'
  BY <1>1 DEF Unspent, Mark, ContentEdits
<1>5. Spent'
  <2> SUFFICES ASSUME NEW k \in DOMAIN attempt', attempt'[k].op # 0
               PROVE  /\ attempt'[k].op \in 1..seq'
                      /\ Shown[FoldState(Past(k)').content] = k[2]
    BY DEF Spent
  <2>1. k \in DOMAIN attempt /\ attempt'[k].op = attempt[k].op
    OBVIOUS
  <2>2. Past(k)' = Past(k)
    BY <1>1, <2>1 DEF Past
  <2>3. attempt[k].op \in 1..seq /\ Shown[FoldState(Past(k)).content] = k[2]
    BY <2>1 DEF SeenInv, Spent
  <2>4. QED
    BY <1>1, <2>1, <2>2, <2>3
<1>6. ReviewerDidNoWork'
  <2>1. \A ask : Idle(ask, 0)
    BY IdleSays DEF SeenInv
  <2>2. \A k \in DOMAIN attempt : Idle(k[1], attempt[k].op)
    BY IdleSays DEF SeenInv
  <2>3. ASSUME NEW k \in DOMAIN attempt' PROVE Idle(k[1], attempt'[k].op)
    BY <2>1, <2>2
  <2>4. QED
    BY <1>1, <2>3 DEF ReviewerDidNoWork, Idle
<1>7. QED
  BY <1>2, <1>3, <1>4, <1>5, <1>6 DEF SeenInv

(* A job that ends, and leaves the rows alone. *)
LEMMA EndsSeen ==
  ASSUME IInv, SeenInv, UNCHANGED <<vars, attempt>>, NEW j \in Job,
         NEW pc, pc \notin {"read", "planned"}, NEW launched, NEW reply,
         Goes(j, pc, launched, reply)
  PROVE  SeenInv'
<1>1. /\ \A i \in Job \ {j} : job'[i] = job[i]
      /\ job'[j].pc = pc
  BY GoesFrame DEF IInv
<1>2. QED
  BY <1>1, JournalMoves DEF SeenInv, Remembered, Unspent

(* A job that owns a row that is not spent writes it. *)
LEMMA OwnsSeen ==
  ASSUME IInv, SeenInv, UNCHANGED vars, NEW j \in Job, NEW held \in {"planned", "running"},
         HasStatus(KeyOf(j), held), NEW status, NEW verdict,
         Sets(KeyOf(j), status, verdict, 0),
         NEW pc, pc \notin {"read", "planned"}, NEW launched, NEW reply,
         Goes(j, pc, launched, reply)
  PROVE  SeenInv'
<1>1. /\ \A i \in Job \ {j} : job'[i] = job[i]
      /\ job'[j].pc = pc
  BY GoesFrame DEF IInv
<1>2. PICK k \in DOMAIN attempt : k = KeyOf(j) /\ attempt[k].status = held
  BY DEF HasStatus
<1>3. attempt[k].op = 0
  BY <1>2 DEF IInv, Consumed
<1>4. /\ DOMAIN attempt' = DOMAIN attempt
      /\ \A x \in DOMAIN attempt \ {k} : attempt'[x] = attempt[x]
      /\ attempt'[k].op = 0 /\ attempt'[k].lamport = attempt[k].lamport
  BY <1>2 DEF Sets
<1>5. \A x \in DOMAIN attempt' :
        /\ attempt'[x].op # 0 => x \in DOMAIN attempt /\ attempt'[x].op = attempt[x].op
        /\ attempt'[x].op = 0 => Mark(x[2], attempt'[x].lamport)
  BY <1>3, <1>4 DEF SeenInv, Unspent
<1>6. QED
  BY <1>1, <1>5, JournalMoves DEF SeenInv, Remembered

LEMMA ReadItemSeen ==
  ASSUME IInv, SeenInv, NEW j \in Job, ReadItem(j)
  PROVE  SeenInv'
<1>1. CASE row = Absent \/ log = {}
  BY <1>1, EndsSeen DEF ReadItem, Replies
<1>2. CASE ~(row = Absent \/ log = {})
  <2>1. /\ \A i \in Job \ {j} : job'[i] = job[i]
        /\ job'[j].prompt = Shown[row.content] /\ job'[j].lamport = MaxLamport(log)
        /\ job'[j].status = row.status
        /\ UNCHANGED <<vars, attempt>>
    BY <1>2 DEF ReadItem, IInv
  <2>2. MaxLamport(log) \in 0..seq /\ \A o \in log : o.lamport <= MaxLamport(log)
    BY MaxBounds DEF SeenInv, ItemOK, LogOK, Bounded
  <2>3. row.status = "in_review" => Mark(Shown[row.content], MaxLamport(log))
    BY <2>2 DEF Mark
  <2>4. QED
    BY <2>1, <2>3, JournalMoves DEF SeenInv, Remembered, Unspent
<1>3. QED
  BY <1>1, <1>2

LEMMA PlanAttemptSeen ==
  ASSUME IInv, SeenInv, NEW j \in Job, PlanAttempt(j)
  PROVE  SeenInv'
<1>1. PICK k, watermark :
        k = KeyOf(j) /\ watermark = Lower(job[j].lamport, MaxLamport(log))
        /\ Inserts(k, watermark)
  BY DEF PlanAttempt
<1>2. job[j].pc = "read" /\ job[j].status = "in_review" /\ UNCHANGED vars
  BY DEF PlanAttempt
<1>3. Mark(job[j].prompt, job[j].lamport) /\ k[2] = job[j].prompt
  BY <1>1, <1>2 DEF SeenInv, Remembered, KeyOf
<1>4. Mark(k[2], watermark)
  <2>1. MaxLamport(log) \in 0..seq /\ job[j].lamport \in 0..seq /\ seq \in Nat
    BY <1>3, MaxBounds DEF SeenInv, ItemOK, LogOK, Bounded, Mark
  <2>2. watermark \in Nat /\ watermark <= job[j].lamport
    BY <1>1, <2>1 DEF Lower
  <2>3. QED
    BY <1>3, <2>2, MarkLowers DEF SeenInv
<1>5. /\ DOMAIN attempt' = DOMAIN attempt \cup {k}
      /\ \A x \in DOMAIN attempt : attempt'[x] = attempt[x]
      /\ k \notin DOMAIN attempt => attempt'[k].op = 0 /\ attempt'[k].lamport = watermark
  BY <1>1 DEF Inserts
<1>6. \A x \in DOMAIN attempt' :
        /\ attempt'[x].op # 0 => x \in DOMAIN attempt /\ attempt'[x].op = attempt[x].op
        /\ attempt'[x].op = 0 => Mark(x[2], attempt'[x].lamport)
  BY <1>4, <1>5 DEF SeenInv, Unspent
<1>7. /\ \A i \in Job \ {j} : job'[i] = job[i]
      /\ job'[j].prompt = job[j].prompt /\ job'[j].lamport = job[j].lamport
  BY DEF PlanAttempt, Goes, Replies, IInv
<1>8. QED
  BY <1>2, <1>3, <1>6, <1>7, JournalMoves DEF SeenInv, Remembered

LEMMA JobSeen ==
  ASSUME IInv, SeenInv, NEW j \in Job, JobNext(j)
  PROVE  SeenInv'
<1>1. CASE ReadItem(j)
  BY <1>1, ReadItemSeen
<1>2. CASE PlanAttempt(j)
  BY <1>2, PlanAttemptSeen
<1>3. CASE JobRefuses(j) \/ PrepareRefuses(j) \/ JobRaises(j) \/ JobDies(j)
  BY <1>3, EndsSeen DEF JobRefuses, PrepareRefuses, JobRaises, JobDies, Replies
<1>4. CASE MarkRunning(j) /\ HasStatus(KeyOf(j), "planned")
  BY <1>4, OwnsSeen DEF MarkRunning
<1>5. CASE MarkRunning(j) /\ ~HasStatus(KeyOf(j), "planned")
  BY <1>5, EndsSeen DEF MarkRunning, Replies
<1>6. ASSUME NEW verdict \in ReviewVerdicts, ReviewSucceeds(j, verdict) PROVE SeenInv'
  BY <1>6, OwnsSeen DEF ReviewSucceeds, MarkResultValidated, Replies
<1>7. CASE ReviewFails(j)
  BY <1>7, OwnsSeen DEF ReviewFails, MarkFailed, Replies
<1>8. QED
  BY <1>1, <1>2, <1>3, <1>4, <1>5, <1>6, <1>7 DEF JobNext, EvaluateAndRecord

-----------------------------------------------------------------------------
(* The steps of the item. *)

(* A step that grows the log keeps what the jobs remember of the item, and *)
(* the attempts it does not spend.                                         *)
LEMMA RememberedMoves ==
  ASSUME SeenInv, Grows, Follows, job' = job
  PROVE  Remembered'
<1>1. SUFFICES ASSUME NEW j \in Job, job[j].pc \in {"read", "planned"},
                      job[j].status = "in_review"
               PROVE  Mark(job[j].prompt, job[j].lamport)'
  BY DEF Remembered
<1>2. PICK prompt, n : prompt = job[j].prompt /\ n = job[j].lamport
  OBVIOUS
<1>3. Mark(prompt, n)
  BY <1>1, <1>2 DEF SeenInv, Remembered
<1>4. Mark(prompt, n)'
  BY <1>3, MarkMoves DEF SeenInv
<1>5. QED
  BY <1>2, <1>4 DEF Mark

(* What the invariant says of one attempt. *)
Journal(k) ==
  /\ attempt[k].op = 0 => Mark(k[2], attempt[k].lamport)
  /\ attempt[k].op # 0 =>
       attempt[k].op \in 1..seq /\ Shown[FoldState(Past(k)).content] = k[2]
  /\ Idle(k[1], attempt[k].op)

LEMMA JournalSays ==
  ASSUME ItemOK
  PROVE  (\A k \in DOMAIN attempt : Journal(k)) <=> Unspent /\ Spent /\ ReviewerDidNoWork
BY IdleSays DEF Journal, Unspent, Spent

LEMMA AttemptMoves ==
  ASSUME ItemOK, Grows, Follows,
         NEW k \in DOMAIN attempt, Journal(k), attempt'[k] = attempt[k]
  PROVE  Journal(k)'
<1>1. PICK n, op : n = attempt[k].lamport /\ op = attempt[k].op
  OBVIOUS
<1>2. op = 0 => Mark(k[2], n)'
  BY <1>1, MarkMoves DEF Journal
<1>3. ASSUME op # 0
      PROVE  op \in 1..seq' /\ Shown[FoldState(Past(k)').content] = k[2]
  <2>1. op \in 1..seq /\ Shown[FoldState(Past(k)).content] = k[2]
    BY <1>1, <1>3 DEF Journal
  <2>2. Past(k)' = Past(k)
    BY <1>1, <2>1, PastStays DEF Past
  <2>3. QED
    BY <2>1, <2>2 DEF Grows, ItemOK, LogOK
<1>4. Idle(k[1], op)'
  <2>1. op \in 0..seq /\ Idle(k[1], op)
    BY <1>1 DEF Journal, ItemOK, LogOK
  <2>2. QED
    BY <2>1, IdleStays
<1>5. (attempt[k].op = op /\ attempt[k].lamport = n)'
  BY <1>1
<1>6. QED
  BY <1>2, <1>3, <1>4, <1>5 DEF Journal, Mark, Idle

LEMMA ItemSeen ==
  ASSUME SeenInv, [Next]_vars, UNCHANGED <<attempt, job>>
  PROVE  SeenInv'
<1>1. ItemOK /\ ItemOK'
  BY ItemOKStep DEF SeenInv
<1>2. Grows /\ Follows
  BY <1>1, StepMoves
<1>3. Remembered'
  BY <1>2, RememberedMoves
<1>4. \A k \in DOMAIN attempt : Journal(k)
  BY <1>1, JournalSays DEF SeenInv
<1>5. ASSUME NEW k \in DOMAIN attempt PROVE Journal(k)'
  BY <1>1, <1>2, <1>4, AttemptMoves
<1>6. (\A k \in DOMAIN attempt : Journal(k))'
  BY <1>5
<1>7. (Unspent /\ Spent /\ ReviewerDidNoWork)'
  BY <1>6 DEF Journal, Unspent, Spent, ReviewerDidNoWork, Idle
<1>8. QED
  BY <1>1, <1>3, <1>7 DEF SeenInv

(* What a verdict writes follows the row. *)
LEMMA VerdictMoves ==
  ASSUME ItemOK, NEW p \in Proc, NEW t \in Positive, NEW a, NEW x, NEW y,
         row # Absent, VerdictOps(p, t, a, x, y)
  PROVE  /\ ItemOK' /\ Grows /\ Follows
         /\ x.lamport \in (seq + 1)..seq'
         /\ {o \in log' : o.lamport < x.lamport} = log \cup SealOps(p)
         /\ \A o \in log' : o.lamport = x.lamport => o = x
<1>1. /\ Stamped(p, x) /\ x.lamport = After(SealOps(p))
      /\ Stamped(p, y) /\ y.lamport = After(SealOps(p)) + 1
      /\ Write(SealOps(p) \cup {x} \cup {y})
      /\ row' = RowAfter(RowAfter(row, x), y)
      /\ y.type = "set_field" /\ y.content = Keep /\ x.type = "set_status"
  BY DEF VerdictOps
<1>2. Placed(p, SealOps(p))
  BY SealPlaced DEF ItemOK, LogOK
<1>3. /\ Placed(p, SealOps(p) \cup {x})
      /\ Cardinality(SealOps(p) \cup {x}) = Cardinality(SealOps(p)) + 1
  BY <1>1, <1>2, PlacedAdd DEF ItemOK, LogOK, Stamped
<1>4. y.lamport = After(SealOps(p) \cup {x})
  BY <1>1, <1>2, <1>3 DEF After, Placed, ItemOK, LogOK
<1>5. /\ Placed(p, SealOps(p) \cup {x} \cup {y})
      /\ Cardinality(SealOps(p) \cup {x} \cup {y}) = Cardinality(SealOps(p)) + 2
  <2>1. /\ Placed(p, SealOps(p) \cup {x} \cup {y})
        /\ Cardinality(SealOps(p) \cup {x} \cup {y}) = Cardinality(SealOps(p) \cup {x}) + 1
    BY <1>1, <1>3, <1>4, PlacedAdd DEF ItemOK, LogOK, Stamped
  <2>2. QED
    BY <1>2, <1>3, <2>1 DEF Placed
<1>6. LogOK' /\ Grows
  BY <1>1, <1>5, PlacedLogOK, PlacedGrows DEF Write, ItemOK
<1>7. IsRow(row') /\ row'.content = row.content
  <2>1. IsRow(RowAfter(row, x)) /\ RowAfter(row, x).content = row.content
    BY <1>1, RowFields DEF ItemOK
  <2>2. QED
    BY <1>1, <2>1, RowFields
<1>8. Follows
  BY <1>1, <1>7 DEF Follows, ContentIsEdited, Write
<1>9. x.lamport \in (seq + 1)..seq'
  BY <1>1, <1>2, <1>5 DEF After, Write, Placed, ItemOK, LogOK
<1>10. {o \in log' : o.lamport < x.lamport} = log \cup SealOps(p)
  <2>1. log' = log \cup SealOps(p) \cup {x} \cup {y}
    BY <1>1 DEF Write
  <2>2. \A o \in log \cup SealOps(p) : o.lamport < x.lamport
    BY <1>1, <1>2 DEF After, Placed, ItemOK, LogOK
  <2>3. ~(y.lamport < x.lamport) /\ ~(x.lamport < x.lamport)
    BY <1>1, <1>2 DEF After, Placed, ItemOK, LogOK
  <2>4. QED
    BY <2>1, <2>2, <2>3
<1>11. \A o \in log' : o.lamport = x.lamport => o = x
  BY <1>1, <1>6 DEF LogOK, Write
<1>12. QED
  BY <1>6, <1>7, <1>8, <1>9, <1>10, <1>11 DEF ItemOK

(* The model that stands for the reviewer did none of the work. *)
LEMMA ModelIsIdle ==
  ASSUME ItemOK, NEW p, NEW ask, NEW x,
         x.approval \in Independent => x.approval \in CheckModel(Reviewer[ask], None),
         {o \in log' : o.lamport < x.lamport} = log \cup SealOps(p),
         \A o \in log' : o.lamport = x.lamport => o = x,
         x.lamport \in (seq + 1)..seq', ItemOK', Grows
  PROVE  Idle(ask, x.lamport)'
<1>1. SUFFICES ASSUME x.approval \in Independent,
                      NEW w \in log', w.lamport < x.lamport, IsWork(w),
                      ~\E r \in log' : /\ r.type = "set_status" /\ r.verdict \in Resets
                                       /\ w.lamport < r.lamport /\ r.lamport < x.lamport
               PROVE  w.lineage # Reviewer[ask]
  BY DEF Idle
<1>2. w \in log
  <2>1. w \in log \cup SealOps(p)
    BY <1>1
  <2>2. w \notin SealOps(p)
    BY <1>1, SealPlaced DEF Silent, ItemOK, LogOK
  <2>3. QED
    BY <2>1, <2>2
<1>3. \A r \in log : r.lamport < x.lamport /\ r \in log'
  BY DEF ItemOK, LogOK, Grows
<1>4. w \in WorkOps(log)
  BY <1>1, <1>2, <1>3, WorkIsCounted DEF ItemOK
<1>5. CheckModel(Reviewer[ask], None) # {}
  BY <1>1
<1>6. QED
  BY <1>4, <1>5 DEF CheckModel

LEMMA ApplySeen ==
  ASSUME IInv, SeenInv, NEW p \in Proc, NEW k \in DOMAIN attempt, NEW t \in Positive,
         NEW ack, ApplyAttempt(p, k, t, ack)
  PROVE  SeenInv'
<1>1. PICK approvals : approvals = AttemptEvidence(k, ack) /\ RecordVerdict(p, t, approvals)
  BY DEF ApplyAttempt
<1>2. row # Absent /\ ItemOK
  BY <1>1 DEF RecordVerdict, SeenInv
<1>3. PICK a \in approvals : \E x, y : VerdictOps(p, t, a, x, y)
  BY <1>1, <1>2, VerdictWrites
<1>4. PICK x, y : VerdictOps(p, t, a, x, y)
  BY <1>3
<1>5. /\ ItemOK' /\ Grows /\ Follows
      /\ x.lamport \in (seq + 1)..seq'
      /\ {o \in log' : o.lamport < x.lamport} = log \cup SealOps(p)
      /\ \A o \in log' : o.lamport = x.lamport => o = x
  BY <1>2, <1>4, VerdictMoves
<1>6. x.approval = a /\ x.lamport = After(SealOps(p))
  BY <1>4 DEF VerdictOps
<1>7. /\ DOMAIN attempt' = DOMAIN attempt /\ job' = job
      /\ \A i \in DOMAIN attempt \ {k} : attempt'[i] = attempt[i]
      /\ attempt'[k].op = x.lamport
  BY <1>6 DEF ApplyAttempt, MarkApplied, Sets
<1>8. attempt[k].op = 0 /\ (\A o \in ContentEdits : o.lamport <= attempt[k].lamport)
  BY DEF ApplyAttempt, MarkApplied, Usable, IInv, Consumed
<1>9. Shown[row.content] = k[2]
  BY <1>2, <1>8 DEF SeenInv, Unspent, Mark
<1>10. Shown[FoldState(log \cup SealOps(p)).content] = k[2]
  BY <1>2, <1>9, SealFolds DEF Visible
<1>11. Idle(k[1], x.lamport)'
  <2>1. x.approval \in Independent => x.approval \in CheckModel(Reviewer[k[1]], None)
    BY <1>1, <1>3, <1>6 DEF AttemptEvidence, Independent
  <2>2. QED
    BY <1>2, <1>5, <2>1, ModelIsIdle
<1>12. Journal(k)'
  <2>1. Past(k)' = log \cup SealOps(p)
    BY <1>5, <1>7 DEF Past
  <2>2. (attempt[k].op = x.lamport)'
    BY <1>7
  <2>3. x.lamport \in 1..seq' /\ x.lamport # 0
    BY <1>2, <1>5 DEF ItemOK, LogOK, Grows
  <2>4. QED
    BY <1>7, <1>10, <1>11, <2>1, <2>3 DEF Journal, Idle
<1>13. \A i \in DOMAIN attempt : Journal(i)
  BY <1>2, JournalSays DEF SeenInv
<1>14. ASSUME NEW i \in DOMAIN attempt PROVE Journal(i)'
  BY <1>2, <1>5, <1>7, <1>12, <1>13, AttemptMoves
<1>15. (\A i \in DOMAIN attempt : Journal(i))'
  BY <1>7, <1>14
<1>16. (Unspent /\ Spent /\ ReviewerDidNoWork)'
  BY <1>15 DEF Journal, Unspent, Spent, ReviewerDidNoWork, Idle
<1>17. Remembered'
  BY <1>5, <1>7, RememberedMoves
<1>18. QED
  BY <1>5, <1>16, <1>17 DEF SeenInv

-----------------------------------------------------------------------------
LEMMA SeenInit ==
  ASSUME ReviewInit
  PROVE  SeenInv
<1>1. ItemOK
  BY ItemOKInit DEF ReviewInit
<1>2. DOMAIN attempt = {}
  BY DEF ReviewInit
<1>3. \A j \in Job : job[j].pc = "new"
  BY DEF ReviewInit, NewJob
<1>4. QED
  BY <1>1, <1>2, <1>3 DEF SeenInv, Remembered, Unspent, Spent, ReviewerDidNoWork

LEMMA SeenStep ==
  ASSUME IInv, SeenInv, [ReviewNext]_reviewVars
  PROVE  SeenInv'
<1>1. CASE UNCHANGED reviewVars
  BY <1>1, ItemSeen DEF reviewVars
<1>2. CASE Next /\ UNCHANGED <<attempt, job>>
  BY <1>2, ItemSeen
<1>3. ASSUME NEW j \in Job, JobNext(j) PROVE SeenInv'
  BY <1>3, JobSeen
<1>4. ASSUME NEW p \in Proc, NEW k \in DOMAIN attempt, NEW t \in Positive, NEW ack \in BOOLEAN,
             ApplyAttempt(p, k, t, ack)
      PROVE  SeenInv'
  BY <1>4, ApplySeen
<1>5. QED
  BY <1>1, <1>2, <1>3, <1>4 DEF ReviewNext

THEOREM SeenInvariant == ReviewSpec => []SeenInv
<1>1. QED
  BY SeenInit, SeenStep, JournalInvariant, PTL DEF ReviewSpec

(* What an attempt was applied to is what its reviewer was shown, however  *)
(* many edits, bounces, seals and deaths lie between the read of the item  *)
(* and the approval (_native.py attempt_reviewer's watermark).             *)
THEOREM AppliedWhatWasReviewed == ReviewSpec => []AppliedAsReviewed
<1>1. SeenInv => AppliedAsReviewed
  BY DEF SeenInv, Spent, Past, AppliedAsReviewed
<1>2. QED
  BY <1>1, SeenInvariant, PTL

(* The model an approval stands on did none of the work it approved, for   *)
(* whatever process applies it (_independence.py check).                   *)
THEOREM ReviewerIsIndependent == ReviewSpec => []ReviewerDidNoWork
<1>1. SeenInv => ReviewerDidNoWork
  BY DEF SeenInv
<1>2. QED
  BY <1>1, SeenInvariant, PTL

-----------------------------------------------------------------------------
(* What holds of the item's own commands holds beside delegated review:    *)
(* a job only reads the item, and an attempt is applied by a verdict.      *)

LEMMA ItemOrVerdict ==
  ASSUME [ReviewNext]_reviewVars
  PROVE  \/ [Next]_vars
         \/ \E p \in Proc, t \in Positive : \E approvals :
              RecordVerdict(p, t, approvals) /\ None \notin approvals
<1>1. ASSUME NEW p \in Proc, NEW k, NEW t \in Positive, NEW ack, ApplyAttempt(p, k, t, ack)
      PROVE  \E approvals : RecordVerdict(p, t, approvals) /\ None \notin approvals
  <2>1. None \notin AttemptEvidence(k, ack)
    BY DEF AttemptEvidence, CheckModel, None
  <2>2. QED
    BY <1>1, <2>1 DEF ApplyAttempt
<1>2. ASSUME NEW j \in Job, JobNext(j) PROVE UNCHANGED vars
  BY <1>2 DEF JobNext, EvaluateAndRecord, JobRefuses, ReadItem, PrepareRefuses, PlanAttempt,
              MarkRunning, MarkResultValidated, MarkFailed, ReviewSucceeds,
              ReviewFails, JobRaises, JobDies
<1>3. QED
  BY <1>1, <1>2 DEF ReviewNext, reviewVars

LEMMA VerdictKeepsItem ==
  ASSUME ItemOK, NEW p \in Proc, NEW t \in Positive, NEW approvals,
         RecordVerdict(p, t, approvals), None \notin approvals
  PROVE  /\ ItemOK' /\ row' = Fold(log') /\ Owed
         /\ log \subseteq log' /\ \A o \in log' \ log : o.type \notin LeaseOps
<1>1. row # Absent /\ row' = Fold(log') /\ t \in Verdicts
  BY DEF RecordVerdict, Write, Positive, Verdicts
<1>2. PICK a \in approvals : \E x, y : VerdictOps(p, t, a, x, y)
  BY VerdictWrites
<1>3. PICK x, y : VerdictOps(p, t, a, x, y)
  BY <1>2
<1>4. ItemOK'
  BY <1>1, <1>3, VerdictMoves
<1>5. Owed
  BY <1>1, RecordOwes
<1>6. /\ log' = log \cup (SealOps(p) \cup {x} \cup {y})
      /\ x.type = "set_status" /\ y.type = "set_field"
  BY <1>3 DEF VerdictOps, Write
<1>7. \A o \in SealOps(p) : o.type \notin LeaseOps
  BY SealStepped DEF ItemOK
<1>8. QED
  BY <1>1, <1>4, <1>5, <1>6, <1>7 DEF LeaseOps

LEMMA DelegationRowStep ==
  ASSUME ItemOK, [ReviewNext]_reviewVars
  PROVE  ItemOK' /\ (row = Fold(log) => row' = Fold(log')) /\ Owed
BY ItemOrVerdict, ItemOKStep, RowStep, VerdictKeepsItem

(* Delegated reviews and the attempts applied through the gate leave the   *)
(* item's row in step with its log, change nothing they do not write, and  *)
(* exit review with evidence only (_native.py review_transition).          *)
THEOREM DelegationKeepsRow == ReviewSpec => StaysInStep /\ NoSilentRevert /\ NoUngatedExit
<1>1. ReviewInit => ItemOK
  BY ItemOKInit DEF ReviewInit
<1>2. ItemOK /\ [ReviewNext]_reviewVars => ItemOK'
  BY DelegationRowStep
<1>3. ItemOK /\ [ReviewNext]_reviewVars =>
        /\ [CacheVerified => CacheVerified']_vars
        /\ [~Attests => RowChangeIsWritten]_vars
        /\ [row.status \in ReviewStates /\ row'.status \in Advanced \ {row.status} =>
              \E o \in NewOps : o.type \in StatusOps /\ o.approval # None]_vars
  BY DelegationRowStep DEF Owed, WaivesDrifted, GatedExit, CacheVerified
<1>4. QED
  BY <1>1, <1>2, <1>3, PTL
     DEF ReviewSpec, StaysInStep, NoSilentRevert, NoUngatedExit

(* The lease too: no job takes one, and a verdict neither takes nor ends   *)
(* one, so its row stays that of the last claim in the log.                *)
THEOREM DelegationKeepsLease == ReviewSpec => LeaseSpec /\ []LeaseMatchesLog
<1>1. ReviewInit => LeaseInit /\ ItemOK /\ LeaseMatchesLog
  BY ItemOKInit DEF ReviewInit, Init, LeaseInit, LeaseMatchesLog
<1>2. [ReviewNext]_reviewVars => [LeaseNext]_leaseVars
  <2>1. ASSUME NEW p \in Proc, NEW t, NEW approvals, RecordVerdict(p, t, approvals)
        PROVE  LeaseNext
    BY <2>1 DEF RecordVerdict, Ends, Abort, LeaseNext
  <2>2. [Next]_vars => [LeaseNext]_leaseVars
    BY ItemLeaseStep
  <2>3. QED
    BY <2>1, <2>2, ItemOrVerdict
<1>3. ItemOK /\ LeaseTypeOK /\ LeaseMatchesLog /\ [ReviewNext]_reviewVars
      => ItemOK' /\ LeaseMatchesLog'
  <2> SUFFICES ASSUME ItemOK, LeaseTypeOK, LeaseMatchesLog, [ReviewNext]_reviewVars
               PROVE  ItemOK' /\ LeaseMatchesLog'
    OBVIOUS
  <2>1. ItemOK'
    BY DelegationRowStep
  <2>2. CASE [Next]_vars
    BY <2>1, <2>2, MatchStep DEF ItemOK
  <2>3. ASSUME NEW p \in Proc, NEW t \in Positive, NEW approvals,
               RecordVerdict(p, t, approvals), None \notin approvals
        PROVE  LeaseMatchesLog'
    <3>1. log \subseteq log' /\ \A o \in log' \ log : o.type \notin LeaseOps
      BY <2>3, VerdictKeepsItem
    <3>2. lease' = lease
      BY <2>3 DEF RecordVerdict, Ends
    <3>3. QED
      BY <3>1, <3>2 DEF LeaseMatchesLog, LeaseOps
  <2>4. QED
    BY <2>1, <2>2, <2>3, ItemOrVerdict
<1>4. ReviewSpec => LeaseSpec
  BY <1>1, <1>2, PTL DEF ReviewSpec, LeaseSpec
<1>5. ReviewSpec => []LeaseTypeOK
  BY <1>4, LeaseTypeCorrect, PTL
<1>6. QED
  BY <1>1, <1>3, <1>4, <1>5, PTL DEF ReviewSpec

(* Without force, what the degraded-completion detector accepts was        *)
(* reviewed when attempts stand in for reviewers as well.                  *)
THEOREM DelegatedIsReviewed ==
  ASSUME TRUE \notin Forces
  PROVE  ReviewSpec => []CleanMeansReviewed
<1>1. ReviewInit => ReviewOK
  BY ReviewOKInit DEF ReviewInit
<1>2. ReviewOK /\ [ReviewNext]_reviewVars => ReviewOK'
  <2> SUFFICES ASSUME ReviewOK, [ReviewNext]_reviewVars PROVE ReviewOK'
    OBVIOUS
  <2>1. CASE [Next]_vars
    BY <2>1, ReviewOKStep
  <2>2. ASSUME NEW p \in Proc, NEW t \in Positive, NEW approvals,
               RecordVerdict(p, t, approvals), None \notin approvals
        PROVE  ReviewOK'
    <3>1. ItemOK' /\ t \in Verdicts
      BY <2>2, VerdictKeepsItem DEF ReviewOK, Positive, Verdicts
    <3>2. Reviewed
      BY <2>2, <3>1, RecordReviewed
    <3>3. QED
      BY <3>1, <3>2 DEF Reviewed, ReviewOK
  <2>3. QED
    BY <2>1, <2>2, ItemOrVerdict
<1>3. ReviewOK => CleanMeansReviewed
  BY ReviewedIsClean
<1>4. QED
  BY <1>1, <1>2, <1>3, PTL DEF ReviewSpec
-----------------------------------------------------------------------------
(* The gate as a whole.  An approval in the log has one of two vouchers:   *)
(* its own author, or an attempt that was applied.                         *)

VouchedByAttempt(o) == \E k \in DOMAIN attempt : attempt[k].op = o.lamport

OthersStand ==
  \A o \in log : o.approval \in Independent /\ ~VouchedByAttempt(o) => DidNoWork(o)

(* Every approval in the log that claims independence, by whichever route  *)
(* it came in, is backed by a party that did none of the work since the    *)
(* last bounce: its author (check), or the model of the attempt that was   *)
(* applied (attempt_reviewer).                                             *)
EveryApprovalStands ==
  \A o \in log : o.approval \in Independent =>
    \/ DidNoWork(o)
    \/ \E k \in DOMAIN attempt : attempt[k].op = o.lamport /\ Idle(k[1], o.lamport)

LEMMA RowsRemain ==
  ASSUME [ReviewNext]_reviewVars
  PROVE  DOMAIN attempt \subseteq DOMAIN attempt'
<1>1. ASSUME NEW j \in Job, JobNext(j) PROVE DOMAIN attempt \subseteq DOMAIN attempt'
  BY <1>1 DEF JobNext, EvaluateAndRecord, JobRefuses, ReadItem, PrepareRefuses, PlanAttempt,
              MarkRunning, MarkResultValidated, MarkFailed, ReviewSucceeds,
              ReviewFails, JobRaises, JobDies, Inserts, Sets
<1>2. ASSUME NEW p, NEW k, NEW t, NEW ack, ApplyAttempt(p, k, t, ack)
      PROVE  DOMAIN attempt \subseteq DOMAIN attempt'
  BY <1>2 DEF ApplyAttempt, MarkApplied, Sets
<1>3. QED
  BY <1>1, <1>2 DEF ReviewNext, reviewVars

LEMMA VoucherStays ==
  ASSUME IInv, LogOK, [ReviewNext]_reviewVars, NEW o \in log, VouchedByAttempt(o)
  PROVE  VouchedByAttempt(o)'
<1>1. PICK k \in DOMAIN attempt : attempt[k].op = o.lamport
  BY DEF VouchedByAttempt
<1>2. attempt[k].op # 0
  BY <1>1 DEF LogOK
<1>3. k \in DOMAIN attempt' /\ attempt'[k] = attempt[k]
  BY <1>2, KeptStep, RowsRemain
<1>4. QED
  BY <1>1, <1>3 DEF VouchedByAttempt

(* A command of the item's own. *)
LEMMA OwnApprovals ==
  ASSUME IInv, ItemOK, OthersStand, [Next]_vars, UNCHANGED attempt
  PROVE  OthersStand'
<1>1. LogOK
  BY DEF ItemOK
<1>2. \A o : VouchedByAttempt(o)' <=> VouchedByAttempt(o)
  BY DEF VouchedByAttempt
<1>3. CASE UNCHANGED <<log, seq>>
  BY <1>2, <1>3 DEF OthersStand, DidNoWork, SameParty, IsWork
<1>4. ASSUME NEW p \in Proc, NEW ops, Appends(p, ops)
      PROVE  OthersStand'
  <2>1. Placed(p, ops) /\ log' = log \cup ops
    BY <1>4 DEF Appends
  <2>2. ASSUME NEW o \in log, o.approval \in Independent, ~VouchedByAttempt(o)
        PROVE  DidNoWork(o)'
    <3>1. DidNoWork(o)
      BY <2>2 DEF OthersStand
    <3>2. QED
      BY <1>1, <2>1, <3>1, OldApprovalStays
  <2>3. ASSUME NEW o \in ops, o.approval \in Independent PROVE DidNoWork(o)'
    BY <1>1, <1>4, <2>3, NewApprovalStands
  <2>4. QED
    BY <1>2, <2>1, <2>2, <2>3 DEF OthersStand
<1>5. QED
  BY <1>1, <1>3, <1>4, StepAppends

(* An attempt that is applied vouches for the only approval it writes. *)
LEMMA AppliedApproval ==
  ASSUME IInv, ItemOK, OthersStand, NEW p \in Proc, NEW k \in DOMAIN attempt,
         NEW t \in Positive, NEW ack \in BOOLEAN, ApplyAttempt(p, k, t, ack)
  PROVE  OthersStand'
<1>1. PICK a : \E x, y : VerdictOps(p, t, a, x, y)
  BY VerdictWrites DEF ApplyAttempt
<1>2. PICK x, y : VerdictOps(p, t, a, x, y)
  BY <1>1
<1>3. LogOK /\ row # Absent
  BY DEF ItemOK, ApplyAttempt, RecordVerdict
<1>4. /\ log' = log \cup (SealOps(p) \cup {x} \cup {y})
      /\ y.approval = None /\ x.lamport = After(SealOps(p))
      /\ \A o \in SealOps(p) : o.approval = None
  BY <1>2, <1>3, SealPlaced DEF VerdictOps, Write, Silent, LogOK
<1>5. VouchedByAttempt(x)'
  <2>1. k \in DOMAIN attempt' /\ attempt'[k].op = x.lamport
    BY <1>4, SetsFrame DEF ApplyAttempt, MarkApplied
  <2>2. QED
    BY <2>1 DEF VouchedByAttempt
<1>6. Grows
  BY <1>2, <1>3, VerdictMoves
<1>7. ASSUME NEW o \in log, o.approval \in Independent, ~VouchedByAttempt(o)'
      PROVE  DidNoWork(o)'
  <2>1. [ReviewNext]_reviewVars
    BY DEF ReviewNext
  <2>2. DidNoWork(o)
    BY <1>3, <1>7, <2>1, VoucherStays DEF OthersStand
  <2>3. SUFFICES ASSUME NEW w \in log', w.lamport < o.lamport, IsWork(w),
                        ~\E r \in log' : /\ r.type = "set_status" /\ r.verdict \in Resets
                                         /\ w.lamport < r.lamport /\ r.lamport < o.lamport
                 PROVE  ~SameParty(o, w)
    BY DEF DidNoWork, SameParty, IsWork
  <2>4. w \in log
    BY <1>3, <1>6, <2>3 DEF Grows, LogOK
  <2>5. QED
    BY <1>6, <2>2, <2>3, <2>4 DEF DidNoWork, Grows
<1>8. \A o \in log' \ log : o.approval \in Independent => o = x
  BY <1>4 DEF Independent, None
<1>9. QED
  BY <1>5, <1>7, <1>8 DEF OthersStand

LEMMA GateStep ==
  ASSUME IInv, ItemOK, OthersStand, [ReviewNext]_reviewVars
  PROVE  OthersStand'
<1>1. CASE UNCHANGED reviewVars
  BY <1>1, OwnApprovals DEF reviewVars
<1>2. CASE Next /\ UNCHANGED <<attempt, job>>
  BY <1>2, OwnApprovals
<1>3. ASSUME NEW j \in Job, JobNext(j) PROVE OthersStand'
  <2>1. log' = log
    BY <1>3 DEF JobNext, EvaluateAndRecord, JobRefuses, ReadItem, PrepareRefuses, PlanAttempt, MarkRunning,
                ReviewSucceeds, ReviewFails, JobRaises, JobDies, vars, itemVars
  <2>2. \A o \in log : VouchedByAttempt(o) => VouchedByAttempt(o)'
    BY VoucherStays DEF ItemOK
  <2>3. QED
    BY <2>1, <2>2 DEF OthersStand, DidNoWork, SameParty, IsWork
<1>4. ASSUME NEW p \in Proc, NEW k \in DOMAIN attempt, NEW t \in Positive, NEW ack \in BOOLEAN,
             ApplyAttempt(p, k, t, ack)
      PROVE  OthersStand'
  BY <1>4, AppliedApproval
<1>5. QED
  BY <1>1, <1>2, <1>3, <1>4 DEF ReviewNext

(* No route to an approval goes round the gate: commands, edits, bounces   *)
(* and any number of jobs and attempts composed.                           *)
THEOREM GateCoversAll == ReviewSpec => []EveryApprovalStands
<1>1. ReviewInit => OthersStand
  <2>1. Init => ApproverIndependent
    BY InitIndependent
  <2>2. QED
    BY <2>1 DEF ReviewInit, OthersStand, ApproverIndependent, DidNoWork
<1>2. IInv /\ SeenInv /\ OthersStand /\ [ReviewNext]_reviewVars => OthersStand'
  BY GateStep DEF SeenInv
<1>3. SeenInv /\ OthersStand => EveryApprovalStands
  <2> SUFFICES ASSUME SeenInv, OthersStand, NEW o \in log, o.approval \in Independent,
                      VouchedByAttempt(o)
               PROVE  \E k \in DOMAIN attempt :
                        attempt[k].op = o.lamport /\ Idle(k[1], o.lamport)
    BY DEF OthersStand, EveryApprovalStands
  <2>1. PICK k \in DOMAIN attempt : attempt[k].op = o.lamport
    BY DEF VouchedByAttempt
  <2>2. Idle(k[1], o.lamport)
    BY <2>1 DEF SeenInv, ReviewerDidNoWork, Idle
  <2>3. QED
    BY <2>1, <2>2
<1>4. QED
  BY <1>1, <1>2, <1>3, JournalInvariant, SeenInvariant, PTL DEF ReviewSpec

(* Verdicts by attempt are appended to the log like any other op.          *)
THEOREM DelegationKeepsHistory == ReviewSpec => HistoryStands
<1>1. ItemOK /\ [ReviewNext]_reviewVars => Grows
  <2>1. ASSUME ItemOK, NEW p \in Proc, NEW t \in Positive, NEW approvals,
               RecordVerdict(p, t, approvals)
        PROVE  Grows
    <3>1. row # Absent
      BY <2>1 DEF RecordVerdict
    <3>2. PICK a \in approvals : \E x, y : VerdictOps(p, t, a, x, y)
      BY <2>1, VerdictWrites
    <3>3. QED
      BY <2>1, <3>1, <3>2, VerdictMoves
  <2>2. QED
    BY <2>1, ItemOrVerdict, StepMoves
<1>2. ItemOK /\ Grows =>
        [/\ log \subseteq log'
         /\ \A o \in log, n \in log' \ log : o.lamport < n.lamport]_vars
  BY DEF ItemOK, LogOK, Grows
<1>3. QED
  BY <1>1, <1>2, SeenInvariant, PTL DEF ReviewSpec, SeenInv, HistoryStands

=============================================================================
