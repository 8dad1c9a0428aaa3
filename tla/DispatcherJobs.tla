--------------------------- MODULE DispatcherJobs ---------------------------
(***************************************************************************)
(* The jobs half of the dispatcher (dispatcher/service.py, jobs.py): it    *)
(* claims requests, runs them on a pool of threads, answers them, and      *)
(* answers what an earlier dispatcher of the VM left unanswered.           *)
(*                                                                         *)
(* A dispatcher is a process whose main thread runs tick() in a loop and   *)
(* whose workers run one job each; they share active, unposted, jobs and   *)
(* dirty.  Every dispatcher of the VM claims under the same name.  The VM  *)
(* lock is a session lock of the LISTEN connection; all other statements   *)
(* use pooled connections and do not notice its loss.                      *)
(***************************************************************************)
EXTENDS Requests, FiniteSets

CONSTANTS Disp,      \* processes that may run as the dispatcher of the VM
          MaxJobs,   \* max_jobs
          Attempts,  \* _REPLY_ATTEMPTS
          MayExpire, \* the requests whose expiry may come while we look
          MaxFaults  \* bound on crashes, failures, lost connections and stops

None == "none"
Main == 0        \* a dispatcher's main thread, among its workers


ASSUME DispatcherAssumption ==
  /\ None \notin Disp /\ Main \notin Req
  /\ Codes = {"verdict", "interrupted"}
  /\ MaxJobs \in Nat \ {0} /\ Attempts \in Nat \ {0} /\ MaxFaults \in Nat
  /\ MayExpire \subseteq Req

VARIABLES expired,  \* the requests whose expires_at has passed
          rowLock,  \* rowLock[r]: the worker whose transaction locked r's row
          vmLock,   \* the dispatcher whose LISTEN connection holds the VM lock
          pc,       \* pc[d]: where d's main thread is
          stopping, \* stopping[d]: SIGTERM was received
          dirty,    \* dirty[d]: _requests_dirty
          busy,     \* busy[d]: the snapshot answer_unreplied goes by
          todo,     \* todo[d]: what answer_unreplied still has to post
          job,      \* job[d][r]: the worker of d that runs r
          active,   \* active[d]: _active
          unposted, \* unposted[d][r]: the reply in _unposted, or None
          answer,   \* answer[w]: the open answer_request transaction of w
          faults    \* how many faults have happened

dispVars == <<pc, stopping, dirty, busy, todo>>
jobVars  == <<job, active, unposted>>
vars == <<promised, expired, rowLock, vmLock, dispVars, jobVars, answer, faults>>

Worker == Disp \X (Req \cup {Main})
NoJob  == [at |-> "none", tries |-> 0]
Nobody == <<None, Main>>
NoTx   == [req |-> Main, code |-> None, found |-> FALSE]

Places  == {"down", "offline", "connected", "tick", "unposted", "orphans", "poll",
            "listen", "failed", "lastUnposted", "lastOrphans", "joining"}
Stages  == {"none", "running", "posting", "keep", "leave", "done"}

DatabaseTypeOK ==
  /\ request \in [Req -> RequestStates]
  /\ replies \in [Req -> Seq(Codes)]
  /\ expired \subseteq Req
  /\ rowLock \in [Req -> Worker \cup {Nobody}]
  /\ answer \in [Worker -> [req : Req, code : Codes, found : BOOLEAN] \cup {NoTx}]
  /\ vmLock \in Disp \cup {None}

MemoryTypeOK ==
  /\ pc \in [Disp -> Places]
  /\ stopping \in [Disp -> BOOLEAN] /\ dirty \in [Disp -> BOOLEAN]
  /\ busy \in [Disp -> SUBSET Req] /\ todo \in [Disp -> SUBSET Req]
  /\ job \in [Disp -> [Req -> [at : Stages, tries : 0..Attempts]]]
  /\ active \in [Disp -> SUBSET Req]
  /\ unposted \in [Disp -> [Req -> Codes \cup {None}]]
  /\ faults \in 0..MaxFaults

TypeOK == DatabaseTypeOK /\ MemoryTypeOK

Jobs(d) == {r \in Req : job[d][r].at # "none"}
Kept(d) == {r \in Req : unposted[d][r] # None}
Go(d, place) == pc' = [pc EXCEPT ![d] = place]
Unlocked(d)  == IF vmLock = d THEN None ELSE vmLock
Fault == faults < MaxFaults /\ faults' = faults + 1

-----------------------------------------------------------------------------
(* answer_request: one transaction that locks the request's row, looks for *)
(* a reply and inserts one when there is none.                             *)

LockRequest(w, r, code) ==
  /\ answer[w] = NoTx
  /\ rowLock[r] = Nobody
  /\ rowLock' = [rowLock EXCEPT ![r] = w]
  /\ answer' = [answer EXCEPT ![w] =
                  [req |-> r, code |-> code,
                   found |-> request[r] = "gone" \/ replies[r] # <<>>]]

EndAnswer(w) ==
  /\ answer[w] # NoTx
  /\ rowLock' = [r \in Req |-> IF rowLock[r] = w THEN Nobody ELSE rowLock[r]]
  /\ answer' = [answer EXCEPT ![w] = NoTx]

CommitAnswer(w) ==
  LET tx == answer[w]
  IN  /\ EndAnswer(w)
      /\ replies' = IF tx.found THEN replies
                    ELSE [replies EXCEPT ![tx.req] = Append(@, tx.code)]
      /\ UNCHANGED request

(* The attempt fails: it rolled back, or it committed and the client never *)
(* heard of it.                                                            *)
FailAnswer(w) ==
  /\ Fault
  /\ CommitAnswer(w) \/ (EndAnswer(w) /\ UNCHANGED promised)

-----------------------------------------------------------------------------
(* Requesters and time. *)

(* INSERT of a request. *)
Submit(r) ==
  /\ Submitted(r)
  /\ UNCHANGED <<expired, rowLock, vmLock, dispVars, jobVars, answer, faults>>

Expire(r) ==
  /\ r \in MayExpire \ expired /\ request[r] \in {"queued", "claimed"}
  /\ expired' = expired \cup {r}
  /\ UNCHANGED <<promised, rowLock, vmLock, dispVars, jobVars, answer, faults>>

(* prune deletes expired rows, waiting for those that are locked. *)
Prune(r) ==
  /\ r \in expired /\ rowLock[r] = Nobody
  /\ Pruned(r)
  /\ UNCHANGED <<expired, rowLock, vmLock, dispVars, jobVars, answer, faults>>

-----------------------------------------------------------------------------
(* The worker that runs r: _run_job, then _job_done. *)

SetJob(d, r, at, tries) ==
  job' = [job EXCEPT ![d][r] = [at |-> at, tries |-> tries]]

(* execute_request returns: whatever the handler did, there is a reply. *)
FinishJob(d, r) ==
  /\ job[d][r].at = "running"
  /\ SetJob(d, r, "posting", 0)
  /\ UNCHANGED <<promised, expired, rowLock, vmLock, dispVars, active, unposted, answer, faults>>

PostReply(d, r) ==
  /\ job[d][r].at = "posting"
  /\ LockRequest(<<d, r>>, r, "verdict")
  /\ UNCHANGED <<promised, expired, vmLock, dispVars, jobVars, faults>>

ReplyPosted(d, r) ==
  /\ CommitAnswer(<<d, r>>)
  /\ SetJob(d, r, "leave", 0)
  /\ UNCHANGED <<expired, vmLock, dispVars, active, unposted, faults>>

(* Mutant: the request leaves _active before its reply is in _unposted. *)
ReplyFailedAndLeft(d, r) ==
  LET tries == job[d][r].tries + 1
  IN  /\ FailAnswer(<<d, r>>)
      /\ IF tries < Attempts THEN SetJob(d, r, "posting", tries) /\ UNCHANGED active
         ELSE /\ SetJob(d, r, "keep", 0)
              /\ active' = [active EXCEPT ![d] = @ \ {r}]
      /\ UNCHANGED <<expired, vmLock, dispVars, unposted>>

ReplyFailed(d, r) ==
  LET tries == job[d][r].tries + 1
  IN  /\ FailAnswer(<<d, r>>)
      /\ IF tries < Attempts THEN SetJob(d, r, "posting", tries)
         ELSE SetJob(d, r, "keep", 0)
      /\ UNCHANGED <<expired, vmLock, dispVars, active, unposted>>

(* Mutant: the reply of a job that could not post it is forgotten. *)
KeepReplyForgets(d, r) ==
  /\ job[d][r].at = "keep"
  /\ SetJob(d, r, "leave", 0)
  /\ UNCHANGED <<promised, expired, rowLock, vmLock, dispVars, active, unposted, answer, faults>>

KeepReply(d, r) ==
  /\ job[d][r].at = "keep"
  /\ unposted' = [unposted EXCEPT ![d][r] = "verdict"]
  /\ SetJob(d, r, "leave", 0)
  /\ UNCHANGED <<promised, expired, rowLock, vmLock, dispVars, active, answer, faults>>

LeaveActive(d, r) ==
  /\ job[d][r].at = "leave"
  /\ active' = [active EXCEPT ![d] = @ \ {r}]
  /\ SetJob(d, r, "done", 0)
  /\ UNCHANGED <<promised, expired, rowLock, vmLock, dispVars, unposted, answer, faults>>

JobDone(d, r) ==
  /\ job[d][r].at = "done"
  /\ SetJob(d, r, "none", 0)
  /\ dirty' = [dirty EXCEPT ![d] = TRUE]
  /\ UNCHANGED <<promised, expired, rowLock, vmLock, pc, stopping, busy, todo,
                 active, unposted, answer, faults>>

JobStep(d, r) ==
  \/ FinishJob(d, r) \/ PostReply(d, r) \/ ReplyPosted(d, r)
  \/ KeepReply(d, r) \/ LeaveActive(d, r) \/ JobDone(d, r)

-----------------------------------------------------------------------------
(* The main thread: run() and tick(). *)

mainRest == <<promised, expired, rowLock, job, active, answer>>

Start(d) ==
  /\ pc[d] = "down"
  /\ Go(d, "offline")
  /\ dirty' = [dirty EXCEPT ![d] = TRUE]
  /\ stopping' = [stopping EXCEPT ![d] = FALSE]
  /\ UNCHANGED <<mainRest, vmLock, busy, todo, unposted, faults>>

(* _connect: with the lock taken, AlreadyRunningError ends run().  The     *)
(* first tick after a connect always sweeps.                               *)
Connect(d) ==
  /\ pc[d] = "offline"
  /\ IF ~stopping[d] /\ vmLock = None
     THEN vmLock' = d /\ Go(d, "connected")
     ELSE vmLock' = vmLock /\ Go(d, "joining")
  /\ UNCHANGED <<mainRest, stopping, dirty, busy, todo, unposted, faults>>

Snapshot(d, next) ==
  /\ busy' = [busy EXCEPT ![d] = active[d] \cup Kept(d)]
  /\ todo' = [todo EXCEPT ![d] = Kept(d)]
  /\ Go(d, next)
  /\ UNCHANGED <<mainRest, vmLock, stopping, unposted, faults>>

(* A sweep is due: sweep(), then the beginning of answer_unreplied. *)
Sweep(d) ==
  /\ pc[d] \in {"connected", "tick"} /\ ~stopping[d]
  /\ dirty' = [dirty EXCEPT ![d] = TRUE]
  /\ Snapshot(d, "unposted")

(* None is due. *)
Tick(d) ==
  /\ pc[d] = "tick" /\ ~stopping[d]
  /\ Go(d, "poll")
  /\ UNCHANGED <<mainRest, vmLock, stopping, dirty, busy, todo, unposted, faults>>

(* notifies(): word of a request to the VM comes, or was lost. *)
Listen(d) ==
  /\ pc[d] = "listen" /\ vmLock = d
  /\ Go(d, "tick")
  /\ \/ UNCHANGED dirty
     \/ (\E r \in Req : request[r] # "unsent") /\ dirty' = [dirty EXCEPT ![d] = TRUE]
  /\ UNCHANGED <<mainRest, vmLock, stopping, busy, todo, unposted, faults>>

(* It raises: the connection is gone, and the lock with it. *)
Notice(d) ==
  /\ pc[d] = "listen" /\ vmLock # d
  /\ Go(d, "failed")
  /\ UNCHANGED <<mainRest, vmLock, stopping, dirty, busy, todo, unposted, faults>>

(* After the backoff the connection is closed, running jobs or not.        *)
Reconnect(d) ==
  /\ pc[d] = "failed" /\ ~stopping[d]
  /\ Go(d, "offline")
  /\ vmLock' = Unlocked(d)
  /\ UNCHANGED <<mainRest, stopping, dirty, busy, todo, unposted, faults>>

(* SIGTERM: _drain waits for the jobs, but no longer than the grace. *)
Drain(d) ==
  /\ pc[d] \in {"connected", "tick", "failed"} /\ stopping[d]
  /\ Snapshot(d, "lastUnposted")
  /\ UNCHANGED dirty

Posting(d) == pc[d] \in {"unposted", "lastUnposted"}
Orphaning(d) == pc[d] \in {"orphans", "lastOrphans"}

(* One post_reply of answer_unreplied. *)
AnswerUnreplied(d, r) ==
  /\ r \in todo[d]
  /\ \/ Posting(d) /\ LockRequest(<<d, Main>>, r, unposted[d][r])
     \/ Orphaning(d) /\ LockRequest(<<d, Main>>, r, "interrupted")
  /\ UNCHANGED <<promised, expired, vmLock, dispVars, jobVars, faults>>

UnrepliedPosted(d) ==
  LET r == answer[<<d, Main>>].req
  IN  /\ CommitAnswer(<<d, Main>>)
      /\ todo' = [todo EXCEPT ![d] = @ \ {r}]
      /\ unposted' = IF Posting(d) THEN [unposted EXCEPT ![d][r] = None] ELSE unposted
  /\ UNCHANGED <<expired, vmLock, pc, stopping, dirty, busy, job, active, faults>>

UnrepliedFailed(d) ==
  LET r == answer[<<d, Main>>].req
  IN  /\ FailAnswer(<<d, Main>>)
      /\ todo' = [todo EXCEPT ![d] = @ \ {r}]
      /\ unposted' = IF Posting(d) THEN unposted
                     ELSE [unposted EXCEPT ![d][r] = "interrupted"]
  /\ UNCHANGED <<expired, vmLock, pc, stopping, dirty, busy, job, active>>

(* Mutant: the query does not ask who claimed the request. *)
OrphansAnyone == {r \in Req \ expired : request[r] # "unsent" /\ replies[r] = <<>>}

(* _orphaned_requests: claimed, unexpired and without a reply. *)
Orphans == {r \in Req \ expired : request[r] = "claimed" /\ replies[r] = <<>>}

(* Mutant: what an earlier dispatcher left is not looked for. *)
OrphanedNever(d) ==
  /\ Posting(d) /\ todo[d] = {}
  /\ answer[<<d, Main>>] = NoTx
  /\ Go(d, IF pc[d] = "unposted" THEN "orphans" ELSE "lastOrphans")
  /\ UNCHANGED <<mainRest, vmLock, stopping, dirty, busy, todo, unposted, faults>>

Orphaned(d) ==
  /\ Posting(d) /\ todo[d] = {}
  /\ answer[<<d, Main>>] = NoTx
  /\ todo' = [todo EXCEPT ![d] = Orphans \ busy[d]]
  /\ Go(d, IF pc[d] = "unposted" THEN "orphans" ELSE "lastOrphans")
  /\ UNCHANGED <<mainRest, vmLock, stopping, dirty, busy, unposted, faults>>

(* After the orphans: on with the tick, or _drain closes the connection    *)
(* and run() waits for the pool.                                           *)
AnsweredAll(d) ==
  /\ Orphaning(d) /\ todo[d] = {}
  /\ IF pc[d] = "orphans" THEN Go(d, "poll") /\ vmLock' = vmLock
     ELSE Go(d, "joining") /\ vmLock' = Unlocked(d)
  /\ UNCHANGED <<mainRest, stopping, dirty, busy, todo, unposted, faults>>

Claimable == {r \in Req \ expired : request[r] = "queued" /\ rowLock[r] = Nobody}
Take(some) == request' = [r \in Req |-> IF r \in some THEN "claimed" ELSE request[r]]
Oldest(n) == {r \in Claimable : Cardinality({q \in Claimable : q <= r}) <= n}

(* poll_requests: claim for the free slots and start the jobs. *)
PollRequests(d) ==
  LET free == MaxJobs - Cardinality(Jobs(d))
  IN  /\ pc[d] = "poll"
      /\ Go(d, "listen")
      /\ IF ~dirty[d] \/ free <= 0 THEN UNCHANGED <<promised, dirty, job, active>>
         ELSE LET some == Oldest(free)
              IN  /\ Take(some) /\ UNCHANGED replies
                  /\ dirty' = [dirty EXCEPT ![d] = Cardinality(some) = free]
                  /\ active' = [active EXCEPT ![d] = @ \cup some]
                  /\ job' = [job EXCEPT ![d] = [r \in Req |->
                              IF r \in some THEN [at |-> "running", tries |-> 0] ELSE @[r]]]
      /\ UNCHANGED <<expired, rowLock, vmLock, stopping, busy, todo, unposted, answer, faults>>

(* run() waits for the pool and the process ends. *)
Exit(d) ==
  /\ pc[d] = "joining" /\ Jobs(d) = {}
  /\ Go(d, "down")
  /\ unposted' = [unposted EXCEPT ![d] = [r \in Req |-> None]]
  /\ todo' = [todo EXCEPT ![d] = {}]
  /\ busy' = [busy EXCEPT ![d] = {}]
  /\ UNCHANGED <<mainRest, vmLock, stopping, dirty, faults>>

MainStep(d) ==
  \/ Connect(d) \/ Sweep(d) \/ Tick(d) \/ Listen(d) \/ Notice(d)
  \/ Reconnect(d) \/ Drain(d)
  \/ (\E r \in Req : AnswerUnreplied(d, r)) \/ UnrepliedPosted(d)
  \/ Orphaned(d) \/ AnsweredAll(d) \/ PollRequests(d) \/ Exit(d)

-----------------------------------------------------------------------------
(* Faults. *)

Sigterm(d) ==
  /\ Fault
  /\ pc[d] # "down" /\ ~stopping[d]
  /\ stopping' = [stopping EXCEPT ![d] = TRUE]
  /\ UNCHANGED <<mainRest, vmLock, pc, dirty, busy, todo, unposted>>

(* The LISTEN connection breaks. *)
DropConnection(d) ==
  /\ Fault
  /\ vmLock = d
  /\ vmLock' = None
  /\ UNCHANGED <<mainRest, dispVars, unposted>>

(* A query of the main thread fails: run() reconnects, or, in _drain, goes *)
(* on without it.  claim_requests may have committed by then; nobody runs  *)
(* what it claimed.                                                        *)
QueryFails(d) ==
  /\ Fault
  /\ \/ /\ Posting(d) /\ todo[d] = {}
        /\ IF pc[d] = "unposted" THEN Go(d, "failed") /\ vmLock' = vmLock
           ELSE Go(d, "joining") /\ vmLock' = Unlocked(d)
        /\ UNCHANGED promised
     \/ /\ pc[d] = "poll" /\ dirty[d] /\ Cardinality(Jobs(d)) < MaxJobs
        /\ Go(d, "failed")
        /\ UNCHANGED vmLock
        /\ UNCHANGED replies
        /\ UNCHANGED request \/ Take(Oldest(MaxJobs - Cardinality(Jobs(d))))
  /\ UNCHANGED <<expired, rowLock, job, active, answer, stopping, busy, todo, unposted>>
  /\ dirty' = [dirty EXCEPT ![d] = pc[d] # "poll" /\ @]

(* The process dies: its memory is gone, its transactions roll back.       *)
Crash(d) ==
  /\ Fault
  /\ pc[d] # "down"
  /\ Go(d, "down")
  /\ vmLock' = Unlocked(d)
  /\ rowLock' = [r \in Req |-> IF rowLock[r][1] = d THEN Nobody ELSE rowLock[r]]
  /\ answer' = [w \in Worker |-> IF w[1] = d THEN NoTx ELSE answer[w]]
  /\ job' = [job EXCEPT ![d] = [r \in Req |-> NoJob]]
  /\ active' = [active EXCEPT ![d] = {}]
  /\ unposted' = [unposted EXCEPT ![d] = [r \in Req |-> None]]
  /\ todo' = [todo EXCEPT ![d] = {}]
  /\ busy' = [busy EXCEPT ![d] = {}]
  /\ UNCHANGED <<promised, expired, stopping, dirty>>

-----------------------------------------------------------------------------
Init ==
  /\ PromiseInit
  /\ expired = {}
  /\ rowLock = [r \in Req |-> Nobody]
  /\ vmLock = None
  /\ pc = [d \in Disp |-> "down"]
  /\ stopping = [d \in Disp |-> FALSE] /\ dirty = [d \in Disp |-> TRUE]
  /\ busy = [d \in Disp |-> {}] /\ todo = [d \in Disp |-> {}]
  /\ job = [d \in Disp |-> [r \in Req |-> NoJob]]
  /\ active = [d \in Disp |-> {}]
  /\ unposted = [d \in Disp |-> [r \in Req |-> None]]
  /\ answer = [w \in Worker |-> NoTx]
  /\ faults = 0

Next ==
  \/ \E r \in Req : Submit(r) \/ Expire(r) \/ Prune(r)
  \/ \E d \in Disp :
       \/ Start(d) \/ MainStep(d) \/ UnrepliedFailed(d)
       \/ Sigterm(d) \/ DropConnection(d) \/ QueryFails(d) \/ Crash(d)
       \/ \E r \in Req : JobStep(d, r) \/ ReplyFailed(d, r)

Spec == Init /\ [][Next]_vars

(* A dispatcher that ended is started again: by systemd when it failed     *)
(* (deploy/agent-notes-dispatch.service), by whoever stopped it otherwise. *)
(* Threads are scheduled, a handler ends by its timeout, and a sweep comes *)
(* due every sweep_interval.                                               *)
Fairness ==
  \A d \in Disp : /\ WF_vars(Start(d)) /\ WF_vars(MainStep(d))
                  /\ SF_vars(Sweep(d))
                  /\ \A r \in Req : WF_vars(JobStep(d, r))

FairSpec == Spec /\ Fairness
-----------------------------------------------------------------------------
(* PROPERTIES *)

(* A request has at most one reply, whatever retries, recoveries and other *)
(* dispatchers of the VM do (docs/dispatcher.md).                          *)
AtMostOneReply == \A r \in Req : Len(replies[r]) <= 1

(* A dispatcher never tells a requester that the job was interrupted while *)
(* it runs that job itself or keeps its verdict.                           *)
NeverInterruptsItself ==
  [][\A r \in Req : replies'[r] # replies[r] /\ replies'[r][1] = "interrupted" =>
       \A d \in Disp :
         answer[<<d, Main>>].req = r /\ answer'[<<d, Main>>] = NoTx =>
           r \notin active[d] /\ unposted[d][r] # "verdict"]_vars

(* A verdict that was worked out is posted, kept or superseded: nothing    *)
(* but the end of the process loses it.                                    *)
VerdictNotLost ==
  [][\A d \in Disp, r \in Req :
       pc'[d] # "down" /\ (unposted[d][r] = "verdict" \/ job[d][r].at \in {"posting", "keep"})
         => \/ unposted'[d][r] = "verdict" \/ job'[d][r].at \in {"posting", "keep"}
            \/ replies'[r] # <<>> \/ request'[r] = "gone"]_vars

(* Every request that does not expire gets its answer, through crashes,    *)
(* stops, lost notifications and lost connections, once those end.         *)
EventuallyAnswered ==
  \A r \in Req : (request[r] = "queued") ~> (replies[r] # <<>> \/ r \in expired)
=============================================================================
