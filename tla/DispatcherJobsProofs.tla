------------------------ MODULE DispatcherJobsProofs ------------------------
(***************************************************************************)
(* For every number of requests, dispatchers, attempts and faults: a       *)
(* request is answered at most once, the dispatchers together keep what    *)
(* Requests promises, none says of a job that it was interrupted while it  *)
(* runs it itself, and no verdict is lost but with its process.            *)
(*                                                                         *)
(* The invariant has a database half (who holds which row lock, and that   *)
(* what an answer found is still so while it holds the lock), a memory     *)
(* half (dispatchers have in hand only requests they or an earlier one     *)
(* claimed), and for the last two what each dispatcher says of its own     *)
(* jobs (Own).                                                             *)
(***************************************************************************)
EXTENDS DispatcherJobs, Integers, TLAPS, FiniteSetTheorems, WellFoundedInduction

InHand(d, r) == job[d][r].at # "none" \/ unposted[d][r] # None \/ r \in todo[d]

(* What an open answer found cannot change before it commits. *)
AnswersLocked ==
  \A w \in Worker : answer[w] # NoTx =>
    LET r == answer[w].req
    IN  /\ rowLock[r] = w /\ request[r] \in {"claimed", "gone"}
        /\ answer[w].found <=> (request[r] = "gone" \/ replies[r] # <<>>)

Database == DatabaseTypeOK /\ AnswersLocked /\ AtMostOneReply

(* Only claimed requests are in a dispatcher's hands. *)
HandsClaimed ==
  \A d \in Disp, r \in Req : InHand(d, r) => request[r] \in {"claimed", "gone"}

TodoKept ==
  \A d \in Disp : Posting(d) => \A r \in todo[d] : unposted[d][r] # None

(* A worker's transaction is open only while its job posts. *)
WorkersPost ==
  \A d \in Disp, r \in Req : answer[<<d, r>>] # NoTx => job[d][r].at = "posting"

Memory == MemoryTypeOK /\ HandsClaimed /\ TodoKept /\ WorkersPost

IInv == Database /\ Memory

-----------------------------------------------------------------------------
(* The database half. *)

LEMMA NoTxIsNoRequest == Main \notin Req
BY DispatcherAssumption

LEMMA AnswerTyped ==
  ASSUME DatabaseTypeOK, NEW w \in Worker, answer[w] # NoTx
  PROVE  answer[w].req \in Req /\ answer[w].code \in Codes /\ answer[w].found \in BOOLEAN
BY DEF DatabaseTypeOK

(* Locking a claimed request's row. *)
LEMMA LockKeepsDatabase ==
  ASSUME Database, NEW w \in Worker, NEW r \in Req, NEW code \in Codes,
         request[r] \in {"claimed", "gone"},
         LockRequest(w, r, code), UNCHANGED <<promised, expired, vmLock>>
  PROVE  Database'
<1>1. /\ answer' = [answer EXCEPT ![w] =
                      [req |-> r, code |-> code,
                       found |-> (request[r] = "gone" \/ replies[r] # <<>>)]]
      /\ rowLock[r] = Nobody /\ rowLock' = [rowLock EXCEPT ![r] = w]
  BY DEF LockRequest
<1>2. UNCHANGED <<request, replies, expired, vmLock>>
  BY DEF promised
<1>3. DatabaseTypeOK'
  BY <1>1, <1>2 DEF Database, DatabaseTypeOK
<1>4. ASSUME NEW v \in Worker, answer'[v] # NoTx
      PROVE  LET q == answer'[v].req
             IN  /\ rowLock'[q] = v /\ request'[q] \in {"claimed", "gone"}
                 /\ answer'[v].found <=> (request'[q] = "gone" \/ replies'[q] # <<>>)
  <2>1. CASE v = w
    BY <1>1, <1>2, <2>1 DEF Database, DatabaseTypeOK
  <2>2. CASE v # w
    <3>1. answer'[v] = answer[v] /\ answer[v] # NoTx
      BY <1>1, <1>4, <2>2 DEF Database, DatabaseTypeOK
    <3>2. answer[v].req \in Req /\ rowLock[answer[v].req] = v
      BY <3>1, AnswerTyped DEF Database, AnswersLocked
    <3>3. v # Nobody
      BY DispatcherAssumption DEF Worker, Nobody
    <3>4. rowLock'[answer[v].req] = v
      BY <1>1, <3>2, <3>3 DEF Database, DatabaseTypeOK
    <3>5. QED
      BY <1>2, <3>1, <3>4 DEF Database, AnswersLocked
  <2>3. QED
    BY <2>1, <2>2
<1>5. AnswersLocked'
  BY <1>4 DEF AnswersLocked
<1>6. AtMostOneReply'
  BY <1>2 DEF Database, AtMostOneReply
<1>7. QED
  BY <1>3, <1>5, <1>6 DEF Database

(* Ending an answer, with its reply or without. *)
LEMMA EndKeepsDatabase ==
  ASSUME Database, NEW w \in Worker,
         CommitAnswer(w) \/ (EndAnswer(w) /\ UNCHANGED promised),
         UNCHANGED <<expired, vmLock>>
  PROVE  Database' /\ UNCHANGED request
<1> DEFINE tx == answer[w]
<1>1. /\ tx # NoTx
      /\ rowLock' = [r \in Req |-> IF rowLock[r] = w THEN Nobody ELSE rowLock[r]]
      /\ answer' = [answer EXCEPT ![w] = NoTx]
      /\ UNCHANGED request
  BY DEF CommitAnswer, EndAnswer, promised
<1>2. \/ replies' = replies
      \/ ~tx.found /\ replies' = [replies EXCEPT ![tx.req] = Append(@, tx.code)]
  BY DEF CommitAnswer, EndAnswer, promised
<1>3. tx.req \in Req /\ tx.code \in Codes /\ rowLock[tx.req] = w
  BY <1>1, AnswerTyped DEF Database, AnswersLocked
<1>4. ~tx.found => replies[tx.req] = <<>>
  BY <1>1 DEF Database, AnswersLocked
<1>5. \A r \in Req : /\ replies'[r] \in Seq(Codes) /\ Len(replies'[r]) <= 1
                     /\ r # tx.req => replies'[r] = replies[r]
  BY <1>2, <1>3, <1>4 DEF Database, DatabaseTypeOK, AtMostOneReply
<1>6. replies' \in [Req -> Seq(Codes)]
  BY <1>2, <1>3, <1>5 DEF Database, DatabaseTypeOK
<1>7. DatabaseTypeOK'
  BY <1>1, <1>6 DEF Database, DatabaseTypeOK
<1>8. ASSUME NEW v \in Worker, answer'[v] # NoTx
      PROVE  LET q == answer'[v].req
             IN  /\ rowLock'[q] = v /\ request'[q] \in {"claimed", "gone"}
                 /\ answer'[v].found <=> (request'[q] = "gone" \/ replies'[q] # <<>>)
  <2>1. v # w /\ answer'[v] = answer[v] /\ answer[v] # NoTx
    BY <1>1, <1>8 DEF Database, DatabaseTypeOK
  <2>2. answer[v].req \in Req /\ rowLock[answer[v].req] = v
    BY <2>1, AnswerTyped DEF Database, AnswersLocked
  <2>3. answer[v].req # tx.req
    BY <1>3, <2>1, <2>2
  <2>4. rowLock'[answer[v].req] = v /\ replies'[answer[v].req] = replies[answer[v].req]
    BY <1>1, <1>5, <2>1, <2>2, <2>3
  <2>5. QED
    BY <1>1, <2>1, <2>4 DEF Database, AnswersLocked
<1>9. AnswersLocked'
  BY <1>8 DEF AnswersLocked
<1>10. QED
  BY <1>1, <1>5, <1>7, <1>9 DEF Database, AtMostOneReply

(* A step that leaves the replies and the transactions alone, and moves no *)
(* request whose row is locked.                                            *)
LEMMA MovesKeepDatabase ==
  ASSUME Database, UNCHANGED <<replies, rowLock, answer>>,
         request' \in [Req -> RequestStates],
         expired' \subseteq Req, vmLock' \in Disp \cup {None},
         \A r \in Req : \/ request'[r] = request[r] \/ rowLock[r] = Nobody
                        \/ request[r] \in {"unsent", "queued"}
  PROVE  Database'
<1>1. DatabaseTypeOK' /\ AtMostOneReply'
  BY DEF Database, DatabaseTypeOK, AtMostOneReply
<1>2. ASSUME NEW w \in Worker, answer[w] # NoTx
      PROVE  request'[answer[w].req] = request[answer[w].req]
  <2>1. w # Nobody
    BY DispatcherAssumption DEF Worker, Nobody
  <2>2. answer[w].req \in Req /\ rowLock[answer[w].req] = w
        /\ request[answer[w].req] \in {"claimed", "gone"}
    BY <1>2, AnswerTyped DEF Database, AnswersLocked
  <2>3. QED
    BY <2>1, <2>2
<1>3. AnswersLocked'
  BY <1>2 DEF Database, AnswersLocked
<1>4. QED
  BY <1>1, <1>3 DEF Database

LEMMA StillDatabase ==
  ASSUME Database, UNCHANGED <<request, replies, rowLock, answer, expired>>,
         vmLock' \in Disp \cup {None}
  PROVE  Database'
BY MovesKeepDatabase DEF Database, DatabaseTypeOK

LEMMA CrashKeepsDatabase ==
  ASSUME Database, NEW d \in Disp, Crash(d)
  PROVE  Database'
<1>1. /\ rowLock' = [r \in Req |-> IF rowLock[r][1] = d THEN Nobody ELSE rowLock[r]]
      /\ answer' = [w \in Worker |-> IF w[1] = d THEN NoTx ELSE answer[w]]
      /\ UNCHANGED <<request, replies, expired>> /\ vmLock' \in Disp \cup {None}
  BY DEF Crash, promised, Unlocked, Database, DatabaseTypeOK
<1>2. DatabaseTypeOK' /\ AtMostOneReply'
  BY <1>1 DEF Database, DatabaseTypeOK, AtMostOneReply
<1>3. ASSUME NEW w \in Worker, answer'[w] # NoTx
      PROVE  /\ answer'[w] = answer[w] /\ answer[w] # NoTx
             /\ rowLock'[answer[w].req] = rowLock[answer[w].req]
  <2>1. w[1] # d /\ answer'[w] = answer[w] /\ answer[w] # NoTx
    BY <1>1, <1>3
  <2>2. answer[w].req \in Req /\ rowLock[answer[w].req] = w
    BY <2>1, AnswerTyped DEF Database, AnswersLocked
  <2>3. QED
    BY <1>1, <2>1, <2>2
<1>4. AnswersLocked'
  BY <1>1, <1>3 DEF Database, AnswersLocked
<1>5. QED
  BY <1>2, <1>4 DEF Database

(* What claim_requests takes was queued. *)
LEMMA TakesQueued ==
  ASSUME NEW n PROVE Oldest(n) \subseteq {r \in Req : request[r] = "queued"}
BY DEF Oldest, Claimable

LEMMA TakeKeepsDatabase ==
  ASSUME Database, NEW n, Take(Oldest(n)), UNCHANGED <<replies, rowLock, answer, expired, vmLock>>
  PROVE  Database'
<1>1. request' \in [Req -> RequestStates]
  BY DEF Take, Database, DatabaseTypeOK, RequestStates
<1>2. \A r \in Req : request'[r] = request[r] \/ request[r] = "queued"
  BY TakesQueued DEF Take
<1>3. QED
  BY <1>1, <1>2, MovesKeepDatabase DEF Database, DatabaseTypeOK


(* Every step keeps the database half. *)
LEMMA DatabaseStep ==
  ASSUME IInv, Next PROVE Database'
<1> USE DEF IInv
<1>1. ASSUME NEW r \in Req, Submit(r) PROVE Database'
  BY <1>1, MovesKeepDatabase
  DEF Submit, Submitted, Database, DatabaseTypeOK, RequestStates
<1>2. ASSUME NEW r \in Req, Expire(r) PROVE Database'
  BY <1>2, MovesKeepDatabase DEF Expire, promised, Database, DatabaseTypeOK
<1>3. ASSUME NEW r \in Req, Prune(r) PROVE Database'
  BY <1>3, MovesKeepDatabase
  DEF Prune, Pruned, Database, DatabaseTypeOK, RequestStates
<1>4. ASSUME NEW d \in Disp,
             \/ Start(d) \/ Connect(d) \/ Sweep(d) \/ Tick(d) \/ Listen(d) \/ Notice(d)
             \/ Reconnect(d) \/ Drain(d) \/ Orphaned(d) \/ AnsweredAll(d) \/ Exit(d)
             \/ Sigterm(d) \/ DropConnection(d)
      PROVE  Database'
  <2>1. UNCHANGED <<request, replies, rowLock, answer, expired>>
    BY <1>4 DEF Start, Connect, Sweep, Tick, Listen, Notice, Reconnect, Drain, Snapshot,
       Orphaned, AnsweredAll, Exit, Sigterm, DropConnection, mainRest, promised
  <2>2. vmLock' \in Disp \cup {None}
    BY <1>4 DEF Start, Connect, Sweep, Tick, Listen, Notice, Reconnect, Drain, Snapshot,
       Orphaned, AnsweredAll, Exit, Sigterm, DropConnection, Unlocked, Database, DatabaseTypeOK
  <2>3. QED
    BY <2>1, <2>2, StillDatabase
<1>5. ASSUME NEW d \in Disp, NEW r \in Req, AnswerUnreplied(d, r) PROVE Database'
  <2> DEFINE w == <<d, Main>>
  <2>1. w \in Worker /\ request[r] \in {"claimed", "gone"}
    BY <1>5 DEF Worker, AnswerUnreplied, Memory, HandsClaimed, InHand
  <2>2. Posting(d) => unposted[d][r] \in Codes
    BY <1>5 DEF AnswerUnreplied, Memory, MemoryTypeOK, TodoKept
  <2>3. "interrupted" \in Codes
    BY DispatcherAssumption
  <2>4. PICK code \in Codes : LockRequest(w, r, code)
    BY <1>5, <2>2, <2>3 DEF AnswerUnreplied
  <2>5. UNCHANGED <<promised, expired, vmLock>>
    BY <1>5 DEF AnswerUnreplied
  <2> HIDE DEF w
  <2>6. QED
    BY <2>1, <2>4, <2>5, LockKeepsDatabase
<1>6. ASSUME NEW d \in Disp, UnrepliedPosted(d) \/ UnrepliedFailed(d) PROVE Database'
  <2> DEFINE w == <<d, Main>>
  <2>1. w \in Worker
    BY DEF Worker
  <2>2. /\ CommitAnswer(w) \/ (EndAnswer(w) /\ UNCHANGED promised)
        /\ UNCHANGED <<expired, vmLock>>
    BY <1>6 DEF UnrepliedPosted, UnrepliedFailed, FailAnswer
  <2> HIDE DEF w
  <2>3. QED
    BY <2>1, <2>2, EndKeepsDatabase
<1>7. ASSUME NEW d \in Disp, PollRequests(d) PROVE Database'
  <2>1. CASE Take(Oldest(MaxJobs - Cardinality(Jobs(d)))) /\ UNCHANGED replies
    BY <1>7, <2>1, TakeKeepsDatabase DEF PollRequests
  <2>2. CASE UNCHANGED promised
    BY <1>7, <2>2, StillDatabase DEF PollRequests, promised, Database, DatabaseTypeOK
  <2>3. QED
    BY <1>7, <2>1, <2>2 DEF PollRequests
<1>8. ASSUME NEW d \in Disp, QueryFails(d) PROVE Database'
  <2>1. UNCHANGED <<replies, expired, rowLock, answer>> /\ vmLock' \in Disp \cup {None}
    BY <1>8 DEF QueryFails, promised, Unlocked, Database, DatabaseTypeOK
  <2>2. CASE UNCHANGED request
    BY <2>1, <2>2, StillDatabase
  <2>3. CASE Take(Oldest(MaxJobs - Cardinality(Jobs(d)))) /\ UNCHANGED vmLock
    BY <2>1, <2>3, TakeKeepsDatabase
  <2>4. QED
    BY <1>8, <2>2, <2>3 DEF QueryFails, promised
<1>9. ASSUME NEW d \in Disp, Crash(d) PROVE Database'
  BY <1>9, CrashKeepsDatabase
<1>10. ASSUME NEW d \in Disp, NEW r \in Req,
              FinishJob(d, r) \/ KeepReply(d, r) \/ LeaveActive(d, r) \/ JobDone(d, r)
       PROVE  Database'
  BY <1>10, StillDatabase
  DEF FinishJob, KeepReply, LeaveActive, JobDone, promised, Database, DatabaseTypeOK
<1>11. ASSUME NEW d \in Disp, NEW r \in Req, PostReply(d, r) PROVE Database'
  <2> DEFINE w == <<d, r>>
  <2>1. w \in Worker /\ request[r] \in {"claimed", "gone"} /\ "verdict" \in Codes
    BY <1>11, DispatcherAssumption
    DEF Worker, PostReply, Memory, HandsClaimed, InHand
  <2>2. LockRequest(w, r, "verdict") /\ UNCHANGED <<promised, expired, vmLock>>
    BY <1>11 DEF PostReply
  <2> HIDE DEF w
  <2>3. QED
    BY <2>1, <2>2, LockKeepsDatabase
<1>12. ASSUME NEW d \in Disp, NEW r \in Req, ReplyPosted(d, r) \/ ReplyFailed(d, r)
       PROVE  Database'
  <2> DEFINE w == <<d, r>>
  <2>1. w \in Worker
    BY DEF Worker
  <2>2. /\ CommitAnswer(w) \/ (EndAnswer(w) /\ UNCHANGED promised)
        /\ UNCHANGED <<expired, vmLock>>
    BY <1>12 DEF ReplyPosted, ReplyFailed, FailAnswer
  <2> HIDE DEF w
  <2>3. QED
    BY <2>1, <2>2, EndKeepsDatabase
<1>13. QED
  BY <1>1, <1>2, <1>3, <1>4, <1>5, <1>6, <1>7, <1>8, <1>9, <1>10, <1>11, <1>12
  DEF Next, MainStep, JobStep

-----------------------------------------------------------------------------
(* The memory half. *)

LEMMA EndAnswerEffect ==
  ASSUME Database, NEW w \in Worker, CommitAnswer(w) \/ (EndAnswer(w) /\ UNCHANGED promised)
  PROVE  /\ answer[w] # NoTx /\ answer' = [answer EXCEPT ![w] = NoTx]
         /\ UNCHANGED request
         /\ answer[w].req \in Req /\ request[answer[w].req] \in {"claimed", "gone"}
BY AnswerTyped DEF CommitAnswer, EndAnswer, promised, Database, AnswersLocked

(* Every step keeps the memory half. *)
LEMMA MemoryStep ==
  ASSUME IInv, Next PROVE Memory'
<1> USE DEF IInv
<1>1. ASSUME NEW r \in Req, Submit(r) \/ Expire(r) \/ Prune(r) PROVE Memory'
  <2>1. UNCHANGED <<dispVars, jobVars, answer, faults>>
    BY <1>1 DEF Submit, Expire, Prune
  <2>2. \A q \in Req : request[q] \in {"claimed", "gone"} => request'[q] \in {"claimed", "gone"}
    BY <1>1 DEF Submit, Submitted, Expire, promised, Prune, Pruned, Database, DatabaseTypeOK
  <2>3. QED
    BY <2>1, <2>2 DEF dispVars, jobVars, Memory, MemoryTypeOK, HandsClaimed, InHand,
       TodoKept, Posting, WorkersPost
<1>2. ASSUME NEW d \in Disp, Start(d) PROVE Memory'
  BY <1>2 DEF Start, Go, Places, promised, dispVars, jobVars, mainRest, Fault, Memory,
     MemoryTypeOK, HandsClaimed, InHand, TodoKept, Posting, WorkersPost
<1>3. ASSUME NEW d \in Disp, Connect(d) PROVE Memory'
  BY <1>3 DEF Connect, Go, Places, promised, dispVars, jobVars, mainRest, Fault, Memory,
     MemoryTypeOK, HandsClaimed, InHand, TodoKept, Posting, WorkersPost
<1>4. ASSUME NEW d \in Disp, Tick(d) PROVE Memory'
  BY <1>4 DEF Tick, Go, Places, promised, dispVars, jobVars, mainRest, Fault, Memory,
     MemoryTypeOK, HandsClaimed, InHand, TodoKept, Posting, WorkersPost
<1>5. ASSUME NEW d \in Disp, Listen(d) PROVE Memory'
  BY <1>5 DEF Listen, Go, Places, promised, dispVars, jobVars, mainRest, Fault, Memory,
     MemoryTypeOK, HandsClaimed, InHand, TodoKept, Posting, WorkersPost
<1>6. ASSUME NEW d \in Disp, Notice(d) PROVE Memory'
  BY <1>6 DEF Notice, Go, Places, promised, dispVars, jobVars, mainRest, Fault, Memory,
     MemoryTypeOK, HandsClaimed, InHand, TodoKept, Posting, WorkersPost
<1>7. ASSUME NEW d \in Disp, Reconnect(d) PROVE Memory'
  BY <1>7 DEF Reconnect, Go, Places, promised, dispVars, jobVars, mainRest, Fault, Memory,
     MemoryTypeOK, HandsClaimed, InHand, TodoKept, Posting, WorkersPost
<1>8. ASSUME NEW d \in Disp, Sweep(d) PROVE Memory'
  BY <1>8 DEF Sweep, Snapshot, Kept, Go, Places, promised, dispVars, jobVars, mainRest, Fault,
     Memory, MemoryTypeOK, HandsClaimed, InHand, TodoKept, Posting, WorkersPost
<1>9. ASSUME NEW d \in Disp, Drain(d) PROVE Memory'
  BY <1>9 DEF Drain, Snapshot, Kept, Go, Places, promised, dispVars, jobVars, mainRest, Fault,
     Memory, MemoryTypeOK, HandsClaimed, InHand, TodoKept, Posting, WorkersPost
<1>10. ASSUME NEW d \in Disp, Orphaned(d) PROVE Memory'
  BY <1>10 DEF Orphaned, Orphans, Go, Places, promised, dispVars, jobVars, mainRest, Fault,
     Memory, MemoryTypeOK, HandsClaimed, InHand, TodoKept, Posting, WorkersPost
<1>11. ASSUME NEW d \in Disp, AnsweredAll(d) PROVE Memory'
  BY <1>11 DEF AnsweredAll, Go, Places, promised, dispVars, jobVars, mainRest, Fault, Memory,
     MemoryTypeOK, HandsClaimed, InHand, TodoKept, Posting, WorkersPost
<1>12. ASSUME NEW d \in Disp, Exit(d) PROVE Memory'
  BY <1>12 DEF Exit, Go, Places, promised, dispVars, jobVars, mainRest, Fault, Memory,
     MemoryTypeOK, HandsClaimed, InHand, TodoKept, Posting, WorkersPost
<1>13. ASSUME NEW d \in Disp, Sigterm(d) PROVE Memory'
  BY <1>13, DispatcherAssumption DEF Sigterm, Go, Places, promised, dispVars, jobVars, mainRest,
     Fault, Memory, MemoryTypeOK, HandsClaimed, InHand, TodoKept, Posting, WorkersPost
<1>14. ASSUME NEW d \in Disp, DropConnection(d) PROVE Memory'
  BY <1>14, DispatcherAssumption DEF DropConnection, Go, Places, promised, dispVars, jobVars,
     mainRest, Fault, Memory, MemoryTypeOK, HandsClaimed, InHand, TodoKept, Posting, WorkersPost
<1>15. ASSUME NEW d \in Disp, Crash(d) PROVE Memory'
  <2>1. \A e \in Disp, r \in Req : answer'[<<e, r>>] # NoTx => e # d /\ answer[<<e, r>>] # NoTx
    BY <1>15 DEF Crash, Worker
  <2>2. QED
    BY <1>15, <2>1, DispatcherAssumption DEF Crash, NoJob, Stages, Go, Places, promised,
       dispVars, jobVars, mainRest, Fault, Memory, MemoryTypeOK, HandsClaimed, InHand, TodoKept,
       Posting, WorkersPost
<1>16. ASSUME NEW d \in Disp, NEW r \in Req, AnswerUnreplied(d, r) PROVE Memory'
  <2>1. \A e \in Disp, q \in Req : answer'[<<e, q>>] = answer[<<e, q>>]
    BY <1>16, NoTxIsNoRequest DEF AnswerUnreplied, LockRequest, Worker, Database, DatabaseTypeOK
  <2>2. QED
    BY <1>16, <2>1 DEF AnswerUnreplied, Go, Places, promised, dispVars, jobVars, mainRest,
       Fault, Memory, MemoryTypeOK, HandsClaimed, InHand, TodoKept, Posting, WorkersPost
<1>17. ASSUME NEW d \in Disp, UnrepliedPosted(d) \/ UnrepliedFailed(d) PROVE Memory'
  <2> DEFINE w == <<d, Main>>
             r == answer[w].req
  <2>1. w \in Worker /\ (CommitAnswer(w) \/ (EndAnswer(w) /\ UNCHANGED promised))
    BY <1>17 DEF UnrepliedPosted, UnrepliedFailed, FailAnswer, Worker
  <2>2. /\ answer' = [answer EXCEPT ![w] = NoTx] /\ UNCHANGED request
        /\ r \in Req /\ request[r] \in {"claimed", "gone"}
    BY <2>1, EndAnswerEffect
  <2>3. \A e \in Disp, q \in Req : answer'[<<e, q>>] # NoTx => answer[<<e, q>>] # NoTx
    BY <2>2 DEF Worker, Database, DatabaseTypeOK
  <2>4. /\ todo' = [todo EXCEPT ![d] = @ \ {r}]
        /\ UNCHANGED <<pc, stopping, dirty, busy, job, active>>
    BY <1>17 DEF UnrepliedPosted, UnrepliedFailed
  <2>5. faults' \in 0..MaxFaults
    BY <1>17, DispatcherAssumption
    DEF UnrepliedPosted, UnrepliedFailed, FailAnswer, Fault, Memory, MemoryTypeOK
  <2>6. \/ UNCHANGED unposted
        \/ Posting(d) /\ unposted' = [unposted EXCEPT ![d][r] = None]
        \/ ~Posting(d) /\ unposted' = [unposted EXCEPT ![d][r] = "interrupted"]
    <3>1. CASE UnrepliedPosted(d)
      BY <3>1 DEF UnrepliedPosted
    <3>2. CASE UnrepliedFailed(d)
      BY <3>2 DEF UnrepliedFailed
    <3>3. QED
      BY <1>17, <3>1, <3>2
  <2> HIDE DEF w, r
  <2>7. \A e \in Disp, q \in Req : (e # d \/ q # r) => unposted'[e][q] = unposted[e][q]
    BY <2>2, <2>6 DEF Memory, MemoryTypeOK
  <2>8. unposted' \in [Disp -> [Req -> Codes \cup {None}]]
    <3>1. "interrupted" \in Codes
      BY DispatcherAssumption
    <3>2. unposted \in [Disp -> [Req -> Codes \cup {None}]]
      BY DEF Memory, MemoryTypeOK
    <3>3. \A code \in Codes \cup {None} :
            [unposted EXCEPT ![d][r] = code] \in [Disp -> [Req -> Codes \cup {None}]]
      BY <2>2, <3>2
    <3>4. QED
      BY <2>6, <3>1, <3>2, <3>3
  <2>9. \A e \in Disp : todo'[e] \subseteq todo[e] /\ (e = d => r \notin todo'[e])
    BY <2>4 DEF Memory, MemoryTypeOK
  <2>10. MemoryTypeOK'
    BY <2>4, <2>5, <2>8 DEF Memory, MemoryTypeOK
  <2>11. TodoKept'
    BY <2>4, <2>7, <2>9 DEF Memory, MemoryTypeOK, TodoKept, Posting
  <2>12. HandsClaimed'
    BY <2>2, <2>4, <2>7, <2>9 DEF Memory, HandsClaimed, InHand
  <2>13. WorkersPost'
    BY <2>3, <2>4 DEF Memory, WorkersPost
  <2>14. QED
    BY <2>10, <2>11, <2>12, <2>13 DEF Memory
<1>18. ASSUME NEW d \in Disp, PollRequests(d) PROVE Memory'
  <2> DEFINE some == Oldest(MaxJobs - Cardinality(Jobs(d)))
  <2>1. CASE UNCHANGED <<promised, dirty, job, active>>
    BY <1>18, <2>1 DEF PollRequests, Go, Places, promised, dispVars, jobVars, mainRest, Fault,
       Memory, MemoryTypeOK, HandsClaimed, InHand, TodoKept, Posting, WorkersPost
  <2>2. CASE /\ Take(some) /\ dirty' \in [Disp -> BOOLEAN]
             /\ active' = [active EXCEPT ![d] = @ \cup some]
             /\ job' = [job EXCEPT ![d] = [r \in Req |->
                           IF r \in some THEN [at |-> "running", tries |-> 0] ELSE @[r]]]
    <3>1. some \subseteq {r \in Req : request[r] = "queued"}
      BY TakesQueued
    <3>2. /\ pc' = [pc EXCEPT ![d] = "listen"]
          /\ UNCHANGED <<stopping, busy, todo, unposted, answer, faults>>
      BY <1>18 DEF PollRequests, Go
    <3>3. \A r \in Req : /\ r \in some => request'[r] = "claimed"
                         /\ request[r] \in {"claimed", "gone"} => request'[r] = request[r]
      BY <2>2, <3>1 DEF Take
    <3> HIDE DEF some
    <3>4. MemoryTypeOK'
      BY <2>2, <3>1, <3>2, DispatcherAssumption DEF Memory, MemoryTypeOK, Places, Stages
    <3>5. \A e \in Disp, r \in Req : \/ job'[e][r] = job[e][r]
                                     \/ e = d /\ r \in some /\ job'[e][r].at = "running"
      BY <2>2 DEF Memory, MemoryTypeOK
    <3>6. HandsClaimed'
      BY <3>2, <3>3, <3>5 DEF Memory, HandsClaimed, InHand
    <3>7. TodoKept'
      BY <3>2 DEF Memory, MemoryTypeOK, TodoKept, Posting
    <3>8. \A r \in some : job[d][r].at = "none"
      BY <3>1 DEF Memory, HandsClaimed, InHand
    <3>9. WorkersPost'
      BY <3>1, <3>2, <3>5, <3>8 DEF Memory, WorkersPost
    <3>10. QED
      BY <3>4, <3>6, <3>7, <3>9 DEF Memory
  <2>3. QED
    BY <1>18, <2>1, <2>2 DEF PollRequests, Memory, MemoryTypeOK
<1>19. ASSUME NEW d \in Disp, QueryFails(d) PROVE Memory'
  <2>1. \A r \in Req : request[r] \in {"claimed", "gone"} => request'[r] \in {"claimed", "gone"}
    BY <1>19 DEF QueryFails, Take, promised
  <2>2. UNCHANGED <<stopping, busy, todo, jobVars, answer>> /\ faults' \in 0..MaxFaults
    BY <1>19, DispatcherAssumption DEF QueryFails, Fault, jobVars, Memory, MemoryTypeOK
  <2>3. /\ dirty' \in [Disp -> BOOLEAN] /\ pc' \in [Disp -> Places]
        /\ \A e \in Disp : Posting(e)' => Posting(e)
    BY <1>19 DEF QueryFails, Go, Places, Posting, Memory, MemoryTypeOK
  <2>4. QED
    BY <2>1, <2>2, <2>3
    DEF jobVars, Memory, MemoryTypeOK, HandsClaimed, InHand, TodoKept, WorkersPost
<1>20. ASSUME NEW d \in Disp, NEW r \in Req,
              FinishJob(d, r) \/ KeepReply(d, r) \/ LeaveActive(d, r) \/ JobDone(d, r)
       PROVE  Memory'
  <2>1. job[d][r].at \in {"running", "keep", "leave", "done"} /\ answer[<<d, r>>] = NoTx
        /\ request[r] \in {"claimed", "gone"}
    BY <1>20 DEF FinishJob, KeepReply, LeaveActive, JobDone, Memory, WorkersPost,
       HandsClaimed, InHand
  <2>2. UNCHANGED <<request, pc, stopping, busy, todo, answer, faults>>
    BY <1>20 DEF FinishJob, KeepReply, LeaveActive, JobDone, promised, dispVars
  <2>3. PICK at \in Stages : job' = [job EXCEPT ![d][r] = [at |-> at, tries |-> 0]]
    BY <1>20 DEF FinishJob, KeepReply, LeaveActive, JobDone, SetJob, Stages
  <2>4. dirty' \in [Disp -> BOOLEAN] /\ active' \in [Disp -> SUBSET Req]
    BY <1>20 DEF FinishJob, KeepReply, LeaveActive, JobDone, dispVars, Memory, MemoryTypeOK
  <2>5. UNCHANGED unposted \/ unposted' = [unposted EXCEPT ![d][r] = "verdict"]
    BY <1>20 DEF FinishJob, KeepReply, LeaveActive, JobDone
  <2>6. /\ \A e \in Disp, q \in Req : (e # d \/ q # r) => unposted'[e][q] = unposted[e][q]
        /\ unposted[d][r] # None => unposted'[d][r] # None
        /\ unposted' \in [Disp -> [Req -> Codes \cup {None}]]
    <3>1. unposted \in [Disp -> [Req -> Codes \cup {None}]]
      BY DEF Memory, MemoryTypeOK
    <3>2. "verdict" \in Codes /\ "verdict" # None
      BY DispatcherAssumption DEF None
    <3>3. QED
      BY <2>5, <3>1, <3>2
  <2>7. /\ job' \in [Disp -> [Req -> [at : Stages, tries : 0..Attempts]]]
        /\ \A e \in Disp, q \in Req : (e # d \/ q # r) => job'[e][q] = job[e][q]
    BY <2>3, DispatcherAssumption DEF Memory, MemoryTypeOK
  <2>8. MemoryTypeOK'
    BY <2>2, <2>4, <2>6, <2>7 DEF Memory, MemoryTypeOK
  <2>9. HandsClaimed'
    BY <2>1, <2>2, <2>6, <2>7 DEF Memory, HandsClaimed, InHand
  <2>10. TodoKept'
    BY <2>2, <2>6 DEF Memory, MemoryTypeOK, TodoKept, Posting
  <2>11. WorkersPost'
    BY <2>1, <2>2, <2>7 DEF Memory, WorkersPost
  <2>12. QED
    BY <2>8, <2>9, <2>10, <2>11 DEF Memory
<1>21. ASSUME NEW d \in Disp, NEW r \in Req, PostReply(d, r) PROVE Memory'
  <2>1. \A e \in Disp, q \in Req : answer'[<<e, q>>] = answer[<<e, q>>] \/ (e = d /\ q = r)
    BY <1>21 DEF PostReply, LockRequest, Worker, Database, DatabaseTypeOK
  <2>2. job[d][r].at = "posting" /\ UNCHANGED <<promised, dispVars, jobVars, faults>>
    BY <1>21 DEF PostReply
  <2>3. QED
    BY <2>1, <2>2 DEF Go, Places, promised, dispVars, jobVars, mainRest, Fault, Memory,
       MemoryTypeOK, HandsClaimed, InHand, TodoKept, Posting, WorkersPost
<1>22. ASSUME NEW d \in Disp, NEW r \in Req, ReplyPosted(d, r) \/ ReplyFailed(d, r)
       PROVE  Memory'
  <2> DEFINE w == <<d, r>>
  <2>1. w \in Worker /\ (CommitAnswer(w) \/ (EndAnswer(w) /\ UNCHANGED promised))
    BY <1>22 DEF ReplyPosted, ReplyFailed, FailAnswer, Worker
  <2>2. answer[w] # NoTx /\ answer' = [answer EXCEPT ![w] = NoTx] /\ UNCHANGED request
    BY <2>1, EndAnswerEffect
  <2>3. job[d][r].at = "posting" /\ request[r] \in {"claimed", "gone"}
    BY <2>2 DEF Memory, WorkersPost, HandsClaimed, InHand
  <2>4. \E at \in Stages \ {"none"}, n \in 0..Attempts :
          job' = [job EXCEPT ![d][r] = [at |-> at, tries |-> n]]
    <3>1. CASE ReplyPosted(d, r)
      <4>1. "leave" \in Stages \ {"none"} /\ 0 \in 0..Attempts
        BY DispatcherAssumption DEF Stages
      <4>2. job' = [job EXCEPT ![d][r] = [at |-> "leave", tries |-> 0]]
        BY <3>1 DEF ReplyPosted, SetJob
      <4>3. QED
        BY <4>1, <4>2
    <3>2. CASE ReplyFailed(d, r)
      <4> DEFINE tries == job[d][r].tries + 1
      <4>1. tries < Attempts => tries \in 0..Attempts
        BY DispatcherAssumption DEF Memory, MemoryTypeOK
      <4>2. {"posting", "keep"} \subseteq Stages \ {"none"} /\ 0 \in 0..Attempts
        BY DispatcherAssumption DEF Stages
      <4>3. IF tries < Attempts
            THEN job' = [job EXCEPT ![d][r] = [at |-> "posting", tries |-> tries]]
            ELSE job' = [job EXCEPT ![d][r] = [at |-> "keep", tries |-> 0]]
        BY <3>2 DEF ReplyFailed, SetJob
      <4> HIDE DEF tries
      <4>4. QED
        BY <4>1, <4>2, <4>3
    <3>3. QED
      BY <1>22, <3>1, <3>2
  <2>5. UNCHANGED <<dispVars, active, unposted>> /\ faults' \in 0..MaxFaults
    BY <1>22, DispatcherAssumption
    DEF ReplyPosted, ReplyFailed, FailAnswer, Fault, Memory, MemoryTypeOK
  <2>6. \A e \in Disp, q \in Req : answer'[<<e, q>>] # NoTx =>
                                     answer[<<e, q>>] # NoTx /\ (e # d \/ q # r)
    BY <2>2 DEF Worker, Database, DatabaseTypeOK
  <2>7. \A e \in Disp, q \in Req : (e # d \/ q # r) => job'[e][q] = job[e][q]
    BY <2>4 DEF Memory, MemoryTypeOK
  <2>8. MemoryTypeOK'
    BY <2>4, <2>5 DEF dispVars, Memory, MemoryTypeOK
  <2>9. HandsClaimed'
    BY <2>2, <2>3, <2>7, <2>5 DEF dispVars, Memory, HandsClaimed, InHand
  <2>10. TodoKept' /\ WorkersPost'
    BY <2>6, <2>7, <2>5 DEF dispVars, Memory, TodoKept, Posting, WorkersPost
  <2>11. QED
    BY <2>8, <2>9, <2>10 DEF Memory
<1>23. QED
  BY <1>1, <1>2, <1>3, <1>4, <1>5, <1>6, <1>7, <1>8, <1>9, <1>10, <1>11, <1>12, <1>13,
     <1>14, <1>15, <1>16, <1>17, <1>18, <1>19, <1>20, <1>21, <1>22
  DEF Next, MainStep, JobStep

-----------------------------------------------------------------------------
(* The theorems. *)

LEMMA InitIInv == Init => IInv
BY DispatcherAssumption
DEF Init, PromiseInit, IInv, Database, DatabaseTypeOK, AnswersLocked, AtMostOneReply, Memory,
    MemoryTypeOK, HandsClaimed, InHand, TodoKept, Posting, WorkersPost, RequestStates, Places,
    Stages, NoJob, Worker

LEMMA StutterKeepsIInv ==
  ASSUME IInv, UNCHANGED vars PROVE IInv'
BY DEF vars, promised, dispVars, jobVars, IInv, Database, DatabaseTypeOK, AnswersLocked,
   AtMostOneReply, Memory, MemoryTypeOK, HandsClaimed, InHand, TodoKept, Posting, WorkersPost

LEMMA DispatcherInvariant == Spec => []IInv
<1>1. IInv /\ [Next]_vars => IInv'
  BY DatabaseStep, MemoryStep, StutterKeepsIInv DEF IInv
<1>2. QED
  BY InitIInv, <1>1, PTL DEF Spec

(* Every reachable state is well typed, for any number of requests and     *)
(* dispatchers: the row locks and transactions of answer_request and the   *)
(* dispatchers' memory (service.py).                                       *)
THEOREM DispatcherTypeCorrect == Spec => []TypeOK
<1>1. IInv => TypeOK
  BY DEF IInv, Database, Memory, TypeOK
<1>2. QED
  BY <1>1, DispatcherInvariant, PTL

(* A request has at most one reply, however many dispatchers claim under   *)
(* the VM's name and whatever they lose (answer_request's row lock).       *)
THEOREM OneReplyEver == Spec => []AtMostOneReply
<1>1. IInv => AtMostOneReply
  BY DEF IInv, Database
<1>2. QED
  BY <1>1, DispatcherInvariant, PTL

(* The dispatchers keep what the mailbox promises a requester: every step  *)
(* of theirs submits, claims, answers or prunes requests as Requests       *)
(* allows, or leaves rows and replies alone.                               *)
THEOREM DispatcherKeepsPromise == Spec => PromiseSpec
<1>1. Init => PromiseInit
  BY DEF Init
<1>2. ASSUME IInv, Next PROVE [PromiseNext]_promised
  <2>1. ASSUME NEW r \in Req, Submit(r) \/ Expire(r) \/ Prune(r) PROVE [PromiseNext]_promised
    BY <2>1 DEF Submit, Expire, Prune, PromiseNext
  <2>2. ASSUME NEW w \in Worker, CommitAnswer(w) PROVE [PromiseNext]_promised
    <3> DEFINE tx == answer[w]
    <3>1. tx # NoTx /\ UNCHANGED request
          /\ replies' = IF tx.found THEN replies
                        ELSE [replies EXCEPT ![tx.req] = Append(@, tx.code)]
      BY <2>2 DEF CommitAnswer, EndAnswer
    <3>2. tx.req \in Req /\ tx.code \in Codes
      BY <1>2, <3>1, AnswerTyped DEF IInv, Database
    <3>3. CASE tx.found
      BY <3>1, <3>3 DEF promised
    <3>4. CASE ~tx.found
      <4>1. request[tx.req] = "claimed" /\ replies[tx.req] = <<>>
        BY <1>2, <3>1, <3>4 DEF IInv, Database, AnswersLocked
      <4>2. replies' = [replies EXCEPT ![tx.req] = <<tx.code>>]
        BY <3>1, <3>4, <4>1
      <4>3. Answered(tx.req, tx.code)
        BY <3>1, <4>1, <4>2 DEF Answered
      <4>4. QED
        BY <3>2, <4>3 DEF PromiseNext
    <3>5. QED
      BY <3>3, <3>4
  <2>3. ASSUME NEW n, Take(Oldest(n)), UNCHANGED replies PROVE [PromiseNext]_promised
    <3>1. Claimed(Oldest(n)) /\ Oldest(n) \in SUBSET Req
      BY <2>3, TakesQueued DEF Claimed, Take
    <3>2. QED
      BY <3>1 DEF PromiseNext
  <2>4. ASSUME NEW d \in Disp,
               \/ MainStep(d) \/ UnrepliedFailed(d) \/ QueryFails(d)
               \/ \E r \in Req : JobStep(d, r) \/ ReplyFailed(d, r)
        PROVE  \/ \E w \in Worker : CommitAnswer(w)
               \/ \E n : Take(Oldest(n)) /\ UNCHANGED replies
               \/ UNCHANGED promised
    <3>1. CASE MainStep(d)
      BY <3>1 DEF MainStep, Connect, Sweep, Tick, Listen, Notice, Reconnect, Drain, Snapshot,
         AnswerUnreplied, UnrepliedPosted, Orphaned, AnsweredAll, PollRequests, Exit, mainRest,
         Worker
    <3>2. CASE UnrepliedFailed(d) \/ QueryFails(d)
      BY <3>2 DEF UnrepliedFailed, FailAnswer, QueryFails, promised, Worker
    <3>3. CASE \E r \in Req : JobStep(d, r) \/ ReplyFailed(d, r)
      BY <3>3 DEF JobStep, FinishJob, PostReply, ReplyPosted, KeepReply, LeaveActive, JobDone,
         ReplyFailed, FailAnswer, Worker
    <3>4. QED
      BY <2>4, <3>1, <3>2, <3>3
  <2>5. ASSUME NEW d \in Disp, Start(d) \/ Sigterm(d) \/ DropConnection(d) \/ Crash(d)
        PROVE  UNCHANGED promised
    BY <2>5 DEF Start, Sigterm, DropConnection, Crash, mainRest
  <2>6. QED
    BY <1>2, <2>1, <2>2, <2>3, <2>4, <2>5 DEF Next
<1>3. UNCHANGED vars => UNCHANGED promised
  BY DEF vars
<1>4. QED
  BY <1>1, <1>2, <1>3, DispatcherInvariant, PTL DEF Spec, PromiseSpec

-----------------------------------------------------------------------------
(* What a dispatcher says of its own jobs. *)

(* Its job is active until its reply is posted or kept; a request it gave  *)
(* up on is not active; while it answers what was left unanswered, what it *)
(* runs and the verdicts it keeps are in the snapshot and nothing of them  *)
(* is among the orphans; and the reply it has open is the one it kept, or  *)
(* an orphan's.                                                            *)
Own(d) ==
  /\ \A r \in Req : job[d][r].at \in {"running", "posting", "keep", "leave"} => r \in active[d]
  /\ \A r \in Req : unposted[d][r] = "interrupted" => r \notin active[d]
  /\ Posting(d) =>
       active[d] \subseteq busy[d] /\ \A r \in Req : unposted[d][r] = "verdict" => r \in busy[d]
  /\ Orphaning(d) => \A r \in todo[d] : r \notin active[d] /\ unposted[d][r] # "verdict"
  /\ answer[<<d, Main>>] # NoTx =>
       LET tx == answer[<<d, Main>>]
       IN  /\ tx.req \in todo[d] /\ (Posting(d) \/ Orphaning(d))
           /\ Posting(d) => tx.code = unposted[d][tx.req]
           /\ Orphaning(d) => tx.code = "interrupted"

Owns == \A d \in Disp : Own(d)

Seen(d) == <<pc[d], busy[d], todo[d], job[d], active[d], unposted[d], answer[<<d, Main>>]>>

LEMMA SameOwn ==
  ASSUME NEW d \in Disp, Own(d), Seen(d)' = Seen(d) PROVE Own(d)'
BY DEF Own, Seen, Posting, Orphaning

(* The main thread goes on to a place where it answers nothing. *)
LEMMA MovesOwn ==
  ASSUME NEW d \in Disp, Own(d), pc'[d] \notin {"unposted", "lastUnposted", "orphans", "lastOrphans"},
         answer[<<d, Main>>] = NoTx, UNCHANGED <<job, active, answer>>,
         \/ unposted'[d] = unposted[d]
         \/ \A r \in Req : unposted'[d][r] = None
  PROVE  Own(d)'
<1>1. ~Posting(d)' /\ ~Orphaning(d)'
  BY DEF Posting, Orphaning
<1>2. None # "interrupted"
  BY DEF None
<1>3. QED
  BY <1>1, <1>2 DEF Own

LEMMA OwnStep ==
  ASSUME IInv, Owns, Next PROVE Owns'
<1> SUFFICES ASSUME NEW e \in Disp PROVE Own(e)'
  BY DEF Owns
<1> USE DEF IInv
<1>0. Own(e)
  BY DEF Owns
<1>1. ASSUME NEW r \in Req, Submit(r) \/ Expire(r) \/ Prune(r) PROVE Own(e)'
  BY <1>0, <1>1, SameOwn DEF Submit, Expire, Prune, dispVars, jobVars, Seen
<1>2. ASSUME NEW d \in Disp, Start(d) \/ Connect(d) \/ Tick(d) \/ Listen(d) \/ Notice(d) \/ Reconnect(d)
               \/ Exit(d)
      PROVE  Own(e)'
  <2>1. CASE e # d
    BY <1>0, <1>2, <2>1, SameOwn
    DEF Start, Connect, Tick, Listen, Notice, Reconnect, Exit, Go, mainRest, Seen, Memory,
        MemoryTypeOK
  <2>2. CASE e = d
    <3>1. pc[d] \in {"down", "offline", "tick", "listen", "failed", "joining"}
      BY <1>2 DEF Start, Connect, Tick, Listen, Notice, Reconnect, Exit
    <3>2. answer[<<d, Main>>] = NoTx
      BY <1>0, <2>2, <3>1 DEF Own, Posting, Orphaning
    <3>3. pc'[d] \in {"down", "offline", "connected", "joining", "poll", "tick", "failed"}
      BY <1>2 DEF Start, Connect, Tick, Listen, Notice, Reconnect, Exit, Go, Memory, MemoryTypeOK
    <3>4. UNCHANGED <<job, active, answer>>
      BY <1>2 DEF Start, Connect, Tick, Listen, Notice, Reconnect, Exit, mainRest
    <3>5. unposted'[d] = unposted[d] \/ \A r \in Req : unposted'[d][r] = None
      BY <1>2 DEF Start, Connect, Tick, Listen, Notice, Reconnect, Exit, mainRest, Memory, MemoryTypeOK
    <3>6. QED
      BY <1>0, <2>2, <3>2, <3>3, <3>4, <3>5, MovesOwn
  <2>3. QED
    BY <2>1, <2>2
<1>3. ASSUME NEW d \in Disp, Sweep(d) \/ Drain(d) PROVE Own(e)'
  <2>1. CASE e # d
    BY <1>0, <1>3, <2>1, SameOwn
    DEF Sweep, Drain, Snapshot, Go, mainRest, Seen, Memory, MemoryTypeOK
  <2>2. CASE e = d
    <3>1. pc[d] \in {"connected", "tick", "failed"}
      BY <1>3 DEF Sweep, Drain
    <3>2. answer[<<d, Main>>] = NoTx
      BY <1>0, <2>2, <3>1 DEF Own, Posting, Orphaning
    <3>3. /\ busy'[d] = active[d] \cup Kept(d) /\ pc'[d] \in {"unposted", "lastUnposted"}
          /\ UNCHANGED <<job, active, answer, unposted>>
      BY <1>3 DEF Sweep, Drain, Snapshot, Go, mainRest, Memory, MemoryTypeOK
    <3>4. \A r \in Req : unposted[d][r] = "verdict" => r \in Kept(d)
      BY DEF Kept, None
    <3>5. Posting(d)' /\ ~Orphaning(d)'
      BY <3>3 DEF Posting, Orphaning
    <3>6. QED
      BY <1>0, <2>2, <3>2, <3>3, <3>4, <3>5 DEF Own
  <2>3. QED
    BY <2>1, <2>2
<1>4. ASSUME NEW d \in Disp, Orphaned(d) PROVE Own(e)'
  <2>1. CASE e # d
    BY <1>0, <1>4, <2>1, SameOwn DEF Orphaned, Go, mainRest, Seen
  <2>2. CASE e = d
    <3>1. Posting(d) /\ answer[<<d, Main>>] = NoTx
      BY <1>4 DEF Orphaned
    <3>2. /\ todo'[d] = Orphans \ busy[d] /\ pc'[d] \in {"orphans", "lastOrphans"}
          /\ UNCHANGED <<job, active, answer, unposted, busy>>
      BY <1>4 DEF Orphaned, Go, mainRest, Memory, MemoryTypeOK
    <3>3. ~Posting(d)' /\ Orphaning(d)'
      BY <3>2 DEF Posting, Orphaning
    <3>4. Orphans \subseteq Req
      BY DEF Orphans
    <3>5. QED
      BY <1>0, <2>2, <3>1, <3>2, <3>3, <3>4 DEF Own
  <2>3. QED
    BY <2>1, <2>2
<1>5. ASSUME NEW d \in Disp, AnsweredAll(d) \/ QueryFails(d) PROVE Own(e)'
  <2>1. CASE e # d
    BY <1>0, <1>5, <2>1, SameOwn
    DEF AnsweredAll, QueryFails, Fault, Go, mainRest, Seen, Memory, MemoryTypeOK
  <2>2. CASE e = d
    <3>1. todo[d] = {} \/ pc[d] = "poll"
      BY <1>5 DEF AnsweredAll, QueryFails
    <3>2. answer[<<d, Main>>] = NoTx
      BY <1>0, <2>2, <3>1 DEF Own, Posting, Orphaning
    <3>3. pc'[d] \in {"poll", "joining", "failed"} /\ UNCHANGED <<job, active, answer, unposted>>
      BY <1>5 DEF AnsweredAll, QueryFails, Fault, Go, mainRest, Memory, MemoryTypeOK
    <3>4. QED
      BY <1>0, <2>2, <3>2, <3>3, MovesOwn
  <2>3. QED
    BY <2>1, <2>2
<1>6. ASSUME NEW d \in Disp, Sigterm(d) \/ DropConnection(d) PROVE Own(e)'
  BY <1>0, <1>6, SameOwn DEF Sigterm, DropConnection, Fault, mainRest, dispVars, Seen
<1>7. ASSUME NEW d \in Disp, Crash(d) PROVE Own(e)'
  <2>1. CASE e # d
    BY <1>0, <1>7, <2>1, SameOwn
    DEF Crash, Fault, Go, Seen, Worker, Memory, MemoryTypeOK, Database, DatabaseTypeOK
  <2>2. CASE e = d
    <3>1. /\ pc'[d] = "down" /\ active'[d] = {} /\ answer'[<<d, Main>>] = NoTx
          /\ \A r \in Req : job'[d][r] = NoJob /\ unposted'[d][r] = None
      BY <1>7 DEF Crash, Go, Worker, Memory, MemoryTypeOK
    <3>2. ~Posting(d)' /\ ~Orphaning(d)'
      BY <3>1 DEF Posting, Orphaning
    <3>3. QED
      BY <2>2, <3>1, <3>2 DEF Own, NoJob, None
  <2>3. QED
    BY <2>1, <2>2
<1>8. ASSUME NEW d \in Disp, NEW r \in Req, AnswerUnreplied(d, r) PROVE Own(e)'
  <2>1. /\ UNCHANGED <<pc, busy, todo, job, active, unposted>>
        /\ r \in todo[d] /\ answer[<<d, Main>>] = NoTx
    BY <1>8 DEF AnswerUnreplied, LockRequest, dispVars, jobVars
  <2>2. CASE e # d
    <3>1. answer'[<<e, Main>>] = answer[<<e, Main>>]
      BY <1>8, <2>2 DEF AnswerUnreplied, LockRequest, Worker, Database, DatabaseTypeOK
    <3>2. QED
      BY <1>0, <2>1, <3>1, SameOwn DEF Seen
  <2>3. CASE e = d
    <3>1. PICK code : /\ LockRequest(<<d, Main>>, r, code)
                      /\ (Posting(d) /\ code = unposted[d][r]) \/ (Orphaning(d) /\ code = "interrupted")
      BY <1>8 DEF AnswerUnreplied
    <3>2. answer'[<<d, Main>>].req = r /\ answer'[<<d, Main>>].code = code
      BY <3>1 DEF LockRequest, Worker, Database, DatabaseTypeOK
    <3>3. ~(Posting(d) /\ Orphaning(d)) /\ (Posting(d)' <=> Posting(d)) /\ (Orphaning(d)' <=> Orphaning(d))
      BY <2>1 DEF Posting, Orphaning
    <3>4. QED
      BY <1>0, <2>1, <2>3, <3>1, <3>2, <3>3 DEF Own
  <2>4. QED
    BY <2>2, <2>3
<1>9. ASSUME NEW d \in Disp, UnrepliedPosted(d) \/ UnrepliedFailed(d) PROVE Own(e)'
  <2> DEFINE w == <<d, Main>>
             r == answer[w].req
  <2>1. w \in Worker /\ (CommitAnswer(w) \/ (EndAnswer(w) /\ UNCHANGED promised))
    BY <1>9 DEF UnrepliedPosted, UnrepliedFailed, FailAnswer, Worker
  <2>2. answer[w] # NoTx /\ answer' = [answer EXCEPT ![w] = NoTx] /\ r \in Req
    BY <2>1, EndAnswerEffect
  <2>3. todo' = [todo EXCEPT ![d] = @ \ {r}] /\ UNCHANGED <<pc, busy, job, active>>
    BY <1>9 DEF UnrepliedPosted, UnrepliedFailed
  <2>4. \/ UNCHANGED unposted
        \/ Posting(d) /\ unposted' = [unposted EXCEPT ![d][r] = None]
        \/ ~Posting(d) /\ unposted' = [unposted EXCEPT ![d][r] = "interrupted"]
    <3>1. CASE UnrepliedPosted(d)
      BY <3>1 DEF UnrepliedPosted
    <3>2. CASE UnrepliedFailed(d)
      BY <3>2 DEF UnrepliedFailed
    <3>3. QED
      BY <1>9, <3>1, <3>2
  <2> HIDE DEF r
  <2>5. CASE e # d
    <3>1. /\ todo'[e] = todo[e] /\ unposted'[e] = unposted[e]
          /\ answer'[<<e, Main>>] = answer[<<e, Main>>]
      BY <2>2, <2>3, <2>4, <2>5 DEF Worker, Memory, MemoryTypeOK, Database, DatabaseTypeOK
    <3>2. QED
      BY <1>0, <2>3, <3>1, SameOwn DEF Seen
  <2>6. CASE e = d
    <3>1. todo'[d] = todo[d] \ {r} /\ answer'[<<d, Main>>] = NoTx
      BY <2>1, <2>2, <2>3 DEF Memory, MemoryTypeOK, Database, DatabaseTypeOK
    <3>2. r \in todo[d] /\ (Posting(d) \/ Orphaning(d))
      BY <1>0, <2>2, <2>6 DEF Own, r
    <3>3. \A q \in Req : q # r => unposted'[d][q] = unposted[d][q]
      BY <2>4 DEF Memory, MemoryTypeOK
    <3>4. unposted'[d][r] = unposted[d][r] \/ unposted'[d][r] = None
          \/ (~Posting(d) /\ unposted'[d][r] = "interrupted")
      BY <2>2, <2>4 DEF Memory, MemoryTypeOK
    <3>5. (Posting(d)' <=> Posting(d)) /\ (Orphaning(d)' <=> Orphaning(d))
      BY <2>3 DEF Posting, Orphaning
    <3>6. \A q \in Req : unposted'[d][q] = "interrupted" => q \notin active[d]
      BY <1>0, <2>6, <3>2, <3>3, <3>4 DEF Own, None
    <3>7. \A q \in Req : unposted'[d][q] = "verdict" => unposted[d][q] = "verdict"
      BY <3>3, <3>4 DEF None
    <3>8. todo[d] \subseteq Req
      BY DEF Memory, MemoryTypeOK
    <3>9. QED
      BY <1>0, <2>3, <2>6, <3>1, <3>5, <3>6, <3>7, <3>8 DEF Own
  <2>7. QED
    BY <2>5, <2>6
<1>10. ASSUME NEW d \in Disp, PollRequests(d) PROVE Own(e)'
  <2> DEFINE some == Oldest(MaxJobs - Cardinality(Jobs(d)))
  <2>1. /\ pc[d] = "poll" /\ pc' = [pc EXCEPT ![d] = "listen"]
        /\ UNCHANGED <<busy, todo, unposted, answer>>
    BY <1>10 DEF PollRequests, Go
  <2>2. \/ UNCHANGED <<active, job>>
        \/ /\ active' = [active EXCEPT ![d] = @ \cup some]
           /\ job' = [job EXCEPT ![d] = [r \in Req |->
                         IF r \in some THEN [at |-> "running", tries |-> 0] ELSE @[r]]]
    BY <1>10 DEF PollRequests
  <2>3. some \subseteq {r \in Req : request[r] = "queued"}
    BY TakesQueued
  <2> HIDE DEF some
  <2>4. CASE e # d
    BY <1>0, <2>1, <2>2, <2>4, SameOwn DEF Seen, Memory, MemoryTypeOK
  <2>5. CASE e = d
    <3>1. answer[<<d, Main>>] = NoTx
      BY <1>0, <2>1, <2>5 DEF Own, Posting, Orphaning
    <3>2. ~Posting(d)' /\ ~Orphaning(d)'
      BY <2>1 DEF Posting, Orphaning, Memory, MemoryTypeOK
    <3>3. \A r \in some : unposted[d][r] = None
      BY <2>3 DEF Memory, HandsClaimed, InHand
    <3>4. \A r \in Req : r \in active'[d] => r \in active[d] \/ r \in some
      BY <2>2 DEF Memory, MemoryTypeOK
    <3>5. \A r \in Req : job'[d][r].at \in {"running", "posting", "keep", "leave"} => r \in active'[d]
      BY <1>0, <2>2, <2>5 DEF Own, Memory, MemoryTypeOK
    <3>6. QED
      BY <1>0, <2>1, <2>5, <3>1, <3>2, <3>3, <3>4, <3>5 DEF Own, None
  <2>6. QED
    BY <2>4, <2>5
<1>11. ASSUME NEW d \in Disp, NEW r \in Req, JobStep(d, r) \/ ReplyFailed(d, r) PROVE Own(e)'
  <2>1. /\ UNCHANGED <<pc, busy, todo>>
        /\ answer'[<<e, Main>>] = answer[<<e, Main>>]
    <3>1. <<d, r>> # <<e, Main>>
      BY NoTxIsNoRequest
    <3>2. UNCHANGED answer \/ \E v : answer' = [answer EXCEPT ![<<d, r>>] = v]
      BY <1>11 DEF JobStep, FinishJob, PostReply, ReplyPosted, KeepReply, LeaveActive, JobDone,
         ReplyFailed, FailAnswer, CommitAnswer, EndAnswer, LockRequest
    <3>3. UNCHANGED <<pc, busy, todo>>
      BY <1>11 DEF JobStep, FinishJob, PostReply, ReplyPosted, KeepReply, LeaveActive, JobDone,
         ReplyFailed, dispVars
    <3>4. <<e, Main>> \in Worker
      BY DEF Worker
    <3>5. QED
      BY <3>1, <3>2, <3>3, <3>4 DEF Database, DatabaseTypeOK
  <2>2. (Posting(e)' <=> Posting(e)) /\ (Orphaning(e)' <=> Orphaning(e))
    BY <2>1 DEF Posting, Orphaning
  <2>3. CASE FinishJob(d, r) \/ PostReply(d, r) \/ ReplyPosted(d, r) \/ ReplyFailed(d, r)
    <3>1. UNCHANGED <<active, unposted>>
      BY <2>3 DEF FinishJob, PostReply, ReplyPosted, ReplyFailed, jobVars
    <3>2. job[d][r].at \in {"running", "posting"} \/ job' = job
      <4>1. <<d, r>> \in Worker
        BY DEF Worker
      <4>2. ReplyPosted(d, r) \/ ReplyFailed(d, r) => answer[<<d, r>>] # NoTx
        BY DEF ReplyPosted, ReplyFailed, FailAnswer, CommitAnswer, EndAnswer
      <4>3. QED
        BY <2>3, <4>2 DEF FinishJob, PostReply, jobVars, Memory, WorkersPost
    <3>3. \A q \in Req : q # r \/ e # d => job'[e][q] = job[e][q]
      BY <2>3 DEF FinishJob, PostReply, ReplyPosted, ReplyFailed, SetJob, jobVars, Memory, MemoryTypeOK
    <3>4. QED
      BY <1>0, <2>1, <2>2, <3>1, <3>2, <3>3 DEF Own
  <2>4. CASE KeepReply(d, r)
    <3>1. UNCHANGED active /\ unposted' = [unposted EXCEPT ![d][r] = "verdict"] /\ job[d][r].at = "keep"
      BY <2>4 DEF KeepReply
    <3>2. \A q \in Req : q # r \/ e # d => job'[e][q] = job[e][q] /\ unposted'[e][q] = unposted[e][q]
      BY <2>4, <3>1 DEF KeepReply, SetJob, Memory, MemoryTypeOK
    <3>3. unposted'[d][r] = "verdict"
      BY <3>1 DEF Memory, MemoryTypeOK
    <3>4. CASE e # d
      <4>1. job'[e] = job[e] /\ unposted'[e] = unposted[e]
        BY <2>4, <3>1, <3>4 DEF KeepReply, SetJob, Memory, MemoryTypeOK
      <4>2. QED
        BY <1>0, <2>1, <3>1, <4>1, SameOwn DEF Seen
    <3>5. CASE e = d
      <4>1. r \in active[d]
        BY <1>0, <3>1, <3>5 DEF Own
      <4>2. answer[<<d, Main>>] # NoTx /\ answer[<<d, Main>>].req = r /\ Posting(d)
              => answer[<<d, Main>>].code = "verdict"
        <5>1. SUFFICES ASSUME answer[<<d, Main>>] # NoTx, answer[<<d, Main>>].req = r, Posting(d)
                       PROVE  answer[<<d, Main>>].code = "verdict"
          OBVIOUS
        <5>2. answer[<<d, Main>>].code = unposted[d][r] /\ r \in todo[d] /\ unposted[d][r] # "interrupted"
          BY <1>0, <3>5, <4>1, <5>1 DEF Own
        <5>3. unposted[d][r] \in Codes \cup {None} /\ unposted[d][r] # None
          BY <5>1, <5>2 DEF Memory, MemoryTypeOK, TodoKept
        <5>4. QED
          BY <5>2, <5>3, DispatcherAssumption
      <4>3. todo[d] \subseteq Req
        BY DEF Memory, MemoryTypeOK
      <4>4. \A q \in Req : job'[d][q].at \in {"running", "posting", "keep", "leave"} => q \in active[d]
        BY <1>0, <3>2, <3>5, <4>1 DEF Own
      <4>5. \A q \in Req : unposted'[d][q] = "interrupted" => q \notin active[d]
        BY <1>0, <3>2, <3>3, <3>5 DEF Own
      <4>6. Posting(d) => active[d] \subseteq busy[d] /\ \A q \in Req : unposted'[d][q] = "verdict" => q \in busy[d]
        BY <1>0, <3>2, <3>5, <4>1 DEF Own
      <4>7. Orphaning(d) => \A q \in todo[d] : q \notin active[d] /\ unposted'[d][q] # "verdict"
        BY <1>0, <3>2, <3>5, <4>1, <4>3 DEF Own
      <4>8. answer[<<d, Main>>] # NoTx =>
              LET tx == answer[<<d, Main>>]
              IN  /\ tx.req \in todo[d] /\ (Posting(d) \/ Orphaning(d))
                  /\ Posting(d) => tx.code = unposted'[d][tx.req]
                  /\ Orphaning(d) => tx.code = "interrupted"
        BY <1>0, <3>2, <3>3, <3>5, <4>2, <4>3 DEF Own
      <4>9. QED
        BY <2>1, <2>2, <3>1, <3>5, <4>4, <4>5, <4>6, <4>7, <4>8 DEF Own
    <3>6. QED
      BY <3>4, <3>5
  <2>5. CASE LeaveActive(d, r) \/ JobDone(d, r)
    <3>1. /\ UNCHANGED unposted /\ active'[e] \subseteq active[e]
          /\ \A q \in Req : q # r \/ e # d => (q \in active'[e] <=> q \in active[e])
          /\ e = d => job'[d][r].at \in {"done", "none"}
          /\ \A q \in Req : q # r \/ e # d => job'[e][q] = job[e][q]
      BY <2>5 DEF LeaveActive, JobDone, SetJob, Memory, MemoryTypeOK
    <3>2. QED
      BY <1>0, <2>1, <2>2, <3>1 DEF Own
  <2>6. QED
    BY <1>11, <2>3, <2>4, <2>5 DEF JobStep
<1>12. QED
  BY <1>1, <1>2, <1>3, <1>4, <1>5, <1>6, <1>7, <1>8, <1>9, <1>10, <1>11 DEF Next, MainStep

LEMMA OwnsAlways == Spec => [](IInv /\ Owns)
<1>1. Init => Owns
  BY DEF Init, Owns, Own, Posting, Orphaning, NoJob, None, Worker
<1>2. IInv /\ Owns /\ [Next]_vars => Owns'
  <2>1. CASE Next
    BY <2>1, OwnStep
  <2>2. CASE UNCHANGED vars
    BY <2>2 DEF vars, dispVars, jobVars, Owns, Own, Posting, Orphaning
  <2>3. QED
    BY <2>1, <2>2
<1>3. QED
  BY <1>1, <1>2, DispatcherInvariant, PTL DEF Spec

(* A worker answers the request that it ran.                               *)
WorkersOwn == \A d \in Disp, r \in Req : answer[<<d, r>>] # NoTx => answer[<<d, r>>].req = r

LEMMA WorkersOwnAlways == Spec => []WorkersOwn
<1>1. Init => WorkersOwn
  BY DEF Init, WorkersOwn, Worker
<1>2. IInv /\ WorkersOwn /\ [Next]_vars => WorkersOwn'
  <2> SUFFICES ASSUME IInv, WorkersOwn, [Next]_vars, NEW d \in Disp, NEW r \in Req,
                      answer'[<<d, r>>] # NoTx
               PROVE  answer'[<<d, r>>].req = r
    BY DEF WorkersOwn
  <2> USE DEF IInv
  <2>0. <<d, r>> \in Worker /\ <<d, r>> # <<d, Main>>
    BY NoTxIsNoRequest DEF Worker
  <2>1. answer[<<d, r>>] # NoTx => answer[<<d, r>>].req = r
    BY DEF WorkersOwn
  <2>2. ASSUME NEW w \in Worker, EndAnswer(w) PROVE answer'[<<d, r>>].req = r
    BY <2>0, <2>1, <2>2 DEF EndAnswer, Database, DatabaseTypeOK
  <2>3. ASSUME NEW e \in Disp, NEW q \in Req, PostReply(e, q) PROVE answer'[<<d, r>>].req = r
    BY <2>0, <2>1, <2>3 DEF PostReply, LockRequest, Database, DatabaseTypeOK
  <2>4. ASSUME NEW e \in Disp, NEW q \in Req, AnswerUnreplied(e, q) PROVE answer'[<<d, r>>].req = r
    <3>1. <<e, Main>> # <<d, r>>
      BY NoTxIsNoRequest
    <3>2. QED
      BY <2>0, <2>1, <2>4, <3>1 DEF AnswerUnreplied, LockRequest, Database, DatabaseTypeOK
  <2>5. ASSUME NEW e \in Disp, Crash(e) PROVE answer'[<<d, r>>].req = r
    BY <2>0, <2>1, <2>5 DEF Crash
  <2>6. CASE UNCHANGED answer
    BY <2>1, <2>6
  <2>7. CASE \E e \in Disp : UnrepliedPosted(e) \/ UnrepliedFailed(e)
    BY <2>2, <2>7 DEF UnrepliedPosted, UnrepliedFailed, FailAnswer, CommitAnswer, Worker
  <2>8. CASE \E e \in Disp, q \in Req : ReplyPosted(e, q) \/ ReplyFailed(e, q)
    BY <2>2, <2>8 DEF ReplyPosted, ReplyFailed, FailAnswer, CommitAnswer, Worker
  <2>9. CASE \E e \in Disp, q \in Req : FinishJob(e, q) \/ KeepReply(e, q) \/ LeaveActive(e, q) \/ JobDone(e, q)
    BY <2>6, <2>9 DEF FinishJob, KeepReply, LeaveActive, JobDone
  <2>10. CASE \E e \in Disp : MainStep(e) /\ ~UnrepliedPosted(e) /\ ~\E q \in Req : AnswerUnreplied(e, q)
    BY <2>6, <2>10 DEF MainStep, Connect, Sweep, Tick, Listen, Notice, Reconnect, Drain, Snapshot,
       Orphaned, AnsweredAll, PollRequests, Exit, mainRest
  <2>11. CASE \E e \in Disp : Start(e) \/ Sigterm(e) \/ DropConnection(e) \/ QueryFails(e)
    BY <2>6, <2>11 DEF Start, Sigterm, DropConnection, QueryFails, mainRest
  <2>12. CASE \E q \in Req : Submit(q) \/ Expire(q) \/ Prune(q)
    BY <2>6, <2>12 DEF Submit, Expire, Prune
  <2>13. CASE UNCHANGED vars
    BY <2>6, <2>13 DEF vars
  <2>14. QED
    BY <2>3, <2>4, <2>5, <2>7, <2>8, <2>9, <2>10, <2>11, <2>12, <2>13 DEF Next, JobStep
<1>3. QED
  BY <1>1, <1>2, DispatcherInvariant, PTL DEF Spec

(* A reply is only ever posted by a transaction that found none.           *)
LEMMA ReplyIsCommitted ==
  ASSUME IInv, [Next]_vars, NEW r \in Req, replies'[r] # replies[r]
  PROVE  \E w \in Worker : /\ CommitAnswer(w) /\ answer[w] # NoTx /\ answer[w].req = r
                           /\ replies[r] = <<>> /\ replies'[r] = <<answer[w].code>>
<1>1. PICK w \in Worker : CommitAnswer(w)
  <2>1. CASE \E d \in Disp, q \in Req : ReplyPosted(d, q) \/ ReplyFailed(d, q)
    BY <2>1 DEF ReplyPosted, ReplyFailed, FailAnswer, EndAnswer, promised, Worker
  <2>2. CASE \E d \in Disp : UnrepliedPosted(d) \/ UnrepliedFailed(d)
    BY <2>2 DEF UnrepliedPosted, UnrepliedFailed, FailAnswer, EndAnswer, promised, Worker
  <2>3. CASE \E d \in Disp, q \in Req : JobStep(d, q) /\ ~ReplyPosted(d, q)
    BY <2>3 DEF JobStep, FinishJob, PostReply, KeepReply, LeaveActive, JobDone, promised
  <2>4. CASE \E d \in Disp : MainStep(d) /\ ~UnrepliedPosted(d)
    BY <2>4 DEF MainStep, Connect, Sweep, Tick, Listen, Notice, Reconnect, Drain, Snapshot,
       AnswerUnreplied, Orphaned, AnsweredAll, PollRequests, Exit, mainRest, promised
  <2>5. CASE \E d \in Disp : Start(d) \/ Sigterm(d) \/ DropConnection(d) \/ QueryFails(d) \/ Crash(d)
    BY <2>5 DEF Start, Sigterm, DropConnection, QueryFails, Crash, mainRest, promised
  <2>6. CASE \E q \in Req : Submit(q) \/ Expire(q) \/ Prune(q)
    BY <2>6 DEF Submit, Submitted, Expire, Prune, Pruned, promised
  <2>7. CASE UNCHANGED vars
    BY <2>7 DEF vars, promised
  <2>8. QED
    BY <2>1, <2>2, <2>3, <2>4, <2>5, <2>6, <2>7 DEF Next
<1>2. answer[w] # NoTx /\ ~answer[w].found
      /\ replies' = [replies EXCEPT ![answer[w].req] = Append(@, answer[w].code)]
  BY <1>1 DEF CommitAnswer, EndAnswer
<1>3. answer[w].req = r /\ replies[r] = <<>>
  BY <1>2, AnswerTyped DEF IInv, Database, DatabaseTypeOK, AnswersLocked
<1>4. replies'[r] = Append(<<>>, answer[w].code)
  BY <1>2, <1>3 DEF IInv, Database, DatabaseTypeOK
<1>5. Append(<<>>, answer[w].code) = <<answer[w].code>>
  OBVIOUS
<1>6. QED
  BY <1>1, <1>2, <1>3, <1>4, <1>5

(* However late a dispatcher answers what it or an earlier one left        *)
(* behind, and whatever its workers do meanwhile: it never says that a job *)
(* was interrupted while it runs it or keeps its verdict.                  *)
THEOREM NeverInterruptsOwnJob == Spec => NeverInterruptsItself
<1> DEFINE A == \A r \in Req : replies'[r] # replies[r] /\ replies'[r][1] = "interrupted" =>
                  \A d \in Disp :
                    answer[<<d, Main>>].req = r /\ answer'[<<d, Main>>] = NoTx =>
                      r \notin active[d] /\ unposted[d][r] # "verdict"
<1>1. IInv /\ Owns /\ [Next]_vars => A
  <2> SUFFICES ASSUME IInv, Owns, [Next]_vars, NEW r \in Req, NEW d \in Disp,
                      replies'[r] # replies[r], replies'[r][1] = "interrupted",
                      answer[<<d, Main>>].req = r
               PROVE  r \notin active[d] /\ unposted[d][r] # "verdict"
    OBVIOUS
  <2>1. <<d, Main>> \in Worker /\ answer[<<d, Main>>] # NoTx
    BY NoTxIsNoRequest DEF Worker, NoTx
  <2>2. rowLock[r] = <<d, Main>>
    BY <2>1 DEF IInv, Database, AnswersLocked
  <2>3. PICK w \in Worker : /\ answer[w] # NoTx /\ answer[w].req = r
                            /\ replies'[r] = <<answer[w].code>>
    BY ReplyIsCommitted
  <2>4. w = <<d, Main>>
    BY <2>2, <2>3 DEF IInv, Database, AnswersLocked
  <2>5. answer[<<d, Main>>].code = "interrupted"
    BY <2>3, <2>4
  <2>6. QED
    BY <2>1, <2>5 DEF Owns, Own
<1>2. QED
  BY <1>1, OwnsAlways, PTL DEF Spec, NeverInterruptsItself

(* A verdict that a job worked out is posted, or kept until it is, or some *)
(* other answer was posted first: only the end of the process loses it.    *)
THEOREM VerdictsAreKept == Spec => VerdictNotLost
<1> DEFINE A == \A d \in Disp, r \in Req :
                  pc'[d] # "down" /\ (unposted[d][r] = "verdict" \/ job[d][r].at \in {"posting", "keep"})
                    => \/ unposted'[d][r] = "verdict" \/ job'[d][r].at \in {"posting", "keep"}
                       \/ replies'[r] # <<>> \/ request'[r] = "gone"
<1>1. IInv /\ Owns /\ WorkersOwn /\ [Next]_vars => A
  <2> SUFFICES ASSUME IInv, Owns, WorkersOwn, [Next]_vars, NEW d \in Disp, NEW r \in Req, pc'[d] # "down",
                      unposted[d][r] = "verdict" \/ job[d][r].at \in {"posting", "keep"}
               PROVE  \/ unposted'[d][r] = "verdict" \/ job'[d][r].at \in {"posting", "keep"}
                      \/ replies'[r] # <<>> \/ request'[r] = "gone"
    OBVIOUS
  <2> USE DEF IInv
  (* Whoever commits an answer to r leaves one, or found r gone. *)
  <2>1. ASSUME NEW w \in Worker, CommitAnswer(w), answer[w].req = r
        PROVE  replies'[r] # <<>> \/ request'[r] = "gone"
    <3>1. answer[w] # NoTx /\ request' = request
      BY <2>1 DEF CommitAnswer, EndAnswer
    <3>2. CASE answer[w].found
      BY <2>1, <3>1, <3>2 DEF CommitAnswer, Database, AnswersLocked
    <3>3. CASE ~answer[w].found
      <4>1. replies'[r] = Append(replies[r], answer[w].code) /\ replies[r] \in Seq(Codes)
            /\ answer[w].code \in Codes
        BY <2>1, <3>1, <3>3, AnswerTyped DEF CommitAnswer, Database, DatabaseTypeOK
      <4>2. QED
        BY <4>1
    <3>4. QED
      BY <3>2, <3>3
  <2>2. CASE UNCHANGED <<job, unposted>>
    BY <2>2
  <2>3. ASSUME NEW e \in Disp, NEW q \in Req, JobStep(e, q) \/ ReplyFailed(e, q), e # d \/ q # r
        PROVE  unposted'[d][r] = "verdict" \/ job'[d][r].at \in {"posting", "keep"}
    BY <2>3 DEF JobStep, FinishJob, PostReply, ReplyPosted, KeepReply, LeaveActive, JobDone,
       ReplyFailed, SetJob, jobVars, Memory, MemoryTypeOK
  <2>4. CASE JobStep(d, r) \/ ReplyFailed(d, r)
    <3>1. CASE FinishJob(d, r) \/ PostReply(d, r) \/ LeaveActive(d, r) \/ JobDone(d, r)
      BY <3>1 DEF FinishJob, PostReply, LeaveActive, JobDone, SetJob, jobVars, Memory, MemoryTypeOK
    <3>2. CASE KeepReply(d, r)
      BY <3>2 DEF KeepReply, Memory, MemoryTypeOK
    <3>3. CASE ReplyFailed(d, r)
      BY <3>3 DEF ReplyFailed, SetJob, Memory, MemoryTypeOK
    <3>4. CASE ReplyPosted(d, r)
      <4>1. CommitAnswer(<<d, r>>) /\ answer[<<d, r>>] # NoTx /\ <<d, r>> \in Worker
        BY <3>4 DEF ReplyPosted, CommitAnswer, EndAnswer, Worker
      <4>2. QED
        BY <2>1, <4>1 DEF WorkersOwn
    <3>5. QED
      BY <2>4, <3>1, <3>2, <3>3, <3>4 DEF JobStep
  <2>5. ASSUME NEW e \in Disp, UnrepliedPosted(e) \/ UnrepliedFailed(e)
        PROVE  \/ unposted'[d][r] = "verdict" \/ job'[d][r].at \in {"posting", "keep"}
               \/ replies'[r] # <<>> \/ request'[r] = "gone"
    <3> DEFINE w == <<e, Main>>
               q == answer[w].req
    <3>1. job' = job
      BY <2>5 DEF UnrepliedPosted, UnrepliedFailed
    <3>2. w \in Worker /\ answer[w] # NoTx
      BY <2>5 DEF UnrepliedPosted, UnrepliedFailed, FailAnswer, CommitAnswer, EndAnswer, Worker
    <3>3. CASE unposted'[d][r] = unposted[d][r]
      BY <3>1, <3>3
    <3>4. CASE unposted'[d][r] # unposted[d][r]
      <4>1. CASE UnrepliedPosted(e)
        <5>1. e = d /\ q = r
          BY <3>4, <4>1 DEF UnrepliedPosted, Memory, MemoryTypeOK
        <5>2. QED
          BY <2>1, <3>2, <4>1, <5>1 DEF UnrepliedPosted
      <4>2. CASE UnrepliedFailed(e)
        <5>1. e = d /\ q = r /\ ~Posting(d)
          BY <3>4, <4>2 DEF UnrepliedFailed, Memory, MemoryTypeOK
        <5>2. r \in todo[d] /\ Orphaning(d)
          BY <3>2, <5>1 DEF Owns, Own
        <5>3. unposted[d][r] # "verdict"
          BY <5>2 DEF Owns, Own
        <5>4. QED
          BY <3>1, <5>3
      <4>3. QED
        BY <2>5, <4>1, <4>2
    <3>5. QED
      BY <3>3, <3>4
  <2>6. ASSUME NEW e \in Disp, PollRequests(e)
        PROVE  unposted'[d][r] = "verdict" \/ job'[d][r].at \in {"posting", "keep"}
    <3> DEFINE some == Oldest(MaxJobs - Cardinality(Jobs(e)))
    <3>1. job[d][r].at \in {"posting", "keep"} => r \notin some
      BY TakesQueued DEF Memory, HandsClaimed, InHand
    <3>2. /\ unposted' = unposted
          /\ \/ job' = job
             \/ job' = [job EXCEPT ![e] = [q \in Req |->
                           IF q \in some THEN [at |-> "running", tries |-> 0] ELSE @[q]]]
      BY <2>6 DEF PollRequests
    <3> HIDE DEF some
    <3>3. job'[d][r] = job[d][r] \/ r \in some
      <4>1. CASE job' = job
        BY <4>1
      <4>2. CASE job' = [job EXCEPT ![e] = [q \in Req |->
                            IF q \in some THEN [at |-> "running", tries |-> 0] ELSE @[q]]]
        <5>1. DOMAIN job = Disp /\ d \in Disp
          BY DEF Memory, MemoryTypeOK
        <5>2. CASE e = d
          BY <4>2, <5>1, <5>2
        <5>3. CASE e # d
          BY <4>2, <5>1, <5>3
        <5>4. QED
          BY <5>2, <5>3
      <4>3. QED
        BY <3>2, <4>1, <4>2
    <3>4. QED
      BY <3>1, <3>2, <3>3
  <2>7. ASSUME NEW e \in Disp, Exit(e) \/ Crash(e)
        PROVE  unposted'[d][r] = "verdict" \/ job'[d][r].at \in {"posting", "keep"}
    <3>1. e # d
      BY <2>7 DEF Exit, Crash, Go, Memory, MemoryTypeOK
    <3>2. QED
      BY <2>7, <3>1 DEF Exit, Crash, mainRest, Memory, MemoryTypeOK
  <2>8. CASE \E e \in Disp : /\ MainStep(e) /\ ~UnrepliedPosted(e) /\ ~PollRequests(e) /\ ~Exit(e)
    BY <2>2, <2>8 DEF MainStep, Connect, Sweep, Tick, Listen, Notice, Reconnect, Drain, Snapshot,
       AnswerUnreplied, Orphaned, AnsweredAll, mainRest, jobVars
  <2>9. CASE \E e \in Disp : Start(e) \/ Sigterm(e) \/ DropConnection(e) \/ QueryFails(e)
    BY <2>2, <2>9 DEF Start, Sigterm, DropConnection, QueryFails, mainRest
  <2>10. CASE \E q \in Req : Submit(q) \/ Expire(q) \/ Prune(q)
    BY <2>2, <2>10 DEF Submit, Expire, Prune, jobVars
  <2>11. CASE UNCHANGED vars
    BY <2>2, <2>11 DEF vars, jobVars
  <2>12. QED
    BY <2>3, <2>4, <2>5, <2>6, <2>7, <2>8, <2>9, <2>10, <2>11 DEF Next
<1>2. QED
  BY <1>1, OwnsAlways, WorkersOwnAlways, PTL DEF Spec, VerdictNotLost
-----------------------------------------------------------------------------
(* What a dispatcher holds: a slot for each job that runs, and nothing once *)
(* it is gone.  A slot that outlived its job would hide the request from   *)
(* every recovery, as what is active is not an orphan.                     *)

InSlot == {"running", "posting", "keep", "leave"}

(* A slot is taken for as long as its job runs, and for no more than       *)
(* max_jobs at once (service.py _poll_requests, _job_done).                *)
SlotsAreJobs ==
  \A d \in Disp : /\ \A r \in Req : r \in active[d] <=> job[d][r].at \in InSlot
                  /\ Cardinality(Jobs(d)) <= MaxJobs

(* A dispatcher that ended or died holds no lock, no slot and no reply: the *)
(* next one finds all it left in the database (service.py run, _drain).    *)
GoneHoldsNothing ==
  \A d \in Disp : pc[d] = "down" =>
    /\ vmLock # d /\ active[d] = {} /\ Jobs(d) = {} /\ Kept(d) = {}
    /\ \A r \in Req : rowLock[r][1] # d

Held(d) ==
  /\ \A r \in active[d] : job[d][r].at \in InSlot
  /\ vmLock = d => pc[d] \notin {"down", "offline", "joining"}
  /\ pc[d] = "down" => Jobs(d) = {} /\ Kept(d) = {}

(* Whoever locks a row is about to answer it. *)
LocksAnswer ==
  \A r \in Req : rowLock[r] # Nobody => answer[rowLock[r]] # NoTx /\ answer[rowLock[r]].req = r

(* One post changes one transaction and the lock of its request. *)
LEMMA LocksAnswerStep ==
  ASSUME IInv, LocksAnswer, [Next]_vars
  PROVE  LocksAnswer'
<1> USE DEF IInv, Database, DatabaseTypeOK
<1>1. ASSUME NEW w \in Worker, EndAnswer(w) PROVE LocksAnswer'
  BY <1>1 DEF EndAnswer, LocksAnswer
<1>2. ASSUME NEW w \in Worker, NEW r \in Req, NEW code, LockRequest(w, r, code) PROVE LocksAnswer'
  <2>1. /\ rowLock' = [rowLock EXCEPT ![r] = w] /\ answer[w] = NoTx
        /\ \E found : answer' = [answer EXCEPT ![w] = [req |-> r, code |-> code, found |-> found]]
    BY <1>2 DEF LockRequest
  <2>2. answer'[w].req = r /\ answer'[w] # NoTx
    BY <2>1, NoTxIsNoRequest DEF NoTx
  <2>3. \A v \in Worker : v # w => answer'[v] = answer[v]
    BY <2>1
  <2>4. QED
    BY <2>1, <2>2, <2>3 DEF LocksAnswer
<1>3. ASSUME NEW d \in Disp, Crash(d) PROVE LocksAnswer'
  <2> SUFFICES ASSUME NEW r \in Req, rowLock'[r] # Nobody
               PROVE  answer'[rowLock'[r]] # NoTx /\ answer'[rowLock'[r]].req = r
    BY DEF LocksAnswer
  <2>1. rowLock'[r] = rowLock[r] /\ rowLock[r][1] # d /\ rowLock[r] \in Worker
    BY <1>3 DEF Crash
  <2>2. answer'[rowLock[r]] = answer[rowLock[r]]
    BY <1>3, <2>1 DEF Crash
  <2>3. QED
    BY <2>1, <2>2 DEF LocksAnswer
<1>4. CASE UNCHANGED <<rowLock, answer>>
  BY <1>4 DEF LocksAnswer
<1>5. CASE \E d \in Disp, r \in Req : JobStep(d, r) \/ ReplyFailed(d, r)
  <2>1. \/ UNCHANGED <<rowLock, answer>>
        \/ \E w \in Worker : EndAnswer(w) \/ \E r \in Req : \E code : LockRequest(w, r, code)
    BY <1>5 DEF JobStep, FinishJob, PostReply, ReplyPosted, KeepReply, LeaveActive, JobDone,
       ReplyFailed, FailAnswer, CommitAnswer, Worker
  <2>2. QED
    BY <1>1, <1>2, <1>4, <2>1
<1>6. CASE \E d \in Disp : MainStep(d) \/ UnrepliedFailed(d)
  <2>1. \/ UNCHANGED <<rowLock, answer>>
        \/ \E w \in Worker : EndAnswer(w) \/ \E r \in Req : \E code : LockRequest(w, r, code)
    BY <1>6 DEF MainStep, Connect, Sweep, Tick, Listen, Notice, Reconnect, Drain, Snapshot,
       AnswerUnreplied, UnrepliedPosted, UnrepliedFailed, FailAnswer, CommitAnswer, Orphaned,
       AnsweredAll, PollRequests, Exit, mainRest, Worker
  <2>2. QED
    BY <1>1, <1>2, <1>4, <2>1
<1>7. CASE \/ \E r \in Req : Submit(r) \/ Expire(r) \/ Prune(r)
           \/ \E d \in Disp : Start(d) \/ Sigterm(d) \/ DropConnection(d) \/ QueryFails(d)
           \/ UNCHANGED vars
  BY <1>4, <1>7 DEF Submit, Expire, Prune, Start, Sigterm, DropConnection, QueryFails, mainRest, vars
<1> QED
  BY <1>3, <1>5, <1>6, <1>7 DEF Next

LEMMA SameHeld ==
  ASSUME NEW d \in Disp, Held(d), pc'[d] = pc[d], job'[d] = job[d], active'[d] = active[d],
         unposted'[d] = unposted[d], vmLock' = d => vmLock = d
  PROVE  Held(d)'
BY DEF Held, Jobs, Kept

LEMMA HeldStep ==
  ASSUME IInv, Owns, \A d \in Disp : Held(d), [Next]_vars
  PROVE  \A d \in Disp : Held(d)'
<1> SUFFICES ASSUME NEW e \in Disp PROVE Held(e)'
  OBVIOUS
<1> USE DEF IInv, Memory, MemoryTypeOK
<1>0. Held(e) /\ Own(e) /\ None \notin Disp
  BY DispatcherAssumption DEF Owns
<1>1. CASE \/ \E r \in Req : Submit(r) \/ Expire(r) \/ Prune(r)
           \/ \E d \in Disp : Sigterm(d) \/ DropConnection(d)
           \/ UNCHANGED vars
  BY <1>0, <1>1, SameHeld DEF Submit, Expire, Prune, Sigterm, DropConnection, mainRest, dispVars,
     jobVars, vars
<1>2. ASSUME NEW d \in Disp, Start(d) \/ Connect(d) \/ Sweep(d) \/ Tick(d) \/ Listen(d) \/ Notice(d)
               \/ Reconnect(d) \/ Drain(d) \/ Orphaned(d) \/ AnsweredAll(d) \/ QueryFails(d)
      PROVE  Held(e)'
  <2>1. UNCHANGED <<job, active, unposted>>
    BY <1>2 DEF Start, Connect, Sweep, Tick, Listen, Notice, Reconnect, Drain, Snapshot, Orphaned,
       AnsweredAll, QueryFails, mainRest
  <2>2. /\ \E p \in Places \ {"down"} : pc' = [pc EXCEPT ![d] = p]
        /\ vmLock' \in {vmLock, None} \/ (vmLock' = d /\ pc' = [pc EXCEPT ![d] = "connected"])
    BY <1>2 DEF Start, Connect, Sweep, Tick, Listen, Notice, Reconnect, Drain, Snapshot, Orphaned,
       AnsweredAll, QueryFails, Go, Places, Unlocked, mainRest
  <2>3. CASE e # d
    BY <1>0, <2>1, <2>2, <2>3, SameHeld
  <2>4. CASE e = d
    <3>1. pc'[d] # "down"
      BY <2>2
    <3>2. vmLock' = d => pc'[d] \notin {"offline", "joining"}
      <4>1. CASE Start(d) \/ Connect(d)
        BY <1>0, <2>4, <4>1 DEF Start, Connect, Go, Held
      <4>2. CASE Reconnect(d) \/ AnsweredAll(d) \/ QueryFails(d)
        BY <1>0, <4>2 DEF Reconnect, AnsweredAll, QueryFails, Go, Unlocked, Posting, Places
      <4>3. CASE Sweep(d) \/ Tick(d) \/ Listen(d) \/ Notice(d) \/ Drain(d) \/ Orphaned(d)
        BY <4>3 DEF Sweep, Tick, Listen, Notice, Drain, Snapshot, Orphaned, Go
      <4>4. QED
        BY <1>2, <4>1, <4>2, <4>3
    <3>3. QED
      BY <1>0, <2>1, <2>4, <3>1, <3>2 DEF Held
  <2>5. QED
    BY <2>3, <2>4
<1>3. ASSUME NEW d \in Disp, NEW r \in Req, AnswerUnreplied(d, r) PROVE Held(e)'
  BY <1>0, <1>3, SameHeld DEF AnswerUnreplied, dispVars, jobVars
<1>4. ASSUME NEW d \in Disp, UnrepliedPosted(d) \/ UnrepliedFailed(d) PROVE Held(e)'
  <2>1. /\ UNCHANGED <<pc, job, active, vmLock>>
        /\ unposted' = unposted
           \/ \E q, v : unposted' = [unposted EXCEPT ![d][q] = v]
    BY <1>4 DEF UnrepliedPosted, UnrepliedFailed
  <2>2. CASE e # d
    BY <1>0, <2>1, <2>2, SameHeld
  <2>3. CASE e = d
    <3>1. answer[<<d, Main>>] # NoTx
      BY <1>4 DEF UnrepliedPosted, UnrepliedFailed, FailAnswer, CommitAnswer, EndAnswer
    <3>2. pc[d] # "down"
      BY <1>0, <2>3, <3>1 DEF Own, Posting, Orphaning
    <3>3. QED
      BY <1>0, <2>1, <2>3, <3>2 DEF Held
  <2>4. QED
    BY <2>2, <2>3
<1>5. ASSUME NEW d \in Disp, PollRequests(d) PROVE Held(e)'
  <2> DEFINE some == Oldest(MaxJobs - Cardinality(Jobs(d)))
  <2>1. /\ pc' = [pc EXCEPT ![d] = "listen"] /\ UNCHANGED <<vmLock, unposted>>
        /\ \/ UNCHANGED <<active, job>>
           \/ /\ active' = [active EXCEPT ![d] = @ \cup some]
              /\ job' = [job EXCEPT ![d] = [r \in Req |->
                            IF r \in some THEN [at |-> "running", tries |-> 0] ELSE @[r]]]
    BY <1>5 DEF PollRequests, Go
  <2> HIDE DEF some
  <2>2. CASE e # d
    BY <1>0, <2>1, <2>2, SameHeld
  <2>3. CASE e = d
    <3>1. pc'[d] = "listen"
      BY <2>1
    <3>2. active'[d] \subseteq Req
      BY <1>5, MemoryStep DEF Next, MainStep, Memory, MemoryTypeOK
    <3>3. \A r \in active'[d] : job'[d][r].at \in InSlot
      BY <1>0, <2>1, <2>3, <3>2 DEF Held, InSlot
    <3>4. QED
      BY <2>3, <3>1, <3>3 DEF Held
  <2>4. QED
    BY <2>2, <2>3
<1>6. ASSUME NEW d \in Disp, Exit(d) PROVE Held(e)'
  <2>1. CASE e # d
    BY <1>0, <1>6, <2>1, SameHeld DEF Exit, Go, mainRest
  <2>2. CASE e = d
    BY <1>0, <1>6, <2>2 DEF Exit, Go, mainRest, Held, Jobs, Kept
  <2>3. QED
    BY <2>1, <2>2
<1>7. ASSUME NEW d \in Disp, Crash(d) PROVE Held(e)'
  <2>1. CASE e # d
    BY <1>0, <1>7, <2>1, SameHeld DEF Crash, Go, Unlocked
  <2>2. CASE e = d
    BY <1>0, <1>7, <2>2 DEF Crash, Go, Unlocked, Held, Jobs, Kept, NoJob
  <2>3. QED
    BY <2>1, <2>2
<1>8. ASSUME NEW d \in Disp, NEW r \in Req, JobStep(d, r) \/ ReplyFailed(d, r) PROVE Held(e)'
  <2>1. /\ pc' = pc /\ vmLock' = vmLock
        /\ \A q \in Req : q # r \/ e # d => job'[e][q] = job[e][q]
    BY <1>8 DEF JobStep, FinishJob, PostReply, ReplyPosted, KeepReply, LeaveActive, JobDone,
       ReplyFailed, SetJob, dispVars, jobVars
  <2>2. active'[e] \subseteq active[e] /\ active[e] \subseteq Req
    BY <1>8 DEF JobStep, FinishJob, PostReply, ReplyPosted, KeepReply, LeaveActive, JobDone,
       ReplyFailed, jobVars
  <2>3. CASE e # d
    <3>1. job'[e] = job[e] /\ active'[e] = active[e] /\ unposted'[e] = unposted[e]
      BY <1>8, <2>3 DEF JobStep, FinishJob, PostReply, ReplyPosted, KeepReply, LeaveActive, JobDone,
         ReplyFailed, SetJob, jobVars
    <3>2. QED
      BY <1>0, <2>1, <3>1, SameHeld
  <2>4. CASE e = d
    <3>1. job[d][r].at # "none"
      <4>1. <<d, r>> \in Worker
        BY DEF Worker
      <4>2. ReplyPosted(d, r) \/ ReplyFailed(d, r) => answer[<<d, r>>] # NoTx
        BY DEF ReplyPosted, ReplyFailed, FailAnswer, CommitAnswer, EndAnswer
      <4>3. QED
        BY <1>8, <4>2 DEF JobStep, FinishJob, PostReply, KeepReply, LeaveActive, JobDone, WorkersPost
    <3>2. pc[d] # "down"
      BY <1>0, <2>4, <3>1 DEF Held, Jobs
    <3>3. r \in active'[d] => job'[d][r].at \in InSlot
      <4>1. CASE FinishJob(d, r) \/ PostReply(d, r) \/ ReplyPosted(d, r) \/ KeepReply(d, r) \/ ReplyFailed(d, r)
        <5>1. job'[d][r].at \in InSlot \/ job'[d][r] = job[d][r]
          BY <4>1 DEF FinishJob, PostReply, ReplyPosted, KeepReply, ReplyFailed, SetJob, jobVars, InSlot
        <5>2. QED
          BY <1>0, <2>2, <2>4, <5>1 DEF Held
      <4>2. CASE LeaveActive(d, r)
        BY <4>2 DEF LeaveActive
      <4>3. CASE JobDone(d, r)
        BY <1>0, <2>2, <2>4, <4>3 DEF JobDone, Held, InSlot
      <4>4. QED
        BY <1>8, <4>1, <4>2, <4>3 DEF JobStep
    <3>4. QED
      BY <1>0, <2>1, <2>2, <2>4, <3>2, <3>3 DEF Held
  <2>5. QED
    BY <2>3, <2>4
<1>9. QED
  BY <1>1, <1>2, <1>3, <1>4, <1>5, <1>6, <1>7, <1>8 DEF Next, MainStep
(* How many requests are claimed at a time (poll_requests, LIMIT). *)

LEMMA NatLeast ==
  ASSUME NEW T \in SUBSET Nat, T # {}
  PROVE  \E x \in T : \A y \in T : ~(y < x)
<1> DEFINE R == OpToRel(<, Nat)
<1>1. IsWellFoundedOn(R, Nat)
  BY NatLessThanWellFounded
<1>2. PICK x \in T : \A y \in T : <<y, x>> \notin R
  <2> HIDE DEF R
  <2>1. QED
    BY <1>1, WFMin
<1>3. QED
  BY <1>2 DEF OpToRel

LEMMA NatMax ==
  ASSUME NEW n \in Nat, NEW T \in SUBSET (0..n), T # {}
  PROVE  \E x \in T : \A y \in T : y <= x
<1> DEFINE U == {m \in Nat : n - m \in T}
<1>1. U \in SUBSET Nat /\ U # {}
  <2>1. PICK y \in T : y \in 0..n
    OBVIOUS
  <2>2. n - y \in Nat /\ n - (n - y) = y
    BY <2>1
  <2>3. n - y \in U
    BY <2>2
  <2>4. QED
    BY <2>3
<1>4. PICK u \in U : \A v \in U : ~(v < u)
  <2> HIDE DEF U
  <2>1. QED
    BY <1>1, NatLeast
<1>5. ASSUME NEW y \in T PROVE y <= n - u
  <2>1. y \in 0..n
    OBVIOUS
  <2>2. n - y \in Nat /\ n - (n - y) = y
    BY <2>1
  <2>3. n - y \in U
    BY <2>2
  <2>4. ~(n - y < u) /\ u \in Nat
    BY <1>4, <2>3
  <2>5. QED
    BY <2>1, <2>4
<1>6. n - u \in T
  OBVIOUS
<1>7. QED
  BY <1>5, <1>6

UpToNow(r) == {q \in Claimable : q <= r}

LEMMA OldestFew ==
  ASSUME NEW n \in Nat
  PROVE  IsFiniteSet(Oldest(n)) /\ Cardinality(Oldest(n)) <= n /\ Cardinality(Oldest(n)) \in Nat
<1> DEFINE S == Oldest(n)
<1>n. \A r \in Claimable : r \in Nat
  BY ReqAssumption DEF Claimable
<1>s. S = {r \in Claimable : Cardinality(UpToNow(r)) <= n}
  BY Zenon DEF Oldest, UpToNow
<1>0. S \subseteq Claimable /\ \A r \in S : Cardinality(UpToNow(r)) <= n
  BY <1>s
<1> HIDE DEF S
<1>1. ASSUME NEW r \in Claimable
      PROVE  IsFiniteSet(UpToNow(r)) /\ Cardinality(UpToNow(r)) \in Nat
  <2>1. r \in Nat
    BY <1>n
  <2>2. \A q \in UpToNow(r) : q \in 0..r
    <3> TAKE q \in UpToNow(r)
    <3>1. q \in Claimable /\ q <= r
      BY DEF UpToNow
    <3>2. q \in Nat
      BY <1>n, <3>1
    <3>3. QED
      BY <2>1, <3>1, <3>2
  <2>3. IsFiniteSet(0..r)
    BY <2>1, FS_Interval
  <2>4. QED
    BY <2>2, <2>3, FS_Subset, FS_CardinalityType
<1>2. CASE S = {}
  BY <1>2, FS_EmptySet DEF S
<1>3. CASE S # {}
  <2> DEFINE T == {Cardinality(UpToNow(r)) : r \in S}
  <2>1. T \in SUBSET (0..n) /\ T # {}
    <3>1. \A r \in S : Cardinality(UpToNow(r)) \in 0..n
      <4>1. QED
        BY <1>0, <1>1
    <3>2. QED
      BY <1>3, <3>1
  <2>2. \E x \in T : \A y \in T : y <= x
    <3> HIDE DEF T
    <3>1. QED
      BY <2>1, NatMax
  <2>3. PICK r \in S : \A q \in S : Cardinality(UpToNow(q)) <= Cardinality(UpToNow(r))
    BY <2>2
  <2>4. ASSUME NEW q \in S PROVE q <= r
    <3> SUFFICES ASSUME q > r PROVE FALSE
      BY <1>0, <1>n
    <3>1. q \in Claimable /\ r \in Claimable /\ q \in Nat /\ r \in Nat
      BY <1>0, <1>n
    <3>2. UpToNow(r) \subseteq UpToNow(q) /\ q \in UpToNow(q) /\ q \notin UpToNow(r)
      <4>1. \A x \in Nat : x <= r => x <= q
        BY <3>1
      <4>2. ~(q <= r) /\ q <= q
        BY <3>1
      <4>3. QED
        BY <1>n, <3>1, <4>1, <4>2 DEF UpToNow
    <3>3. /\ IsFiniteSet(UpToNow(q)) /\ Cardinality(UpToNow(q)) \in Nat /\ Cardinality(UpToNow(r)) \in Nat
          /\ Cardinality(UpToNow(q)) <= Cardinality(UpToNow(r))
      BY <1>1, <2>3, <3>1
    <3>4. Cardinality(UpToNow(r)) < Cardinality(UpToNow(q))
      BY <3>2, <3>3, FS_Subset
    <3>5. QED
      BY <3>3, <3>4
  <2>5. S \subseteq UpToNow(r) /\ r \in Claimable /\ Cardinality(UpToNow(r)) <= n
    BY <1>0, <2>4 DEF UpToNow
  <2>6. IsFiniteSet(UpToNow(r)) /\ Cardinality(UpToNow(r)) \in Nat
    BY <1>1, <2>5
  <2>7. IsFiniteSet(S) /\ Cardinality(S) <= Cardinality(UpToNow(r)) /\ Cardinality(S) \in Nat
    BY <2>5, <2>6, FS_Subset, FS_CardinalityType
  <2>8. QED
    BY <2>5, <2>6, <2>7 DEF S
<1>4. QED
  BY <1>2, <1>3

FewJobs(d) == IsFiniteSet(Jobs(d)) /\ Cardinality(Jobs(d)) <= MaxJobs

LEMMA FewJobsStep ==
  ASSUME IInv, NEW e \in Disp, FewJobs(e), [Next]_vars
  PROVE  FewJobs(e)'
<1> USE DEF IInv, Memory, MemoryTypeOK
<1> DEFINE before == Jobs(e)  after == Jobs(e)'
<1>0. IsFiniteSet(before) /\ Cardinality(before) \in Nat /\ Cardinality(before) <= MaxJobs /\ MaxJobs \in Nat
  BY FS_CardinalityType, DispatcherAssumption DEF FewJobs
<1>1. ASSUME after \subseteq before PROVE FewJobs(e)'
  <2> HIDE DEF before, after
  <2>1. IsFiniteSet(after) /\ Cardinality(after) <= Cardinality(before) /\ Cardinality(after) \in Nat
    BY <1>0, <1>1, FS_Subset, FS_CardinalityType
  <2>2. IsFiniteSet(after) /\ Cardinality(after) <= MaxJobs
    BY <1>0, <2>1
  <2>3. QED
    BY <2>2 DEF FewJobs, after
<1>2. ASSUME NEW d \in Disp, PollRequests(d) PROVE FewJobs(e)'
  <2> DEFINE free == MaxJobs - Cardinality(Jobs(d))
             some == Oldest(free)
  <2>1. CASE job' = job
    BY <1>1, <2>1 DEF Jobs
  <2>2. CASE job' # job
    <3>1. /\ ~(free <= 0)
          /\ job' = [job EXCEPT ![d] = [r \in Req |->
                        IF r \in some THEN [at |-> "running", tries |-> 0] ELSE @[r]]]
      BY <1>2, <2>2 DEF PollRequests
    <3>2. CASE e # d
      BY <1>1, <3>1, <3>2 DEF Jobs
    <3>3. CASE e = d
      <4>1. free \in Nat /\ free = MaxJobs - Cardinality(before)
        BY <1>0, <3>1, <3>3
      <4> HIDE DEF free
      <4>2. IsFiniteSet(some) /\ Cardinality(some) <= free /\ Cardinality(some) \in Nat
        BY <4>1, OldestFew
      <4>3. after = before \cup some /\ some \subseteq Req
        <5>1. some \subseteq Req
          BY TakesQueued
        <5> HIDE DEF some
        <5>2. \A r \in Req : job'[d][r] = IF r \in some THEN [at |-> "running", tries |-> 0] ELSE job[d][r]
          BY <3>1
        <5>3. QED
          BY <3>3, <5>1, <5>2 DEF Jobs
      <4> HIDE DEF some, before, after
      <4>4. /\ IsFiniteSet(before \cup some)
            /\ Cardinality(before \cup some) = Cardinality(before) + Cardinality(some)
                                                 - Cardinality(before \cap some)
        BY <1>0, <4>2, FS_Union
      <4>5. Cardinality(before \cap some) \in Nat
        BY <1>0, FS_Intersection, FS_CardinalityType
      <4>6. IsFiniteSet(after) /\ Cardinality(after) <= MaxJobs
        BY <1>0, <4>1, <4>2, <4>3, <4>4, <4>5
      <4>7. QED
        BY <4>6 DEF FewJobs, after
    <3>4. QED
      BY <3>2, <3>3
  <2>3. QED
    BY <2>1, <2>2
<1>3. CASE UNCHANGED job
  BY <1>1, <1>3 DEF Jobs
<1>4. ASSUME NEW d \in Disp, Crash(d) PROVE FewJobs(e)'
  BY <1>1, <1>4 DEF Crash, Jobs, NoJob
<1>5. ASSUME NEW d \in Disp, NEW r \in Req, JobStep(d, r) \/ ReplyFailed(d, r) PROVE FewJobs(e)'
  <2>1. job[d][r].at # "none"
    <3>1. <<d, r>> \in Worker
      BY DEF Worker
    <3>2. ReplyPosted(d, r) \/ ReplyFailed(d, r) => answer[<<d, r>>] # NoTx
      BY DEF ReplyPosted, ReplyFailed, FailAnswer, CommitAnswer, EndAnswer
    <3>3. QED
      BY <1>5, <3>2 DEF JobStep, FinishJob, PostReply, KeepReply, LeaveActive, JobDone, WorkersPost
  <2>2. \A q \in Req : q # r \/ e # d => job'[e][q] = job[e][q]
    BY <1>5 DEF JobStep, FinishJob, PostReply, ReplyPosted, KeepReply, LeaveActive, JobDone,
       ReplyFailed, SetJob, jobVars
  <2>3. QED
    BY <1>1, <2>1, <2>2 DEF Jobs
<1>6. CASE \/ \E r \in Req : Submit(r) \/ Expire(r) \/ Prune(r)
           \/ \E d \in Disp : \/ Start(d) \/ (MainStep(d) /\ ~PollRequests(d)) \/ UnrepliedFailed(d)
                              \/ Sigterm(d) \/ DropConnection(d) \/ QueryFails(d)
           \/ UNCHANGED vars
  BY <1>3, <1>6 DEF Submit, Expire, Prune, Start, MainStep, Connect, Sweep, Tick, Listen, Notice,
     Reconnect, Drain, Snapshot, AnswerUnreplied, UnrepliedPosted, UnrepliedFailed, Orphaned,
     AnsweredAll, Exit, Sigterm, DropConnection, QueryFails, mainRest, jobVars, vars
<1>7. QED
  BY <1>2, <1>4, <1>5, <1>6 DEF Next

LEMMA HeldAlways == Spec => [](IInv /\ Owns /\ LocksAnswer /\ \A d \in Disp : Held(d) /\ FewJobs(d))
<1>1. Init => LocksAnswer /\ \A d \in Disp : Held(d) /\ FewJobs(d)
  <2> SUFFICES ASSUME Init, NEW d \in Disp PROVE LocksAnswer /\ Held(d) /\ FewJobs(d)
    BY DEF Init, LocksAnswer
  <2>1. Jobs(d) = {} /\ Kept(d) = {} /\ active[d] = {} /\ vmLock = None
    BY DEF Init, Jobs, Kept, NoJob
  <2>2. Cardinality({}) = 0 /\ IsFiniteSet({}) /\ MaxJobs \in Nat
    BY FS_EmptySet, DispatcherAssumption
  <2>3. LocksAnswer
    BY DEF Init, LocksAnswer
  <2>4. QED
    BY <2>1, <2>2, <2>3, DispatcherAssumption DEF Held, FewJobs
<1>2. IInv /\ Owns /\ LocksAnswer /\ (\A d \in Disp : Held(d) /\ FewJobs(d)) /\ [Next]_vars
        => (LocksAnswer /\ \A d \in Disp : Held(d) /\ FewJobs(d))'
  BY LocksAnswerStep, HeldStep, FewJobsStep
<1>3. QED
  BY <1>1, <1>2, OwnsAlways, PTL DEF Spec

(* Whatever its workers, its lost connections and its signals do: a slot   *)
(* is taken by a job that runs, and by no more jobs than max_jobs.         *)
THEOREM NoSlotLeaks == Spec => []SlotsAreJobs
<1>1. IInv /\ Owns /\ (\A d \in Disp : Held(d) /\ FewJobs(d)) => SlotsAreJobs
  BY DEF SlotsAreJobs, Owns, Own, Held, FewJobs, InSlot, IInv, Memory, MemoryTypeOK
<1>2. QED
  BY <1>1, HeldAlways, PTL

(* However a dispatcher ends, what it held is free and what it left is in  *)
(* the database for the next one to find.                                  *)
THEOREM GoneLeavesAll == Spec => []GoneHoldsNothing
<1>1. IInv /\ Owns /\ LocksAnswer /\ (\A d \in Disp : Held(d) /\ FewJobs(d)) => GoneHoldsNothing
  <2> SUFFICES ASSUME IInv, Owns, LocksAnswer, \A d \in Disp : Held(d), NEW d \in Disp, pc[d] = "down"
               PROVE  /\ vmLock # d /\ active[d] = {} /\ Jobs(d) = {} /\ Kept(d) = {}
                      /\ \A r \in Req : rowLock[r][1] # d
    BY DEF GoneHoldsNothing
  <2> USE DEF IInv, Memory, MemoryTypeOK, Database, DatabaseTypeOK
  <2>1. vmLock # d /\ Jobs(d) = {} /\ Kept(d) = {}
    BY DEF Held
  <2>2. active[d] = {}
    BY <2>1 DEF Held, Jobs, InSlot
  <2>3. ASSUME NEW r \in Req, rowLock[r][1] = d PROVE FALSE
    <3>1. rowLock[r] \in Worker /\ answer[rowLock[r]] # NoTx
      BY <2>3, DispatcherAssumption DEF LocksAnswer, Nobody
    <3>2. PICK q \in Req \cup {Main} : rowLock[r] = <<d, q>>
      BY <2>3, <3>1 DEF Worker
    <3>3. CASE q = Main
      BY <3>1, <3>2, <3>3 DEF Owns, Own, Posting, Orphaning
    <3>4. CASE q \in Req
      BY <2>1, <3>1, <3>2, <3>4 DEF WorkersPost, Jobs
    <3>5. QED
      BY <3>3, <3>4
  <2>4. QED
    BY <2>1, <2>2, <2>3
<1>2. QED
  BY <1>1, HeldAlways, PTL
=============================================================================
