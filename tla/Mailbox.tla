------------------------------ MODULE Mailbox ------------------------------
(***************************************************************************)
(* Delivery of mailbox messages (core/messaging.py) to agent sessions: by  *)
(* their prompt hooks (hooks/common.py deliver), `msg inbox --claim` and   *)
(* `msg await`, by their Stop hooks (L2, claim_wake) and by the VM's       *)
(* dispatcher (L3, dispatcher/wake.py), which all claim the same rows.     *)
(*                                                                         *)
(* A reader claims in a transaction that it holds open until its output is *)
(* written; other readers skip the rows it locked.  The dispatcher commits *)
(* its claim first and releases it when the send fails.  Both kinds of     *)
(* wake count towards a cap on turns no human asked for (the loop guard).  *)
(***************************************************************************)
EXTENDS Integers, FiniteSets

CONSTANTS Msg,       \* messages, numbered as BIGSERIAL numbers their rows
          Session,   \* session keys, of one VM, hosted by Paseo
          To,        \* To[m]: the session m is addressed to, or Inbox
          Wakes,     \* the direct messages may_wake allows to wake their session
          Reader,    \* hook and command processes that may run
          Of,        \* Of[p]: the session p reads for
          Kind,      \* Kind[p]: "prompt", "inbox", "await" or "stop"
          Limit,     \* CLAIM_LIMIT
          Cap,       \* max_auto_continues
          MayExpire, \* the messages whose expiry may come while we look
          MaxFaults  \* bound on kills, failed sends and failed statements

None == "none"
Inbox == "inbox"           \* a project or VM inbox every session here matches
Dispatcher == "dispatcher" \* the claimer "<vm>/dispatcher"

ASSUME MailboxAssumption ==
  /\ Msg \subseteq Nat /\ IsFiniteSet(Reader)
  /\ {None, Inbox, Dispatcher} \cap Session = {} /\ None \notin Reader
  /\ To \in [Msg -> Session \cup {Inbox}]
  /\ Wakes \subseteq {m \in Msg : To[m] # Inbox}
  /\ Of \in [Reader -> Session]
  /\ Kind \in [Reader -> {"prompt", "inbox", "await", "stop"}]
  /\ Limit \in Nat \ {0} /\ Cap \in Nat /\ MaxFaults \in Nat
  /\ MayExpire \subseteq Msg

VARIABLES box,      \* box[m]: where the row of m is
          expired,  \* the messages whose expires_at has passed
          claimed,  \* claimed[m]: the committed claimed_by of m's row
          holder,   \* holder[m]: the reader whose open transaction locks m's row
          reader,   \* reader[p]: where p is and what it took
          count,    \* count[s]: auto_continues as the cap check reads it
          counting, \* counting[s]: the Stop hook whose transaction locks s's row
          busy,     \* busy[s]: s's agent is in a turn
          wake,     \* the dispatcher's wake in progress
          pending,  \* the messages in _pending
          settled,  \* the messages in _settled
          shown,    \* shown[m]: how often an agent was shown m
          woken,    \* woken[s]: turns of s no human asked for, since the last one
          faults    \* how many faults have happened

rows    == <<box, claimed, holder>>
guard   == <<count, counting, woken>>
dispVars == <<wake, pending, settled>>
vars == <<rows, expired, reader, guard, busy, dispVars, shown, faults>>

NoRead == [at |-> "idle", took |-> {}, shows |-> {}, saw |-> 0]
NoWake == [at |-> "idle", for |-> None, ids |-> {}, left |-> {}, msg |-> 0]

TypeOK ==
  /\ box \in [Msg -> {"unsent", "stored", "gone"}] /\ expired \subseteq Msg
  /\ claimed \in [Msg -> Session \cup {Dispatcher, None}]
  /\ holder \in [Msg -> Reader \cup {None}]
  /\ reader \in [Reader -> [at : {"idle", "looked", "counting", "held", "written"},
                            took : SUBSET Msg, shows : SUBSET Msg, saw : Nat]]
  /\ count \in [Session -> Nat] /\ woken \in [Session -> Nat]
  /\ counting \in [Session -> Reader \cup {None}]
  /\ busy \in [Session -> BOOLEAN]
  /\ wake \in [at : {"idle", "looked", "idleAgent", "claimed", "sent", "failed"},
               for : Session \cup {None}, ids : SUBSET Msg, left : SUBSET Msg, msg : Msg \cup {0}]
  /\ pending \subseteq Msg /\ settled \subseteq Msg
  /\ shown \in [Msg -> Nat]
  /\ faults \in 0..MaxFaults

Fault == faults < MaxFaults /\ faults' = faults + 1
Free(m) == box[m] = "stored" /\ claimed[m] = None /\ m \notin expired

-----------------------------------------------------------------------------
(* Senders, time, people. *)

Send(m) ==
  /\ box[m] = "unsent"
  /\ box' = [box EXCEPT ![m] = "stored"]
  /\ UNCHANGED <<claimed, holder, expired, reader, guard, busy, dispVars, shown, faults>>

Expire(m) ==
  /\ m \in MayExpire \ expired /\ box[m] = "stored"
  /\ expired' = expired \cup {m}
  /\ UNCHANGED <<rows, reader, guard, busy, dispVars, shown, faults>>

(* prune deletes expired rows, waiting for those that are locked. *)
Prune(m) ==
  /\ m \in expired /\ box[m] = "stored" /\ holder[m] = None
  /\ box' = [box EXCEPT ![m] = "gone"]
  /\ UNCHANGED <<claimed, holder, expired, reader, guard, busy, dispVars, shown, faults>>

(* A human starts a turn, and the prompt hook resets auto_continues; or    *)
(* the window passes without a bump, and the count reads as 0.             *)
HumanPrompt(s) ==
  /\ counting[s] = None
  /\ count' = [count EXCEPT ![s] = 0] /\ woken' = [woken EXCEPT ![s] = 0]
  /\ busy' \in {busy, [busy EXCEPT ![s] = TRUE]}
  /\ UNCHANGED <<rows, expired, reader, counting, dispVars, shown, faults>>

-----------------------------------------------------------------------------
(* Readers that hold their claims open. *)

(* What _match_sql lets p's session have (L1), or next_wakeable (L2), past *)
(* the rows that others have locked.  (First a mutant that forgets them.)  *)
MatchingUnlocked(p) ==
  {m \in Msg : Free(m) /\ To[m] \in {Of[p], Inbox}
               /\ (Kind[p] = "stop" => m \in Wakes)}
Matching(p) ==
  {m \in Msg : Free(m) /\ holder[m] = None /\ To[m] \in {Of[p], Inbox}
               /\ (Kind[p] = "stop" => m \in Wakes)}

Oldest(some, n) == {m \in some : Cardinality({k \in some : k <= m}) <= n}

Room(p) == IF Kind[p] \in {"await", "stop"} THEN 1 ELSE Limit

Lock(p, some) == holder' = [m \in Msg |-> IF m \in some THEN p ELSE holder[m]]
Unlock(p) == holder' = [m \in Msg |-> IF holder[m] = p THEN None ELSE holder[m]]

(* deliver, inbox and await claim the oldest rows they may have ... *)
ClaimOldest(p, fit) ==
  LET took == Oldest(Matching(p), Room(p))
  IN  /\ reader[p].at = "idle" /\ took # {}
      /\ Lock(p, took)
      /\ reader' = [reader EXCEPT ![p] =
                      [at |-> "held", took |-> took, shows |-> Oldest(took, fit), saw |-> 0]]
      /\ UNCHANGED <<box, claimed, expired, guard, busy, dispVars, shown, faults>>

AllFit(p, fit) == fit = Cardinality(Oldest(Matching(p), Room(p)))

(* ... of which a hook releases what does not fit its budget again, in the *)
(* same transaction, and the commands show all.                            *)
PromptHook(p, fit) ==
  /\ Kind[p] = "prompt" /\ fit \in 1..Cardinality(Oldest(Matching(p), Room(p)))
  /\ ClaimOldest(p, fit)
CmdMsgInbox(p, fit) == Kind[p] = "inbox" /\ AllFit(p, fit) /\ ClaimOldest(p, fit)
CmdMsgAwait(p, fit) == Kind[p] = "await" /\ AllFit(p, fit) /\ ClaimOldest(p, fit)

Deliver(p, fit) == PromptHook(p, fit) \/ CmdMsgInbox(p, fit) \/ CmdMsgAwait(p, fit)

(* A Stop hook at the end of a turn reads the session's row first. *)
StopLook(p) ==
  /\ Kind[p] = "stop" /\ reader[p].at = "idle" /\ busy[Of[p]]
  /\ reader' = [reader EXCEPT ![p] = [NoRead EXCEPT !.at = "looked", !.saw = count[Of[p]]]]
  /\ UNCHANGED <<rows, expired, guard, busy, dispVars, shown, faults>>

(* The cap is reached or nothing may wake: the turn ends. *)
StopPass(p) ==
  /\ reader[p].at = "looked"
  /\ reader[p].saw >= Cap \/ Matching(p) = {}
  /\ reader' = [reader EXCEPT ![p] = NoRead]
  /\ busy' = [busy EXCEPT ![Of[p]] = FALSE]
  /\ UNCHANGED <<rows, expired, guard, dispVars, shown, faults>>

StopClaim(p) ==
  LET took == Oldest(Matching(p), 1)
  IN  /\ reader[p].at = "looked"
      /\ reader[p].saw < Cap /\ took # {}
      /\ Lock(p, took)
      /\ reader' = [reader EXCEPT ![p] =
                      [at |-> "counting", took |-> took, shows |-> took, saw |-> reader[p].saw]]
      /\ UNCHANGED <<box, claimed, expired, guard, busy, dispVars, shown, faults>>

(* bump_auto_continue in the same transaction locks the session's row. *)
StopCount(p) ==
  /\ reader[p].at = "counting" /\ counting[Of[p]] = None
  /\ counting' = [counting EXCEPT ![Of[p]] = p]
  /\ reader' = [reader EXCEPT ![p].at = "held"]
  /\ UNCHANGED <<rows, expired, count, woken, busy, dispVars, shown, faults>>

(* respond writes the output, then commits. *)
Write(p) ==
  /\ reader[p].at = "held"
  /\ reader' = [reader EXCEPT ![p].at = "written"]
  /\ shown' = [m \in Msg |-> shown[m] + IF m \in reader[p].shows THEN 1 ELSE 0]
  /\ woken' = IF Kind[p] = "stop" THEN [woken EXCEPT ![Of[p]] = @ + 1] ELSE woken
  /\ UNCHANGED <<rows, expired, count, counting, busy, dispVars, faults>>

(* The transaction of p ends; with, those claims are committed. *)
EndRead(p, claims, by) ==
  /\ claimed' = [m \in Msg |-> IF m \in claims THEN by ELSE claimed[m]]
  /\ Unlock(p)
  /\ reader' = [reader EXCEPT ![p] = NoRead]
  /\ counting' = [s \in Session |-> IF counting[s] = p THEN None ELSE counting[s]]
  /\ UNCHANGED <<box, expired, dispVars>>

(* Mutant: what did not fit is not released. *)
CommitHeldOverflow(p) ==
  /\ reader[p].at = "written"
  /\ EndRead(p, reader[p].took, Of[p])
  /\ count' = IF Kind[p] = "stop" THEN [count EXCEPT ![Of[p]] = @ + 1] ELSE count
  /\ UNCHANGED <<woken, busy, shown, faults>>

CommitHeld(p) ==
  /\ reader[p].at = "written"
  /\ EndRead(p, reader[p].shows, Of[p])
  /\ count' = IF Kind[p] = "stop" THEN [count EXCEPT ![Of[p]] = @ + 1] ELSE count
  /\ UNCHANGED <<woken, busy, shown, faults>>

(* Mutant: the claims were committed before the response is written. *)
FailReadCommitted(p) ==
  /\ reader[p].at \in {"looked", "counting", "held", "written"} /\ Fault
  /\ EndRead(p, reader[p].shows, Of[p])
  /\ busy' = IF Kind[p] = "stop" /\ reader[p].at # "written"
             THEN [busy EXCEPT ![Of[p]] = FALSE] ELSE busy
  /\ UNCHANGED <<count, woken, shown>>

(* A killed reader, a failed write or commit: everything rolls back.  A    *)
(* Stop hook that wrote nothing lets the turn end.                         *)
FailRead(p) ==
  /\ reader[p].at \in {"looked", "counting", "held", "written"} /\ Fault
  /\ EndRead(p, {}, None)
  /\ busy' = IF Kind[p] = "stop" /\ reader[p].at # "written"
             THEN [busy EXCEPT ![Of[p]] = FALSE] ELSE busy
  /\ UNCHANGED <<count, woken, shown>>

-----------------------------------------------------------------------------
(* The dispatcher: process_wakes runs one wake at a time. *)

readers == <<holder, reader, counting, busy>>

(* A notification (on_notify) or a sweep schedules the message. *)
ScheduleWake(m) ==
  /\ m \in Wakes /\ box[m] = "stored" /\ m \notin pending \cup settled
  /\ pending' = pending \cup {m}
  /\ UNCHANGED <<rows, expired, reader, guard, busy, wake, settled, shown, faults>>

Settle(some) == pending' = pending \ some /\ settled' = settled \cup some

(* A wake for s begins with its pending messages that are due: what of them *)
(* is deliverable, and whether the cap allows a send.                      *)
WakeLook(s, ids) ==
  LET left == {m \in ids : Free(m)}
  IN  /\ wake.at = "idle" /\ ids # {}
      /\ ids \subseteq {m \in pending : To[m] = s}
      /\ IF left = {} \/ count[s] >= Cap
         THEN Settle(ids) /\ UNCHANGED wake
         ELSE /\ wake' = [at |-> "looked", for |-> s, ids |-> ids, left |-> left, msg |-> 0]
              /\ UNCHANGED <<pending, settled>>
      /\ UNCHANGED <<rows, expired, reader, guard, busy, shown, faults>>

(* inspect: a busy agent or an error defers the wake, and each message is  *)
(* settled once that has lasted for the defer window; an archived agent    *)
(* settles them all; an idle one is sent to.                               *)
WakeInspect ==
  /\ wake.at = "looked"
  /\ \/ /\ ~busy[wake.for]
        /\ wake' = [wake EXCEPT !.at = "idleAgent"]
        /\ UNCHANGED <<pending, settled>>
     \/ /\ wake' = NoWake
        /\ \E late \in SUBSET wake.ids : Settle(late)
  /\ UNCHANGED <<rows, expired, reader, guard, busy, shown, faults>>

Next1(m) == wake.at = "idleAgent" /\ m \in wake.left /\ \A k \in wake.left : m <= k

(* claim_message takes the oldest that is left ... *)
WakeClaim(m) ==
  /\ Next1(m) /\ Free(m) /\ holder[m] = None
  /\ claimed' = [claimed EXCEPT ![m] = Dispatcher]
  /\ wake' = [wake EXCEPT !.at = "claimed", !.msg = m, !.left = @ \ {m}]
  /\ UNCHANGED <<box, holder, expired, reader, guard, busy, pending, settled, shown, faults>>

(* ... or passes on when it is taken or stays locked for lock_timeout. *)
WakeMiss(m) ==
  /\ Next1(m) /\ (~Free(m) \/ holder[m] # None)
  /\ wake' = [wake EXCEPT !.left = @ \ {m}]
  /\ UNCHANGED <<rows, expired, reader, guard, busy, pending, settled, shown, faults>>

WakeSkipped ==
  /\ wake.at = "idleAgent" /\ wake.left = {}
  /\ wake' = NoWake /\ Settle(wake.ids)
  /\ UNCHANGED <<rows, expired, reader, guard, busy, shown, faults>>

(* paseo send --behavior steer: a turn starts, or the running one goes on. *)
WakeSend ==
  /\ wake.at = "claimed"
  /\ wake' = [wake EXCEPT !.at = "sent"]
  /\ shown' = [shown EXCEPT ![wake.msg] = @ + 1]
  /\ woken' = [woken EXCEPT ![wake.for] = @ + 1]
  /\ busy' = [busy EXCEPT ![wake.for] = TRUE]
  /\ UNCHANGED <<rows, expired, reader, count, counting, pending, settled, faults>>

(* The send raises or times out, whether or not the agent got the prompt. *)
WakeSendFails ==
  /\ wake.at = "claimed" /\ Fault
  /\ wake' = [wake EXCEPT !.at = "failed"]
  /\ \/ UNCHANGED <<shown, woken, busy>>
     \/ /\ shown' = [shown EXCEPT ![wake.msg] = @ + 1]
        /\ woken' = [woken EXCEPT ![wake.for] = @ + 1]
        /\ busy' = [busy EXCEPT ![wake.for] = TRUE]
  /\ UNCHANGED <<rows, expired, reader, count, counting, pending, settled>>

(* release_claims: only its own claim, and a deleted row needs none. *)
WakeRelease ==
  /\ wake.at = "failed"
  /\ claimed' = [claimed EXCEPT ![wake.msg] = None]
  /\ wake' = NoWake /\ Settle(wake.ids)
  /\ UNCHANGED <<box, holder, expired, reader, guard, busy, shown, faults>>

(* Mutant: a wake is not counted. *)
WakeCountForgets ==
  /\ wake.at = "sent"
  /\ wake' = NoWake /\ Settle(wake.ids \ wake.left)
  /\ UNCHANGED <<rows, expired, reader, guard, busy, shown, faults>>

(* bump_auto_continue waits for a Stop hook that is counting; what was not *)
(* sent stays pending, if it is not past the defer window.                 *)
WakeCount ==
  /\ wake.at = "sent" /\ counting[wake.for] = None
  /\ count' = [count EXCEPT ![wake.for] = @ + 1]
  /\ wake' = NoWake
  /\ \E late \in SUBSET wake.left : Settle((wake.ids \ wake.left) \cup late)
  /\ UNCHANGED <<rows, expired, reader, counting, woken, busy, shown, faults>>

(* A statement of the wake fails: run() reconnects and the rows stay       *)
(* pending, or the wake is given up; or the process dies and forgets.      *)
WakeBreaks ==
  /\ wake.at # "idle" /\ Fault
  /\ wake' = NoWake
  /\ \/ UNCHANGED <<pending, settled>>
     \/ Settle(wake.ids)
     \/ pending' = {} /\ settled' = {}
  /\ UNCHANGED <<rows, expired, reader, guard, busy, shown>>

-----------------------------------------------------------------------------
Init ==
  /\ box = [m \in Msg |-> "unsent"] /\ expired = {}
  /\ claimed = [m \in Msg |-> None] /\ holder = [m \in Msg |-> None]
  /\ reader = [p \in Reader |-> NoRead]
  /\ count = [s \in Session |-> 0] /\ counting = [s \in Session |-> None]
  /\ busy = [s \in Session |-> FALSE]
  /\ wake = NoWake /\ pending = {} /\ settled = {}
  /\ shown = [m \in Msg |-> 0] /\ woken = [s \in Session |-> 0]
  /\ faults = 0

ReaderStep(p) ==
  \/ \E fit \in 1..Limit : Deliver(p, fit)
  \/ StopLook(p) \/ StopPass(p) \/ StopClaim(p) \/ StopCount(p)
  \/ Write(p) \/ CommitHeld(p)

WakeStep ==
  \/ WakeInspect \/ WakeSkipped
  \/ \E m \in Msg : WakeClaim(m) \/ WakeMiss(m)
  \/ WakeSend \/ WakeRelease \/ WakeCount

Next ==
  \/ \E m \in Msg : Send(m) \/ Expire(m) \/ Prune(m) \/ ScheduleWake(m)
  \/ \E s \in Session : HumanPrompt(s) \/ \E ids \in SUBSET pending : WakeLook(s, ids)
  \/ \E p \in Reader : ReaderStep(p) \/ FailRead(p)
  \/ WakeStep \/ WakeSendFails \/ WakeBreaks

Spec == Init /\ [][Next]_vars

(* A session keeps prompting or reading its inbox, a process that was not  *)
(* killed goes on, and the dispatcher ends what it began.                  *)
Fairness ==
  /\ \A p \in Reader : WF_vars(ReaderStep(p))
  /\ WF_vars(WakeStep)

FairSpec == Spec /\ Fairness
-----------------------------------------------------------------------------
(* PROPERTIES *)

SessionClaimsShown == \A m \in Msg : claimed[m] \in Session => shown[m] >= 1

(* What the dispatcher claimed and nobody was shown, but for the message   *)
(* it is about to send or to release.                                      *)
Unshown == {m \in Msg : claimed[m] = Dispatcher /\ shown[m] = 0}
InHand == IF wake.at \in {"claimed", "failed"} THEN {wake.msg} ELSE {}

(* "A failure leaves nothing claimed and unshown": a message claimed for a *)
(* session was shown to an agent, whatever was killed in between; and of   *)
(* the dispatcher's claims no fault leaves more than one unshown.          *)
ClaimMeansShown == SessionClaimsShown /\ Cardinality(Unshown \ InHand) <= faults

(* Hooks, commands, awaits and the dispatcher race for the same rows, and  *)
(* without a fault none of them shows a message again.                     *)
OnceWithoutFault == faults = 0 => \A m \in Msg : shown[m] <= 1

(* Stop hooks and the dispatcher check the cap before they claim and count *)
(* after; each of those in flight may overrun it by one, and no more.      *)
StopHooks(s) == {p \in Reader : Kind[p] = "stop" /\ Of[p] = s}

OverrunBounded ==
  \A s \in Session : woken[s] <= Cap + Cardinality(StopHooks(s)) + faults

(* Every message is shown, expires, or is in the dispatcher's hands.       *)
EventuallyShown ==
  \A m \in Msg : (box[m] = "stored") ~>
                   (shown[m] >= 1 \/ m \in expired \/ claimed[m] = Dispatcher)
=============================================================================
