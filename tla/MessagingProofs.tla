-------------------------- MODULE MessagingProofs ---------------------------
(***************************************************************************)
(* For any set of messages, sessions and homes, any finite set of readers, *)
(* any limits and any number of faults: a claim for a session means that   *)
(* the message was shown; without a fault no message is shown twice; the   *)
(* cap on turns that no human asked for is overrun by no more than what is *)
(* in flight; a session is woken as it was asked for and moved only by a   *)
(* session start; and a state of curation that comes back is noticed.      *)
(***************************************************************************)
EXTENDS Mailbox, Sessions, Curation, TLAPS, FiniteSetTheorems

(* The mailbox.  The argument is about rows and the transactions that lock *)
(* them: a row that is locked is not claimed, what a reader took is locked  *)
(* by it, and a message that was shown is claimed or is locked by the       *)
(* reader that showed it and has yet to commit.                             *)

LEMMA OldestOf == ASSUME NEW some, NEW n PROVE Oldest(some, n) \subseteq some
  BY DEF Oldest

LEMMA MatchingFree ==
  ASSUME NEW p, NEW m \in Matching(p)
  PROVE  m \in Msg /\ box[m] = "stored" /\ claimed[m] = None /\ holder[m] = None
  BY DEF Matching, Free

LEMMA Bumped ==
  ASSUME NEW S, NEW f \in [S -> Nat], NEW x
  PROVE  [f EXCEPT ![x] = @ + 1] \in [S -> Nat]
<1>1. \A y \in S : f[y] \in Nat /\ f[y] + 1 \in Nat
  OBVIOUS
<1>2. [f EXCEPT ![x] = @ + 1] = [y \in S |-> IF y = x THEN f[x] + 1 ELSE f[y]]
  OBVIOUS
<1>3. \A y \in S : (IF y = x THEN f[x] + 1 ELSE f[y]) \in Nat
  BY <1>1
<1> QED BY <1>2, <1>3

LEMMA NoReadType == NoRead \in [at : {"idle", "looked", "counting", "held", "written"},
                                took : SUBSET Msg, shows : SUBSET Msg, saw : Nat]
  BY DEF NoRead

-----------------------------------------------------------------------------
(* TYPES *)

LEMMA InitType == Init => TypeOK
  BY MailboxAssumption DEF Init, TypeOK, NoRead, NoWake

(* The steps of senders, time and people. *)
LEMMA OutsideType ==
  ASSUME TypeOK,
         \/ \E m \in Msg : Send(m) \/ Expire(m) \/ Prune(m) \/ ScheduleWake(m)
         \/ \E s \in Session : HumanPrompt(s)
  PROVE  TypeOK'
<1>1. CASE \E m \in Msg : Send(m) \/ Expire(m) \/ Prune(m) \/ ScheduleWake(m)
  BY <1>1 DEF TypeOK, Send, Expire, Prune, ScheduleWake, rows, guard, dispVars
<1>2. CASE \E s \in Session : HumanPrompt(s)
  <2>1. PICK s \in Session : HumanPrompt(s)
    BY <1>2
  <2>2. count' \in [Session -> Nat] /\ woken' \in [Session -> Nat]
    BY <2>1 DEF TypeOK, HumanPrompt
  <2>3. busy' \in [Session -> BOOLEAN]
    BY <2>1 DEF TypeOK, HumanPrompt
  <2> QED BY <2>1, <2>2, <2>3 DEF TypeOK, HumanPrompt, rows, dispVars
<1> QED BY <1>1, <1>2

LEMMA EndReadType ==
  ASSUME TypeOK, NEW p \in Reader, NEW claims \in SUBSET Msg, NEW by \in Session \cup {None},
         EndRead(p, claims, by)
  PROVE  /\ claimed' \in [Msg -> Session \cup {Dispatcher, None}]
         /\ holder' \in [Msg -> Reader \cup {None}]
         /\ reader' \in [Reader -> [at : {"idle", "looked", "counting", "held", "written"},
                                    took : SUBSET Msg, shows : SUBSET Msg, saw : Nat]]
         /\ counting' \in [Session -> Reader \cup {None}]
  BY NoReadType DEF TypeOK, EndRead, Unlock

LEMMA ReaderType ==
  ASSUME TypeOK, NEW p \in Reader, ReaderStep(p) \/ FailRead(p)
  PROVE  TypeOK'
<1>0. Of[p] \in Session
  BY MailboxAssumption
<1>1. ASSUME NEW fit \in 1..Limit, Deliver(p, fit) PROVE TypeOK'
  <2> DEFINE took == Oldest(Matching(p), Room(p))
  <2> DEFINE shows == Oldest(took, fit)
  <2>1. took \in SUBSET Msg
    BY OldestOf, MatchingFree
  <2>2. shows \in SUBSET Msg
    BY OldestOf, <2>1
  <2>3. /\ holder' = [m \in Msg |-> IF m \in took THEN p ELSE holder[m]]
        /\ reader' = [reader EXCEPT ![p] =
                        [at |-> "held", took |-> took, shows |-> shows, saw |-> 0]]
        /\ UNCHANGED <<box, claimed, expired, guard, busy, dispVars, shown, faults>>
    BY <1>1 DEF Deliver, PromptHook, CmdMsgInbox, CmdMsgAwait, ClaimOldest, Lock
  <2> HIDE DEF took, shows
  <2> QED BY <2>1, <2>2, <2>3 DEF TypeOK, guard, dispVars
<1>2. CASE StopLook(p)
  BY <1>0, <1>2 DEF TypeOK, StopLook, NoRead, rows, guard, dispVars
<1>3. CASE StopPass(p)
  BY <1>3, NoReadType DEF TypeOK, StopPass, rows, guard, dispVars
<1>4. CASE StopClaim(p)
  <2> DEFINE took == Oldest(Matching(p), 1)
  <2>1. took \in SUBSET Msg
    BY OldestOf, MatchingFree
  <2>2. /\ holder' = [m \in Msg |-> IF m \in took THEN p ELSE holder[m]]
        /\ reader' = [reader EXCEPT ![p] =
                        [at |-> "counting", took |-> took, shows |-> took, saw |-> reader[p].saw]]
        /\ UNCHANGED <<box, claimed, expired, guard, busy, dispVars, shown, faults>>
    BY <1>4 DEF StopClaim, Lock
  <2> HIDE DEF took
  <2>3. reader' \in [Reader -> [at : {"idle", "looked", "counting", "held", "written"},
                                took : SUBSET Msg, shows : SUBSET Msg, saw : Nat]]
    <3>1. reader[p].saw \in Nat
      BY DEF TypeOK
    <3> QED BY <2>1, <2>2, <3>1 DEF TypeOK
  <2>4. holder' \in [Msg -> Reader \cup {None}]
    BY <2>2 DEF TypeOK
  <2> QED BY <2>2, <2>3, <2>4 DEF TypeOK, guard, dispVars
<1>5. CASE StopCount(p)
  BY <1>5 DEF TypeOK, StopCount, rows, guard, dispVars
<1>6. CASE Write(p)
  <2>1. shown' \in [Msg -> Nat]
    BY <1>6 DEF TypeOK, Write
  <2>2. woken' \in [Session -> Nat]
    <3>1. woken \in [Session -> Nat]
      BY DEF TypeOK
    <3>2. woken' = woken \/ woken' = [woken EXCEPT ![Of[p]] = @ + 1]
      BY <1>6 DEF Write
    <3> QED BY <3>1, <3>2, Bumped
  <2>3. reader' \in [Reader -> [at : {"idle", "looked", "counting", "held", "written"},
                                took : SUBSET Msg, shows : SUBSET Msg, saw : Nat]]
    BY <1>6 DEF TypeOK, Write
  <2> QED BY <1>6, <2>1, <2>2, <2>3 DEF TypeOK, Write, rows, dispVars
<1>7. CASE CommitHeld(p)
  <2>1. reader[p].shows \in SUBSET Msg
    BY DEF TypeOK
  <2>2. EndRead(p, reader[p].shows, Of[p])
    BY <1>7 DEF CommitHeld
  <2>3. count' \in [Session -> Nat]
    BY <1>0, <1>7 DEF TypeOK, CommitHeld
  <2>4. UNCHANGED <<box, expired, dispVars, woken, busy, shown, faults>>
    BY <1>7 DEF CommitHeld, EndRead
  <2> QED BY <1>0, <2>1, <2>2, <2>3, <2>4, EndReadType DEF TypeOK, dispVars
<1>8. CASE FailRead(p)
  <2>1. EndRead(p, {}, None)
    BY <1>8 DEF FailRead
  <2>2. busy' \in [Session -> BOOLEAN]
    BY <1>8 DEF TypeOK, FailRead
  <2>3. faults' \in 0..MaxFaults
    BY <1>8, MailboxAssumption DEF TypeOK, FailRead, Fault
  <2>4. UNCHANGED <<box, expired, dispVars, count, woken, shown>>
    BY <1>8 DEF FailRead, EndRead
  <2> QED BY <2>1, <2>2, <2>3, <2>4, EndReadType DEF TypeOK, dispVars
<1> QED BY <1>1, <1>2, <1>3, <1>4, <1>5, <1>6, <1>7, <1>8 DEF ReaderStep

WakeType == [at : {"idle", "looked", "idleAgent", "claimed", "sent", "failed"},
             for : Session \cup {None}, ids : SUBSET Msg, left : SUBSET Msg, msg : Msg \cup {0}]

LEMMA DispatcherType ==
  ASSUME TypeOK,
         \/ \E s \in Session : \E ids \in SUBSET pending : WakeLook(s, ids)
         \/ WakeStep \/ WakeSendFails \/ WakeBreaks
  PROVE  TypeOK'
<1>0. wake \in WakeType /\ NoWake \in WakeType
  BY DEF TypeOK, WakeType, NoWake
<1>1. ASSUME NEW s \in Session, NEW ids \in SUBSET pending, WakeLook(s, ids) PROVE TypeOK'
  <2> DEFINE left == {m \in ids : Free(m)}
  <2>1. ids \in SUBSET Msg /\ left \in SUBSET Msg
    BY DEF TypeOK
  <2>2. wake' = wake \/ wake' = [at |-> "looked", for |-> s, ids |-> ids, left |-> left, msg |-> 0]
    BY <1>1 DEF WakeLook
  <2> HIDE DEF left
  <2>3. wake' \in WakeType
    BY <1>0, <2>1, <2>2 DEF WakeType
  <2>4. pending' \subseteq Msg /\ settled' \subseteq Msg
    BY <1>1, <2>1 DEF TypeOK, WakeLook, Settle
  <2> QED BY <1>1, <2>3, <2>4 DEF TypeOK, WakeType, WakeLook, rows, guard
<1>2. CASE WakeInspect
  <2>1. wake' \in WakeType
    BY <1>0, <1>2 DEF WakeInspect, WakeType
  <2>2. pending' \subseteq Msg /\ settled' \subseteq Msg
    BY <1>0, <1>2 DEF TypeOK, WakeType, WakeInspect, Settle
  <2> QED BY <1>2, <2>1, <2>2 DEF TypeOK, WakeType, WakeInspect, rows, guard
<1>3. ASSUME NEW m \in Msg, WakeClaim(m) \/ WakeMiss(m) PROVE TypeOK'
  <2>1. wake' \in WakeType
    BY <1>0, <1>3 DEF WakeClaim, WakeMiss, WakeType
  <2>2. claimed' \in [Msg -> Session \cup {Dispatcher, None}]
    BY <1>3 DEF TypeOK, WakeClaim, WakeMiss, rows
  <2> QED BY <1>3, <2>1, <2>2 DEF TypeOK, WakeType, WakeClaim, WakeMiss, rows, guard
<1>4. CASE WakeSkipped \/ WakeRelease
  <2>1. wake' = NoWake /\ pending' \subseteq Msg /\ settled' \subseteq Msg
    BY <1>0, <1>4 DEF TypeOK, WakeType, WakeSkipped, WakeRelease, Settle
  <2>2. claimed' \in [Msg -> Session \cup {Dispatcher, None}]
    BY <1>4 DEF TypeOK, WakeSkipped, WakeRelease, rows
  <2> QED BY <1>0, <1>4, <2>1, <2>2 DEF TypeOK, WakeType, WakeSkipped, WakeRelease, rows, guard
<1>5. CASE WakeSend \/ WakeSendFails
  <2>1. wake' \in WakeType
    BY <1>0, <1>5 DEF WakeSend, WakeSendFails, WakeType
  <2>2. busy' \in [Session -> BOOLEAN]
    BY <1>5 DEF TypeOK, WakeSend, WakeSendFails
  <2>4. shown \in [Msg -> Nat] /\ woken \in [Session -> Nat]
    BY DEF TypeOK
  <2>5. /\ shown' = shown \/ shown' = [shown EXCEPT ![wake.msg] = @ + 1]
        /\ woken' = woken \/ woken' = [woken EXCEPT ![wake.for] = @ + 1]
    BY <1>5 DEF WakeSend, WakeSendFails
  <2>6. shown' \in [Msg -> Nat] /\ woken' \in [Session -> Nat]
    BY <2>4, <2>5, Bumped
  <2>3. faults' \in 0..MaxFaults
    BY <1>5, MailboxAssumption DEF TypeOK, WakeSend, WakeSendFails, Fault
  <2> QED BY <1>5, <2>1, <2>2, <2>3, <2>6 DEF TypeOK, WakeType, WakeSend, WakeSendFails, rows
<1>6. CASE WakeCount
  <2>1. wake' = NoWake /\ pending' \subseteq Msg /\ settled' \subseteq Msg
    BY <1>0, <1>6 DEF TypeOK, WakeType, WakeCount, Settle
  <2>2. count' \in [Session -> Nat]
    <3>1. count \in [Session -> Nat]
      BY DEF TypeOK
    <3>2. count' = [count EXCEPT ![wake.for] = @ + 1]
      BY <1>6 DEF WakeCount
    <3> QED BY <3>1, <3>2, Bumped
  <2> QED BY <1>0, <1>6, <2>1, <2>2 DEF TypeOK, WakeType, WakeCount, rows
<1>7. CASE WakeBreaks
  <2>1. wake' = NoWake /\ pending' \subseteq Msg /\ settled' \subseteq Msg
    BY <1>0, <1>7 DEF TypeOK, WakeType, WakeBreaks, Settle
  <2>2. faults' \in 0..MaxFaults
    BY <1>7, MailboxAssumption DEF TypeOK, WakeBreaks, Fault
  <2> QED BY <1>0, <1>7, <2>1, <2>2 DEF TypeOK, WakeType, WakeBreaks, rows, guard
<1> QED BY <1>1, <1>2, <1>3, <1>4, <1>5, <1>6, <1>7 DEF WakeStep

(* Rows, readers' transactions, loop guards and the dispatcher's memory    *)
(* keep their types.                                                       *)
THEOREM MailboxTypeCorrect == Spec => []TypeOK
<1>1. TypeOK /\ [Next]_vars => TypeOK'
  <2> SUFFICES ASSUME TypeOK, [Next]_vars PROVE TypeOK'
    OBVIOUS
  <2>1. CASE Next
    BY <2>1, OutsideType, ReaderType, DispatcherType DEF Next
  <2>2. CASE UNCHANGED vars
    BY <2>2 DEF TypeOK, vars, rows, guard, dispVars
  <2> QED BY <2>1, <2>2
<1> QED BY <1>1, InitType, PTL DEF Spec
-----------------------------------------------------------------------------
(* THE INVARIANT *)

(* p has shown what it took and has yet to commit. *)
Showed(p, m) == reader[p].at = "written" /\ m \in reader[p].shows

(* A locked row is not claimed. *)
LocksFree == \A m \in Msg : holder[m] # None => claimed[m] = None

(* What a reader took is locked by it, and it shows no more than that. *)
TookLocked ==
  \A p \in Reader :
    /\ reader[p].shows \subseteq reader[p].took
    /\ \A m \in reader[p].took : holder[m] = p
    /\ reader[p].at \in {"idle", "looked"} => reader[p].took = {}

WrittenShown == \A p \in Reader : \A m \in Msg : Showed(p, m) => shown[m] >= 1

(* Without a fault, what was shown is claimed, or about to be. *)
ShownTaken ==
  faults = 0 => \A m \in Msg :
    shown[m] >= 1 => claimed[m] # None \/ (holder[m] # None /\ Showed(holder[m], m))

(* The dispatcher's claim is on a message that nobody was shown. *)
WakeClaimed ==
  /\ wake.at = "failed" => faults > 0
  /\ wake.at \in {"claimed", "sent", "failed"} => wake.msg \in Msg
  /\ faults = 0 /\ wake.at = "claimed"
       => claimed[wake.msg] = Dispatcher /\ shown[wake.msg] = 0

IInv == /\ TypeOK /\ LocksFree /\ TookLocked /\ WrittenShown /\ ShownTaken
        /\ WakeClaimed /\ SessionClaimsShown /\ OnceWithoutFault

ReaderT == [at : {"idle", "looked", "counting", "held", "written"},
            took : SUBSET Msg, shows : SUBSET Msg, saw : Nat]

(* What the invariant needs of the types. *)
LEMMA Types ==
  ASSUME TypeOK
  PROVE  /\ claimed \in [Msg -> Session \cup {Dispatcher, None}]
         /\ holder \in [Msg -> Reader \cup {None}]
         /\ reader \in [Reader -> ReaderT]
         /\ shown \in [Msg -> Nat]
         /\ wake \in WakeType
         /\ faults \in Nat
  BY MailboxAssumption DEF TypeOK, ReaderT, WakeType

LEMMA Names ==
  /\ None \notin Reader /\ None \notin Session /\ Dispatcher \notin Session
  /\ None # Dispatcher /\ \A p \in Reader : Of[p] \in Session
  BY MailboxAssumption DEF None, Dispatcher, Inbox

LEMMA InitIInv == Init => IInv
<1> SUFFICES ASSUME Init PROVE IInv
  OBVIOUS
<1>1. TypeOK
  BY InitType
<1>2. /\ \A m \in Msg : claimed[m] = None /\ holder[m] = None /\ shown[m] = 0
      /\ \A p \in Reader : reader[p] = NoRead
      /\ wake = NoWake
  BY DEF Init
<1> QED BY <1>1, <1>2, Names
        DEF IInv, LocksFree, TookLocked, WrittenShown, Showed, ShownTaken, WakeClaimed,
            SessionClaimsShown, OnceWithoutFault, NoRead, NoWake

(* Steps that touch neither claims nor locks nor what was shown. *)
LEMMA QuietStep ==
  ASSUME IInv, TypeOK', UNCHANGED <<claimed, holder, reader, shown, faults>>,
         wake' = wake \/ wake'.at \in {"idle", "looked", "idleAgent"}
  PROVE  IInv'
  BY DEF IInv, LocksFree, TookLocked, WrittenShown, Showed, ShownTaken, WakeClaimed,
         SessionClaimsShown, OnceWithoutFault

LEMMA QuietActions ==
  ASSUME IInv, TypeOK',
         \/ \E m \in Msg : Send(m) \/ Expire(m) \/ Prune(m) \/ ScheduleWake(m)
         \/ \E s \in Session : HumanPrompt(s)
         \/ \E s \in Session : \E ids \in SUBSET pending : WakeLook(s, ids)
         \/ WakeInspect \/ WakeSkipped \/ WakeCount
         \/ \E m \in Msg : WakeMiss(m)
  PROVE  IInv'
<1>0. wake \in WakeType
  BY Types DEF IInv
<1>1. UNCHANGED <<claimed, holder, reader, shown, faults>>
  BY DEF Send, Expire, Prune, ScheduleWake, HumanPrompt, WakeLook, WakeInspect, WakeSkipped,
         WakeCount, WakeMiss, rows, guard, dispVars
<1>2. wake' = wake \/ wake'.at \in {"idle", "looked", "idleAgent"}
  <2>1. CASE \E s \in Session : \E ids \in SUBSET pending : WakeLook(s, ids)
    BY <2>1 DEF WakeLook
  <2>2. CASE WakeInspect \/ WakeSkipped \/ WakeCount \/ \E m \in Msg : WakeMiss(m)
    BY <1>0, <2>2 DEF WakeInspect, WakeSkipped, WakeCount, WakeMiss, Next1, NoWake, WakeType
  <2>3. CASE \/ \E m \in Msg : Send(m) \/ Expire(m) \/ Prune(m) \/ ScheduleWake(m)
             \/ \E s \in Session : HumanPrompt(s)
    BY <2>3 DEF Send, Expire, Prune, ScheduleWake, HumanPrompt, rows, guard, dispVars
  <2> QED BY <2>1, <2>2, <2>3
<1> QED BY <1>1, <1>2, QuietStep

-----------------------------------------------------------------------------
(* The dispatcher's steps. *)

LEMMA WakeClaimStep ==
  ASSUME IInv, TypeOK', NEW m \in Msg, WakeClaim(m)
  PROVE  IInv'
<1>1. /\ m \in Msg /\ claimed[m] = None /\ holder[m] = None
      /\ UNCHANGED <<holder, reader, shown, faults>>
  BY DEF WakeClaim, Free
<1>2. /\ claimed' = [claimed EXCEPT ![m] = Dispatcher]
      /\ wake' = [wake EXCEPT !.at = "claimed", !.msg = m, !.left = @ \ {m}]
  BY DEF WakeClaim
<1>3. /\ claimed'[m] = Dispatcher /\ \A k \in Msg : k # m => claimed'[k] = claimed[k]
      /\ wake'.at = "claimed" /\ wake'.msg = m
  BY <1>2, Types DEF IInv, WakeType
<1>4. faults = 0 => shown[m] = 0
  BY <1>1, Types DEF IInv, ShownTaken
<1>5. LocksFree' /\ TookLocked' /\ WrittenShown'
  BY <1>1, <1>3 DEF IInv, LocksFree, TookLocked, WrittenShown, Showed
<1>6. ShownTaken' /\ OnceWithoutFault'
  BY <1>1, <1>3, Names DEF IInv, ShownTaken, Showed, OnceWithoutFault
<1>7. WakeClaimed' /\ SessionClaimsShown'
  BY <1>1, <1>3, <1>4, Names DEF IInv, WakeClaimed, SessionClaimsShown
<1> QED BY <1>5, <1>6, <1>7 DEF IInv

LEMMA WakeSendStep ==
  ASSUME IInv, TypeOK', WakeSend \/ WakeSendFails
  PROVE  IInv'
<1> DEFINE m == wake.msg
<1>1. /\ wake.at = "claimed" /\ UNCHANGED <<claimed, holder, reader>>
      /\ wake'.at \in {"sent", "failed"} /\ wake'.msg = m
      /\ WakeSend => faults' = faults /\ wake'.at = "sent"
      /\ WakeSendFails => faults' = faults + 1
      /\ shown' = shown \/ shown' = [shown EXCEPT ![m] = @ + 1]
  BY Types DEF IInv, WakeSend, WakeSendFails, Fault, rows, WakeType
<1>2. m \in Msg
  BY <1>1 DEF IInv, WakeClaimed
<1> HIDE DEF m
<1>3. /\ \A k \in Msg : shown'[k] = shown[k] \/ (k = m /\ shown'[k] = shown[k] + 1)
      /\ \A k \in Msg : shown[k] \in Nat
      /\ faults' = faults \/ faults' > 0
  BY <1>1, <1>2, Types DEF IInv
<1>4. faults' = 0 => faults = 0 /\ claimed[m] = Dispatcher /\ shown[m] = 0
  BY <1>1, Types DEF IInv, WakeClaimed, m
<1>5. LocksFree' /\ TookLocked'
  BY <1>1 DEF IInv, LocksFree, TookLocked
<1>6. WrittenShown' /\ SessionClaimsShown'
  BY <1>1, <1>3 DEF IInv, WrittenShown, Showed, SessionClaimsShown
<1>7. ShownTaken' /\ OnceWithoutFault'
  BY <1>1, <1>3, <1>4, Names DEF IInv, ShownTaken, Showed, OnceWithoutFault
<1>8. WakeClaimed'
  BY <1>1, <1>2, <1>3, Types DEF IInv, WakeClaimed
<1> QED BY <1>5, <1>6, <1>7, <1>8 DEF IInv

LEMMA WakeEndStep ==
  ASSUME IInv, TypeOK', WakeRelease \/ WakeBreaks
  PROVE  IInv'
<1>1. /\ UNCHANGED <<holder, reader, shown>> /\ wake' = NoWake
      /\ faults' > 0
      /\ \A m \in Msg : claimed'[m] \in {claimed[m], None}
  BY Types DEF IInv, WakeRelease, WakeBreaks, WakeClaimed, Fault, rows
<1>2. LocksFree' /\ TookLocked' /\ WrittenShown'
  BY <1>1 DEF IInv, LocksFree, TookLocked, WrittenShown, Showed
<1>3. ShownTaken' /\ OnceWithoutFault' /\ WakeClaimed'
  BY <1>1, Types DEF IInv, ShownTaken, OnceWithoutFault, WakeClaimed, NoWake
<1>4. SessionClaimsShown'
  BY <1>1, Names DEF IInv, SessionClaimsShown
<1> QED BY <1>2, <1>3, <1>4 DEF IInv

-----------------------------------------------------------------------------
(* The readers' steps. *)

(* Taking rows: p locks free ones and remembers them. *)
LEMMA TakeStep ==
  ASSUME IInv, TypeOK', NEW p \in Reader, NEW took, NEW shows,
         took \subseteq Matching(p), shows \subseteq took,
         Lock(p, took), reader[p].at \in {"idle", "looked"},
         \A q \in Reader : q # p => reader'[q] = reader[q],
         reader'[p].at \in {"counting", "held"},
         reader'[p].took = took, reader'[p].shows = shows,
         UNCHANGED <<claimed, wake, shown, faults>>
  PROVE  IInv'
<1>1. \A m \in Msg : /\ m \in took => holder'[m] = p /\ holder[m] = None /\ claimed[m] = None
                     /\ m \notin took => holder'[m] = holder[m]
  BY MatchingFree DEF Lock
<1>2. took \subseteq Msg
  BY MatchingFree
<1>3. LocksFree'
  BY <1>1 DEF IInv, LocksFree
<1>4. TookLocked'
  <2> SUFFICES ASSUME NEW q \in Reader
               PROVE  /\ reader'[q].shows \subseteq reader'[q].took
                      /\ \A m \in reader'[q].took : holder'[m] = q
                      /\ reader'[q].at \in {"idle", "looked"} => reader'[q].took = {}
    BY DEF TookLocked
  <2>1. CASE q = p
    BY <1>1, <1>2, <2>1
  <2>2. CASE q # p
    <3>1. reader[q].took \subseteq Msg
      BY Types DEF IInv, ReaderT
    <3>2. \A m \in reader[q].took : holder[m] = q
      BY DEF IInv, TookLocked
    <3> QED BY <1>1, <2>2, <3>1, <3>2, Names DEF IInv, TookLocked
  <2> QED BY <2>1, <2>2
<1>5. \A q \in Reader, m \in Msg : Showed(q, m)' <=> Showed(q, m)
  <2> SUFFICES ASSUME NEW q \in Reader, NEW m \in Msg PROVE Showed(q, m)' <=> Showed(q, m)
    OBVIOUS
  <2>1. CASE q = p
    BY <2>1 DEF Showed
  <2>2. CASE q # p
    BY <2>2 DEF Showed
  <2> QED BY <2>1, <2>2
<1>6. WrittenShown'
  BY <1>5 DEF IInv, WrittenShown
<1>7. ShownTaken'
  <2> SUFFICES ASSUME faults = 0, NEW m \in Msg, shown[m] >= 1, claimed[m] = None
               PROVE  (holder[m] # None /\ Showed(holder[m], m))'
    BY DEF ShownTaken
  <2>1. holder[m] # None /\ Showed(holder[m], m)
    BY DEF IInv, ShownTaken
  <2>2. holder'[m] = holder[m] /\ holder[m] \in Reader
    BY <1>1, <2>1, Types DEF IInv
  <2> QED BY <1>5, <2>1, <2>2
<1>8. WakeClaimed' /\ SessionClaimsShown' /\ OnceWithoutFault'
  BY DEF IInv, WakeClaimed, SessionClaimsShown, OnceWithoutFault
<1> QED BY <1>3, <1>4, <1>6, <1>7, <1>8 DEF IInv

LEMMA TakeActions ==
  ASSUME IInv, TypeOK', NEW p \in Reader,
         StopClaim(p) \/ \E fit \in 1..Limit : Deliver(p, fit)
  PROVE  IInv'
<1>0. reader \in [Reader -> ReaderT]
  BY Types DEF IInv
<1>1. CASE StopClaim(p)
  <2> DEFINE took == Oldest(Matching(p), 1)
  <2>1. /\ reader[p].at = "looked" /\ Lock(p, took) /\ UNCHANGED <<claimed, wake, shown, faults>>
        /\ reader' = [reader EXCEPT ![p] =
                        [at |-> "counting", took |-> took, shows |-> took, saw |-> reader[p].saw]]
    BY <1>1 DEF StopClaim, dispVars
  <2>2. took \subseteq Matching(p)
    BY OldestOf
  <2> HIDE DEF took
  <2> QED BY <1>0, <2>1, <2>2, TakeStep
<1>2. ASSUME NEW fit \in 1..Limit, Deliver(p, fit) PROVE IInv'
  <2> DEFINE took == Oldest(Matching(p), Room(p))
  <2> DEFINE shows == Oldest(took, fit)
  <2>1. /\ reader[p].at = "idle" /\ Lock(p, took) /\ UNCHANGED <<claimed, wake, shown, faults>>
        /\ reader' = [reader EXCEPT ![p] =
                        [at |-> "held", took |-> took, shows |-> shows, saw |-> 0]]
    BY <1>2 DEF Deliver, PromptHook, CmdMsgInbox, CmdMsgAwait, ClaimOldest, dispVars
  <2>2. took \subseteq Matching(p) /\ shows \subseteq took
    BY OldestOf
  <2> HIDE DEF took, shows
  <2> QED BY <1>0, <2>1, <2>2, TakeStep
<1> QED BY <1>1, <1>2

(* Moving on without a row: p looks, passes or counts. *)
LEMMA MoveStep ==
  ASSUME IInv, TypeOK', NEW p \in Reader, StopLook(p) \/ StopPass(p) \/ StopCount(p)
  PROVE  IInv'
<1>1. UNCHANGED <<claimed, holder, wake, shown, faults>>
  BY DEF StopLook, StopPass, StopCount, rows, dispVars
<1>2. /\ \A q \in Reader : q # p => reader'[q] = reader[q]
      /\ reader[p].at # "written" /\ reader'[p].at # "written"
      /\ \/ reader'[p].took = {} /\ reader'[p].shows = {}
         \/ /\ reader'[p].took = reader[p].took /\ reader'[p].shows = reader[p].shows
            /\ reader'[p].at = "held"
  <2>0. reader \in [Reader -> ReaderT] /\ reader[p] \in ReaderT
    BY Types DEF IInv
  <2>1. CASE StopLook(p)
    BY <2>0, <2>1 DEF StopLook, NoRead
  <2>2. CASE StopPass(p)
    BY <2>0, <2>2 DEF StopPass, NoRead
  <2>3. CASE StopCount(p)
    BY <2>0, <2>3 DEF StopCount, ReaderT
  <2> QED BY <2>1, <2>2, <2>3
<1>3. TookLocked'
  <2> SUFFICES ASSUME NEW q \in Reader
               PROVE  /\ reader'[q].shows \subseteq reader'[q].took
                      /\ \A m \in reader'[q].took : holder'[m] = q
                      /\ reader'[q].at \in {"idle", "looked"} => reader'[q].took = {}
    BY DEF TookLocked
  <2>1. CASE q = p
    BY <1>1, <1>2, <2>1 DEF IInv, TookLocked
  <2>2. CASE q # p
    BY <1>1, <1>2, <2>2 DEF IInv, TookLocked
  <2> QED BY <2>1, <2>2
<1>4. \A q \in Reader, m \in Msg : Showed(q, m)' <=> Showed(q, m)
  BY <1>2 DEF Showed
<1>5. WrittenShown' /\ LocksFree'
  BY <1>1, <1>4 DEF IInv, WrittenShown, LocksFree
<1>6. ShownTaken'
  BY <1>1, <1>4, Types DEF IInv, ShownTaken
<1>7. WakeClaimed' /\ SessionClaimsShown' /\ OnceWithoutFault'
  BY <1>1 DEF IInv, WakeClaimed, SessionClaimsShown, OnceWithoutFault
<1> QED BY <1>3, <1>5, <1>6, <1>7 DEF IInv

LEMMA WriteStep ==
  ASSUME IInv, TypeOK', NEW p \in Reader, Write(p)
  PROVE  IInv'
<1>1. /\ UNCHANGED <<claimed, holder, wake, faults>>
      /\ reader[p].at = "held" /\ reader'[p].at = "written"
      /\ reader'[p].took = reader[p].took /\ reader'[p].shows = reader[p].shows
      /\ \A q \in Reader : q # p => reader'[q] = reader[q]
  BY Types DEF IInv, Write, rows, dispVars, ReaderT
<1>2. \A m \in Msg : /\ shown[m] \in Nat
                     /\ m \in reader[p].shows => shown'[m] = shown[m] + 1
                     /\ m \notin reader[p].shows => shown'[m] = shown[m]
  BY Types DEF IInv, Write
<1>3. \A m \in Msg : m \in reader[p].shows =>
        holder[m] = p /\ claimed[m] = None /\ ~Showed(p, m)
  BY <1>1, Names DEF IInv, TookLocked, LocksFree, Showed
<1>4. \A m \in Msg : faults = 0 /\ m \in reader[p].shows => shown[m] = 0
  BY <1>2, <1>3, Types DEF IInv, ShownTaken
<1>5. TookLocked' /\ LocksFree'
  BY <1>1 DEF IInv, TookLocked, LocksFree
<1>6. \A q \in Reader, m \in Msg :
        Showed(q, m)' <=> Showed(q, m) \/ (q = p /\ m \in reader[p].shows)
  BY <1>1 DEF Showed
<1>7. WrittenShown'
  BY <1>2, <1>6 DEF IInv, WrittenShown
<1>8. ShownTaken'
  <2> SUFFICES ASSUME faults = 0, NEW m \in Msg, shown'[m] >= 1, claimed[m] = None
               PROVE  (holder[m] # None /\ Showed(holder[m], m))'
    BY <1>1 DEF ShownTaken
  <2>1. CASE m \in reader[p].shows
    <3>1. holder'[m] = p /\ Showed(p, m)'
      BY <1>1, <1>3, <1>6, <2>1
    <3> QED BY <3>1, Names DEF Showed
  <2>2. CASE m \notin reader[p].shows
    <3>1. shown[m] >= 1
      BY <1>2, <2>2
    <3>2. holder[m] # None /\ Showed(holder[m], m) /\ holder[m] \in Reader
      BY <3>1, Types DEF IInv, ShownTaken
    <3> QED BY <1>1, <1>6, <3>2 DEF Showed
  <2> QED BY <2>1, <2>2
<1>9. WakeClaimed'
  <2>1. faults = 0 /\ wake.at = "claimed" => wake.msg \in Msg /\ wake.msg \notin reader[p].shows
    BY <1>3, Names DEF IInv, WakeClaimed
  <2> QED BY <1>1, <1>2, <2>1 DEF IInv, WakeClaimed
<1>10. SessionClaimsShown'
  BY <1>1, <1>2 DEF IInv, SessionClaimsShown
<1>11. OnceWithoutFault'
  BY <1>1, <1>2, <1>4 DEF IInv, OnceWithoutFault
<1> QED BY <1>5, <1>7, <1>8, <1>9, <1>10, <1>11 DEF IInv

(* The end of p's transaction, whatever it claims. *)
LEMMA EndReadFacts ==
  ASSUME IInv, NEW p \in Reader, NEW claims, NEW by, EndRead(p, claims, by)
  PROVE  /\ \A m \in Msg : claimed'[m] = IF m \in claims THEN by ELSE claimed[m]
         /\ \A m \in Msg : holder'[m] = IF holder[m] = p THEN None ELSE holder[m]
         /\ reader'[p] = NoRead
         /\ \A q \in Reader : q # p => reader'[q] = reader[q]
         /\ wake' = wake
         /\ TookLocked'
         /\ \A q \in Reader, m \in Msg : Showed(q, m)' <=> q # p /\ Showed(q, m)
<1>1. /\ \A m \in Msg : claimed'[m] = IF m \in claims THEN by ELSE claimed[m]
      /\ \A m \in Msg : holder'[m] = IF holder[m] = p THEN None ELSE holder[m]
      /\ reader'[p] = NoRead
      /\ \A q \in Reader : q # p => reader'[q] = reader[q]
      /\ wake' = wake
  BY Types DEF IInv, EndRead, Unlock, dispVars
<1>2. TookLocked'
  <2> SUFFICES ASSUME NEW q \in Reader
               PROVE  /\ reader'[q].shows \subseteq reader'[q].took
                      /\ \A m \in reader'[q].took : holder'[m] = q
                      /\ reader'[q].at \in {"idle", "looked"} => reader'[q].took = {}
    BY DEF TookLocked
  <2>1. CASE q = p
    BY <1>1, <2>1 DEF NoRead
  <2>2. CASE q # p
    <3>1. reader[q].took \subseteq Msg
      BY Types DEF IInv, ReaderT
    <3> QED BY <1>1, <2>2, <3>1 DEF IInv, TookLocked
  <2> QED BY <2>1, <2>2
<1>3. \A q \in Reader, m \in Msg : Showed(q, m)' <=> q # p /\ Showed(q, m)
  BY <1>1 DEF Showed, NoRead
<1> QED BY <1>1, <1>2, <1>3

LEMMA CommitStep ==
  ASSUME IInv, TypeOK', NEW p \in Reader, CommitHeld(p)
  PROVE  IInv'
<1> DEFINE shows == reader[p].shows
<1>0. /\ reader[p].at = "written" /\ EndRead(p, shows, Of[p])
      /\ UNCHANGED <<shown, faults>>
  BY DEF CommitHeld
<1>1. \A m \in Msg : m \in shows => holder[m] = p /\ claimed[m] = None /\ shown[m] >= 1
  BY <1>0, Names DEF IInv, TookLocked, LocksFree, WrittenShown, Showed
<1>2. \A m \in Msg : Showed(p, m) <=> m \in shows
  BY <1>0 DEF Showed
<1> HIDE DEF shows
<1>3. /\ \A m \in Msg : claimed'[m] = IF m \in shows THEN Of[p] ELSE claimed[m]
      /\ \A m \in Msg : holder'[m] = IF holder[m] = p THEN None ELSE holder[m]
      /\ wake' = wake /\ TookLocked'
      /\ \A q \in Reader, m \in Msg : Showed(q, m)' <=> q # p /\ Showed(q, m)
  BY <1>0, EndReadFacts
<1>4. Of[p] \in Session /\ Of[p] # None /\ Of[p] # Dispatcher
  BY Names
<1>5. LocksFree'
  BY <1>1, <1>3 DEF IInv, LocksFree
<1>6. WrittenShown'
  BY <1>0, <1>3 DEF IInv, WrittenShown
<1>7. ShownTaken'
  <2> SUFFICES ASSUME faults = 0, NEW m \in Msg, shown[m] >= 1, claimed'[m] = None
               PROVE  (holder[m] # None /\ Showed(holder[m], m))'
    BY <1>0 DEF ShownTaken
  <2>1. m \notin shows /\ claimed[m] = None
    BY <1>3, <1>4
  <2>2. holder[m] # None /\ Showed(holder[m], m)
    BY <2>1 DEF IInv, ShownTaken
  <2>3. holder[m] # p /\ holder[m] \in Reader
    BY <1>2, <2>1, <2>2, Types DEF IInv
  <2> QED BY <1>3, <2>2, <2>3
<1>8. WakeClaimed'
  <2>1. faults = 0 /\ wake.at = "claimed" => wake.msg \in Msg /\ wake.msg \notin shows
    BY <1>1, Names DEF IInv, WakeClaimed
  <2> QED BY <1>0, <1>3, <2>1 DEF IInv, WakeClaimed
<1>9. SessionClaimsShown'
  BY <1>0, <1>1, <1>3 DEF IInv, SessionClaimsShown
<1>10. OnceWithoutFault'
  BY <1>0 DEF IInv, OnceWithoutFault
<1> QED BY <1>3, <1>5, <1>6, <1>7, <1>8, <1>9, <1>10 DEF IInv

LEMMA FailStep ==
  ASSUME IInv, TypeOK', NEW p \in Reader, FailRead(p)
  PROVE  IInv'
<1>0. EndRead(p, {}, None) /\ shown' = shown /\ faults' > 0
  BY Types DEF IInv, FailRead, Fault
<1>1. /\ \A m \in Msg : claimed'[m] = claimed[m]
      /\ \A m \in Msg : holder'[m] \in {None, holder[m]}
      /\ wake' = wake /\ TookLocked'
      /\ \A q \in Reader, m \in Msg : Showed(q, m)' => Showed(q, m)
  BY <1>0, EndReadFacts
<1>2. LocksFree' /\ WrittenShown' /\ SessionClaimsShown'
  BY <1>0, <1>1 DEF IInv, LocksFree, WrittenShown, SessionClaimsShown
<1>3. ShownTaken' /\ OnceWithoutFault' /\ WakeClaimed'
  BY <1>0, <1>1 DEF IInv, ShownTaken, OnceWithoutFault, WakeClaimed
<1> QED BY <1>1, <1>2, <1>3 DEF IInv

-----------------------------------------------------------------------------
LEMMA Invariance == Spec => []IInv
<1>1. IInv /\ [Next]_vars => IInv'
  <2> SUFFICES ASSUME IInv, [Next]_vars PROVE IInv'
    OBVIOUS
  <2>1. CASE Next
    <3>1. TypeOK'
      BY <2>1, OutsideType, ReaderType, DispatcherType DEF Next, IInv
    <3>2. ASSUME NEW p \in Reader, ReaderStep(p) \/ FailRead(p) PROVE IInv'
      BY <3>1, <3>2, TakeActions, MoveStep, WriteStep, CommitStep, FailStep DEF ReaderStep
    <3>3. ASSUME WakeStep \/ WakeSendFails \/ WakeBreaks PROVE IInv'
      BY <3>1, <3>3, QuietActions, WakeClaimStep, WakeSendStep, WakeEndStep DEF WakeStep
    <3>4. ASSUME \/ \E m \in Msg : Send(m) \/ Expire(m) \/ Prune(m) \/ ScheduleWake(m)
                 \/ \E s \in Session : HumanPrompt(s) \/ \E ids \in SUBSET pending : WakeLook(s, ids)
          PROVE  IInv'
      BY <3>1, <3>4, QuietActions
    <3> QED BY <2>1, <3>2, <3>3, <3>4 DEF Next
  <2>2. CASE UNCHANGED vars
    BY <2>2 DEF vars, rows, guard, dispVars, IInv, TypeOK, LocksFree, TookLocked, WrittenShown,
                Showed, ShownTaken, WakeClaimed, SessionClaimsShown, OnceWithoutFault
  <2> QED BY <2>1, <2>2
<1> QED BY <1>1, InitIInv, PTL DEF Spec

(* The dispatcher's claims: a set of messages that grows by the one in its *)
(* hands, which only a fault takes out of them unshown and unreleased.     *)
Left == Unshown \ InHand
LeftByFaults == IsFiniteSet(Left) /\ Cardinality(Left) <= faults

LEMMA FewerLeft ==
  ASSUME LeftByFaults, TypeOK, Left' \subseteq Left, faults' \in Nat, faults' >= faults
  PROVE  LeftByFaults'
<1>1. Left' \subseteq Left /\ IsFiniteSet(Left)
  BY DEF LeftByFaults
<1> DEFINE before == Left  after == Left'
<1>2. IsFiniteSet(before) /\ after \subseteq before
  BY <1>1
<1> HIDE DEF before, after
<1>3. /\ IsFiniteSet(after) /\ Cardinality(after) <= Cardinality(before)
      /\ Cardinality(after) \in Nat /\ Cardinality(before) \in Nat
  BY <1>2, FS_Subset, FS_CardinalityType
<1>4. faults \in Nat /\ Cardinality(before) <= faults
  BY Types DEF LeftByFaults, before
<1>5. IsFiniteSet(after) /\ Cardinality(after) <= faults'
  BY <1>3, <1>4
<1> QED BY <1>5 DEF LeftByFaults, after

LEMMA LeftStep == IInv /\ IInv' /\ LeftByFaults /\ [Next]_vars => LeftByFaults'
<1> SUFFICES ASSUME IInv, IInv', LeftByFaults, [Next]_vars PROVE LeftByFaults'
  OBVIOUS
<1>0. TypeOK /\ faults \in Nat /\ faults' \in Nat
  BY MailboxAssumption DEF IInv, TypeOK
<1>1. ASSUME NEW p \in Reader, ReaderStep(p) \/ FailRead(p) PROVE LeftByFaults'
  <2>1. wake' = wake /\ faults' >= faults
    BY <1>0, <1>1 DEF ReaderStep, Deliver, PromptHook, CmdMsgInbox, CmdMsgAwait, ClaimOldest, StopLook, StopPass, StopClaim, StopCount, Write,
       CommitHeld, FailRead, EndRead, Fault, dispVars
  <2>2. \A m \in Msg : claimed'[m] = Dispatcher => claimed[m] = Dispatcher
    <3>1. CASE CommitHeld(p) \/ FailRead(p)
      <4>1. PICK claims, by : by \in {Of[p], None} /\ EndRead(p, claims, by)
        BY <3>1 DEF CommitHeld, FailRead
      <4> QED BY <4>1, Names DEF EndRead
    <3>2. CASE ~(CommitHeld(p) \/ FailRead(p))
      BY <1>1, <3>2 DEF ReaderStep, Deliver, PromptHook, CmdMsgInbox, CmdMsgAwait, ClaimOldest, StopLook, StopPass, StopClaim, StopCount, Write, rows
    <3> QED BY <3>1, <3>2
  <2>3. \A m \in Msg : shown'[m] = 0 => shown[m] = 0
    <3>1. CASE Write(p)
      BY <3>1, Types, <1>0 DEF Write
    <3>2. CASE ~Write(p)
      BY <1>1, <3>2 DEF ReaderStep, Deliver, PromptHook, CmdMsgInbox, CmdMsgAwait, ClaimOldest, StopLook, StopPass, StopClaim, StopCount,
         CommitHeld, FailRead
    <3> QED BY <3>1, <3>2
  <2>4. Left' \subseteq Left
    BY <2>1, <2>2, <2>3 DEF Left, Unshown, InHand
  <2> QED BY <1>0, <2>1, <2>4, FewerLeft
<1>2. ASSUME NEW m \in Msg, WakeClaim(m) PROVE LeftByFaults'
  <2>1. /\ claimed' = [claimed EXCEPT ![m] = Dispatcher] /\ shown' = shown /\ faults' = faults
        /\ wake'.at = "claimed" /\ wake'.msg = m /\ wake.at = "idleAgent"
    BY <1>0, <1>2, Types DEF WakeClaim, Next1, WakeType
  <2>2. Left' \subseteq Left
    BY <1>0, <2>1, Types DEF Left, Unshown, InHand
  <2> QED BY <1>0, <2>1, <2>2, FewerLeft
<1>3. ASSUME WakeSend \/ WakeSendFails PROVE LeftByFaults'
  <2>1. /\ claimed' = claimed /\ wake.at = "claimed" /\ faults' >= faults
        /\ wake'.msg = wake.msg /\ wake'.at \in {"sent", "failed"}
        /\ shown' = shown \/ shown' = [shown EXCEPT ![wake.msg] = @ + 1]
        /\ wake'.at = "sent" => shown' = [shown EXCEPT ![wake.msg] = @ + 1]
    BY <1>0, <1>3, Types DEF WakeSend, WakeSendFails, Fault, rows, WakeType
  <2>2. wake.msg \in Msg /\ shown \in [Msg -> Nat]
    BY <1>0, <2>1, Types DEF IInv, WakeClaimed
  <2>3. /\ \A m \in Msg : shown'[m] = 0 => shown[m] = 0
        /\ wake'.at = "sent" => shown'[wake.msg] # 0
    BY <2>1, <2>2
  <2>4. Left' \subseteq Left
    BY <2>1, <2>3 DEF Left, Unshown, InHand
  <2> QED BY <1>0, <2>1, <2>4, FewerLeft
<1>4. CASE WakeRelease
  <2>1. /\ claimed' = [claimed EXCEPT ![wake.msg] = None] /\ UNCHANGED <<shown, faults>>
        /\ wake.at = "failed" /\ wake.msg \in Msg /\ wake' = NoWake
    BY <1>4 DEF WakeRelease, IInv, WakeClaimed
  <2>2. Left' \subseteq Left
    BY <1>0, <2>1, Types, Names DEF Left, Unshown, InHand, NoWake
  <2> QED BY <1>0, <2>1, <2>2, FewerLeft
<1>5. CASE WakeBreaks
  <2>1. /\ UNCHANGED <<claimed, shown>> /\ faults' = faults + 1 /\ wake' = NoWake
    BY <1>5 DEF WakeBreaks, Fault, rows
  <2>2. Left' \subseteq Left \cup {wake.msg}
    BY <2>1 DEF Left, Unshown, InHand
  <2> DEFINE before == Left  after == Left'
  <2>3. IsFiniteSet(before) /\ Cardinality(before) <= faults /\ after \subseteq before \cup {wake.msg}
    BY <2>2 DEF LeftByFaults
  <2> HIDE DEF before, after
  <2>4. /\ IsFiniteSet(before \cup {wake.msg}) /\ Cardinality(before) \in Nat
        /\ Cardinality(before \cup {wake.msg}) \in {Cardinality(before), Cardinality(before) + 1}
    BY <2>3, FS_AddElement, FS_CardinalityType
  <2>5. /\ IsFiniteSet(after) /\ Cardinality(after) <= Cardinality(before \cup {wake.msg})
        /\ Cardinality(after) \in Nat
    BY <2>3, <2>4, FS_Subset, FS_CardinalityType
  <2>6. IsFiniteSet(after) /\ Cardinality(after) <= faults'
    BY <1>0, <2>1, <2>3, <2>4, <2>5
  <2> QED BY <2>6 DEF LeftByFaults, after
<1>6. ASSUME \/ \E m \in Msg : Send(m) \/ Expire(m) \/ Prune(m) \/ ScheduleWake(m)
             \/ \E s \in Session : HumanPrompt(s)
             \/ \E s \in Session : \E ids \in SUBSET pending : WakeLook(s, ids)
             \/ WakeInspect \/ WakeSkipped \/ WakeCount
             \/ \E m \in Msg : WakeMiss(m)
             \/ UNCHANGED vars
      PROVE  LeftByFaults'
  <2>1. UNCHANGED <<claimed, shown, faults>>
    BY <1>6 DEF Send, Expire, Prune, ScheduleWake, HumanPrompt, WakeLook, WakeInspect,
       WakeSkipped, WakeCount, WakeMiss, rows, guard, dispVars, vars
  <2>2. wake' = wake \/ wake.at \notin {"claimed", "failed"}
    <3>1. CASE \/ \E m \in Msg : Send(m) \/ Expire(m) \/ Prune(m) \/ ScheduleWake(m)
               \/ \E s \in Session : HumanPrompt(s)
               \/ UNCHANGED vars
      BY <3>1 DEF Send, Expire, Prune, ScheduleWake, HumanPrompt, rows, guard, dispVars, vars
    <3>2. CASE \/ \E s \in Session : \E ids \in SUBSET pending : WakeLook(s, ids)
               \/ WakeInspect \/ WakeSkipped \/ WakeCount
               \/ \E m \in Msg : WakeMiss(m)
      BY <3>2 DEF WakeLook, WakeInspect, WakeSkipped, WakeCount, WakeMiss, Next1
    <3> QED BY <1>6, <3>1, <3>2
  <2>3. Left' \subseteq Left
    BY <2>1, <2>2 DEF Left, Unshown, InHand
  <2> QED BY <1>0, <2>1, <2>3, FewerLeft
<1> QED BY <1>1, <1>2, <1>3, <1>4, <1>5, <1>6 DEF Next, WakeStep

(* A claim for a session is only ever committed after the message was      *)
(* written to that session's agent, whatever is killed in between; and each *)
(* fault costs the dispatcher at most one message that nobody is shown.    *)
THEOREM ClaimedIsShown == Spec => []ClaimMeansShown
<1>1. Init => LeftByFaults
  <2> SUFFICES ASSUME Init PROVE LeftByFaults
    OBVIOUS
  <2>1. Left = {} /\ faults = 0
    BY Names DEF Init, Left, Unshown
  <2> QED BY <2>1, FS_EmptySet DEF LeftByFaults
<1>2. IInv /\ LeftByFaults => ClaimMeansShown
  BY DEF IInv, LeftByFaults, Left, ClaimMeansShown
<1> QED BY <1>1, <1>2, LeftStep, Invariance, PTL DEF Spec

(* Prompt hooks, Stop hooks, commands, awaits and the dispatcher race for  *)
(* the same rows; without a fault none of them shows a message again.      *)
THEOREM ShownOnce == Spec => []OnceWithoutFault
<1>1. IInv => OnceWithoutFault
  BY DEF IInv
<1> QED BY <1>1, Invariance, PTL

-----------------------------------------------------------------------------
(* THE LOOP GUARD                                                          *)
(* Of the Stop hooks of s, those that wrote and have yet to count, and     *)
(* those that are past the cap; of the dispatcher's wake, the same.        *)
Wrote(r, s) == {p \in StopHooks(s) : r[p].at = "written"}
Goes(u) == (u.at = "looked" /\ u.saw < Cap) \/ u.at \in {"counting", "held"}
Going(r, s) == {p \in StopHooks(s) : Goes(r[p])}

Bit(b) == IF b THEN 1 ELSE 0
HasSent(w, s) == Bit(w.for = s /\ w.at = "sent")
MaySend(w, s) == Bit(w.for = s /\ w.at \in {"looked", "idleAgent", "claimed"})

(* A turn was counted, is about to be, or its count was lost to a fault;   *)
(* and whoever is past the cap has its turn in the bound already.          *)
Loops(s) ==
  /\ woken[s] <= count[s] + Cardinality(Wrote(reader, s)) + HasSent(wake, s) + faults
  /\ woken[s] + Cardinality(Going(reader, s)) + MaySend(wake, s)
       <= Cap + Cardinality(StopHooks(s)) + faults

LoopInv == \A s \in Session : Loops(s)

Hook(p, s) == Kind[p] = "stop" /\ Of[p] = s

LEMMA HooksFinite ==
  ASSUME NEW s, NEW S \in SUBSET StopHooks(s)
  PROVE  /\ IsFiniteSet(S) /\ Cardinality(S) \in Nat
         /\ Cardinality(StopHooks(s)) \in Nat /\ Cardinality(S) <= Cardinality(StopHooks(s))
  <1>1. IsFiniteSet(StopHooks(s))
    BY MailboxAssumption, FS_Subset DEF StopHooks
  <1> QED  BY <1>1, FS_Subset, FS_CardinalityType

(* What one reader's step does to those numbers.                           *)
LEMMA OneMoves ==
  ASSUME NEW r \in [Reader -> ReaderT], NEW p \in Reader, NEW v \in ReaderT, NEW s
  PROVE  LET after == [r EXCEPT ![p] = v]
         IN /\ Cardinality(Wrote(after, s)) = Cardinality(Wrote(r, s))
                 + Bit(Hook(p, s) /\ v.at = "written") - Bit(Hook(p, s) /\ r[p].at = "written")
            /\ Cardinality(Going(after, s)) = Cardinality(Going(r, s))
                 + Bit(Hook(p, s) /\ Goes(v)) - Bit(Hook(p, s) /\ Goes(r[p]))
            /\ Cardinality(Wrote(r, s)) \in Nat /\ Cardinality(Going(r, s)) \in Nat
  <1> DEFINE after == [r EXCEPT ![p] = v]
  <1>1. /\ Wrote(r, s) \in SUBSET StopHooks(s) /\ Going(r, s) \in SUBSET StopHooks(s)
    BY DEF Wrote, Going
  <1>2. /\ IsFiniteSet(Wrote(r, s)) /\ Cardinality(Wrote(r, s)) \in Nat
        /\ IsFiniteSet(Going(r, s)) /\ Cardinality(Going(r, s)) \in Nat
    BY <1>1, HooksFinite
  <1>3. Wrote(after, s) = IF Hook(p, s) /\ v.at = "written" THEN Wrote(r, s) \cup {p}
                          ELSE Wrote(r, s) \ {p}
    BY DEF Wrote, StopHooks, Hook
  <1>4. Going(after, s) = IF Hook(p, s) /\ Goes(v) THEN Going(r, s) \cup {p}
                          ELSE Going(r, s) \ {p}
    BY DEF Going, StopHooks, Hook
  <1>5. p \in Wrote(r, s) <=> Hook(p, s) /\ r[p].at = "written"
    BY DEF Wrote, StopHooks, Hook
  <1>6. p \in Going(r, s) <=> Hook(p, s) /\ Goes(r[p])
    BY DEF Going, StopHooks, Hook
  <1> HIDE DEF after
  <1>7. PICK n, g \in Nat : n = Cardinality(Wrote(r, s)) /\ g = Cardinality(Going(r, s))
    BY <1>2
  <1>8. /\ Cardinality(Wrote(r, s) \cup {p}) = IF p \in Wrote(r, s) THEN n ELSE n + 1
        /\ Cardinality(Wrote(r, s) \ {p}) = IF p \in Wrote(r, s) THEN n - 1 ELSE n
        /\ Cardinality(Going(r, s) \cup {p}) = IF p \in Going(r, s) THEN g ELSE g + 1
        /\ Cardinality(Going(r, s) \ {p}) = IF p \in Going(r, s) THEN g - 1 ELSE g
    BY <1>2, <1>7, FS_AddElement, FS_RemoveElement
  <1>9. Cardinality(Wrote(after, s)) =
          n + Bit(Hook(p, s) /\ v.at = "written") - Bit(Hook(p, s) /\ r[p].at = "written")
    BY <1>3, <1>5, <1>8 DEF Bit
  <1>10. Cardinality(Going(after, s)) = g + Bit(Hook(p, s) /\ Goes(v)) - Bit(Hook(p, s) /\ Goes(r[p]))
    BY <1>4, <1>6, <1>8 DEF Bit
  <1> QED  BY <1>7, <1>9, <1>10 DEF after

(* Those that wrote are not those that may write: there is room for both.  *)
LEMMA RoomForBoth ==
  ASSUME NEW r, NEW s
  PROVE  Cardinality(Wrote(r, s)) + Cardinality(Going(r, s)) <= Cardinality(StopHooks(s))
  <1>1. /\ Wrote(r, s) \in SUBSET StopHooks(s) /\ Going(r, s) \in SUBSET StopHooks(s)
        /\ Wrote(r, s) \cup Going(r, s) \in SUBSET StopHooks(s)
    BY DEF Wrote, Going
  <1>2. Wrote(r, s) \cap Going(r, s) = {}
    BY DEF Wrote, Going, Goes
  <1>3. IsFiniteSet(Wrote(r, s)) /\ IsFiniteSet(Going(r, s))
    BY <1>1, HooksFinite
  <1>4. Cardinality(Wrote(r, s) \cup Going(r, s))
          = Cardinality(Wrote(r, s)) + Cardinality(Going(r, s)) - Cardinality({})
    BY <1>2, <1>3, FS_Union
  <1>5. Cardinality({}) = 0
    BY FS_EmptySet
  <1>6. /\ Cardinality(Wrote(r, s)) \in Nat /\ Cardinality(Going(r, s)) \in Nat
        /\ Cardinality(Wrote(r, s) \cup Going(r, s)) <= Cardinality(StopHooks(s))
    BY <1>1, HooksFinite
  <1> QED  BY <1>4, <1>5, <1>6

LEMMA LoopNumbers ==
  ASSUME TypeOK, NEW s \in Session
  PROVE  /\ woken[s] \in Nat /\ count[s] \in Nat /\ faults \in Nat /\ Cap \in Nat
         /\ Cardinality(Wrote(reader, s)) \in Nat /\ Cardinality(Going(reader, s)) \in Nat
         /\ Cardinality(StopHooks(s)) \in Nat
         /\ HasSent(wake, s) \in {0, 1} /\ MaySend(wake, s) \in {0, 1}
         /\ HasSent(wake, s) + MaySend(wake, s) <= 1
  <1>1. /\ Wrote(reader, s) \in SUBSET StopHooks(s) /\ Going(reader, s) \in SUBSET StopHooks(s)
        /\ StopHooks(s) \in SUBSET StopHooks(s)
    BY DEF Wrote, Going
  <1>2. /\ woken[s] \in Nat /\ count[s] \in Nat /\ faults \in Nat /\ Cap \in Nat
    BY MailboxAssumption DEF TypeOK
  <1>3. HasSent(wake, s) \in {0, 1} /\ MaySend(wake, s) \in {0, 1}
    BY DEF HasSent, MaySend, Bit
  <1>4. HasSent(wake, s) = 0 \/ MaySend(wake, s) = 0
    BY DEF HasSent, MaySend, Bit
  <1> QED  BY <1>1, <1>2, <1>3, <1>4, HooksFinite

(* A reader's step, by what it adds to the numbers of s. *)
LEMMA ReaderLoops ==
  ASSUME TypeOK, NEW s \in Session, Loops(s), NEW p \in Reader, NEW v \in ReaderT,
         reader' = [reader EXCEPT ![p] = v], wake' = wake,
         NEW b \in Nat, NEW c \in Nat, NEW f \in Nat,
         woken'[s] = woken[s] + b, count'[s] = count[s] + c, faults' = faults + f,
         b + Bit(Hook(p, s) /\ reader[p].at = "written") <= c + f + Bit(Hook(p, s) /\ v.at = "written"),
         b + Bit(Hook(p, s) /\ Goes(v)) <= f + Bit(Hook(p, s) /\ Goes(reader[p]))
  PROVE  Loops(s)'
  <1>1. reader \in [Reader -> ReaderT]
    BY Types
  <1>2. /\ Cardinality(Wrote(reader', s)) = Cardinality(Wrote(reader, s))
             + Bit(Hook(p, s) /\ v.at = "written") - Bit(Hook(p, s) /\ reader[p].at = "written")
        /\ Cardinality(Going(reader', s)) = Cardinality(Going(reader, s))
             + Bit(Hook(p, s) /\ Goes(v)) - Bit(Hook(p, s) /\ Goes(reader[p]))
    BY <1>1, OneMoves
  <1>4. PICK n, m, g, k \in {0, 1} :
          /\ n = Bit(Hook(p, s) /\ v.at = "written") /\ m = Bit(Hook(p, s) /\ reader[p].at = "written")
          /\ g = Bit(Hook(p, s) /\ Goes(v)) /\ k = Bit(Hook(p, s) /\ Goes(reader[p]))
    <2>1. /\ Bit(Hook(p, s) /\ v.at = "written") \in {0, 1}
          /\ Bit(Hook(p, s) /\ reader[p].at = "written") \in {0, 1}
          /\ Bit(Hook(p, s) /\ Goes(v)) \in {0, 1} /\ Bit(Hook(p, s) /\ Goes(reader[p])) \in {0, 1}
      BY DEF Bit
    <2> QED  BY <2>1
  <1>5. /\ Cardinality(Wrote(reader', s)) = Cardinality(Wrote(reader, s)) + n - m
        /\ Cardinality(Going(reader', s)) = Cardinality(Going(reader, s)) + g - k
        /\ b + m <= c + f + n /\ b + g <= f + k
    BY <1>2, <1>4
  <1>6. /\ woken'[s] <= count'[s] + Cardinality(Wrote(reader', s)) + HasSent(wake, s) + faults'
        /\ woken'[s] + Cardinality(Going(reader', s)) + MaySend(wake, s)
             <= Cap + Cardinality(StopHooks(s)) + faults'
    BY <1>5, LoopNumbers DEF Loops
  <1> QED  BY <1>6 DEF Loops

(* A step that counts nothing. *)
LEMMA ReaderQuiet ==
  ASSUME TypeOK, NEW s \in Session, Loops(s), NEW p \in Reader, NEW v \in ReaderT,
         reader' = [reader EXCEPT ![p] = v], UNCHANGED <<wake, woken, count, faults>>,
         Hook(p, s) => (v.at = "written" <=> reader[p].at = "written") /\ (Goes(v) => Goes(reader[p]))
  PROVE  Loops(s)'
  <1>1. /\ 0 \in Nat /\ woken'[s] = woken[s] + 0 /\ count'[s] = count[s] + 0 /\ faults' = faults + 0
    BY LoopNumbers
  <1>2. 0 + Bit(Hook(p, s) /\ reader[p].at = "written") <= 0 + 0 + Bit(Hook(p, s) /\ v.at = "written")
    BY DEF Bit
  <1>3. 0 + Bit(Hook(p, s) /\ Goes(v)) <= 0 + Bit(Hook(p, s) /\ Goes(reader[p]))
    BY DEF Bit
  <1> QED  BY <1>1, <1>2, <1>3, ReaderLoops

LEMMA QuietReads ==
  ASSUME TypeOK, LoopInv, NEW p \in Reader,
         \/ \E fit \in 1..Limit : Deliver(p, fit)
         \/ StopPass(p) \/ StopClaim(p) \/ StopCount(p)
  PROVE  LoopInv'
  <1> SUFFICES ASSUME NEW s \in Session PROVE Loops(s)'
    BY DEF LoopInv
  <1>1. Loops(s) /\ reader \in [Reader -> ReaderT] /\ NoRead \in ReaderT
    BY Types, NoReadType DEF LoopInv, ReaderT
  <1>2. CASE \E fit \in 1..Limit : Deliver(p, fit)
    <2>1. PICK fit \in 1..Limit : Deliver(p, fit)
      BY <1>2
    <2> DEFINE took == Oldest(Matching(p), Room(p))
               v == [at |-> "held", took |-> took, shows |-> Oldest(took, fit), saw |-> 0]
    <2>2. took \subseteq Msg /\ Oldest(took, fit) \subseteq Msg
      BY OldestOf DEF Matching
    <2>3. reader' = [reader EXCEPT ![p] = v] /\ UNCHANGED <<wake, woken, count, faults>>
      BY <2>1 DEF Deliver, PromptHook, CmdMsgInbox, CmdMsgAwait, ClaimOldest, guard, dispVars
    <2> HIDE DEF took
    <2>4. v \in ReaderT
      BY <2>2 DEF ReaderT
    <2>5. ~Hook(p, s)
      BY <2>1 DEF Deliver, PromptHook, CmdMsgInbox, CmdMsgAwait, Hook
    <2> HIDE DEF v
    <2> QED  BY <1>1, <2>3, <2>4, <2>5, ReaderQuiet
  <1>3. CASE StopPass(p)
    <2>1. reader' = [reader EXCEPT ![p] = NoRead] /\ UNCHANGED <<wake, woken, count, faults>>
      BY <1>3 DEF StopPass, guard, dispVars
    <2>2. NoRead.at = "idle" /\ ~Goes(NoRead) /\ reader[p].at = "looked"
      BY <1>3 DEF NoRead, Goes, StopPass
    <2> QED  BY <1>1, <2>1, <2>2, ReaderQuiet
  <1>4. CASE StopClaim(p)
    <2> DEFINE took == Oldest(Matching(p), 1)
               v == [at |-> "counting", took |-> took, shows |-> took, saw |-> reader[p].saw]
    <2>1. took \subseteq Msg
      BY OldestOf DEF Matching
    <2>2. reader' = [reader EXCEPT ![p] = v] /\ UNCHANGED <<wake, woken, count, faults>>
      BY <1>4 DEF StopClaim, guard, dispVars
    <2>3. reader[p].at = "looked" /\ Goes(reader[p])
      BY <1>4 DEF StopClaim, Goes
    <2> HIDE DEF took
    <2>4. v \in ReaderT /\ v.at = "counting"
      BY <1>1, <2>1 DEF ReaderT
    <2> HIDE DEF v
    <2> QED  BY <1>1, <2>2, <2>3, <2>4, ReaderQuiet
  <1>5. CASE StopCount(p)
    <2> DEFINE v == [reader[p] EXCEPT !.at = "held"]
    <2>1. reader' = [reader EXCEPT ![p] = v] /\ UNCHANGED <<wake, woken, count, faults>>
      BY <1>5 DEF StopCount, dispVars
    <2>2. reader[p].at = "counting" /\ Goes(reader[p])
      BY <1>5 DEF StopCount, Goes
    <2>3. v \in ReaderT /\ v.at = "held"
      BY <1>1 DEF ReaderT
    <2> HIDE DEF v
    <2> QED  BY <1>1, <2>1, <2>2, <2>3, ReaderQuiet
  <1> QED  BY <1>2, <1>3, <1>4, <1>5

(* A Stop hook looks: below the cap, its turn has a place left. *)
LEMMA LookLoops ==
  ASSUME TypeOK, LoopInv, NEW p \in Reader, StopLook(p)
  PROVE  LoopInv'
  <1> SUFFICES ASSUME NEW s \in Session PROVE Loops(s)'
    BY DEF LoopInv
  <1> DEFINE v == [NoRead EXCEPT !.at = "looked", !.saw = count[Of[p]]]
  <1>1. Loops(s) /\ reader \in [Reader -> ReaderT]
    BY Types DEF LoopInv
  <1>2. reader' = [reader EXCEPT ![p] = v] /\ UNCHANGED <<wake, woken, count, faults>>
    BY DEF StopLook, guard, dispVars
  <1>3. count[Of[p]] \in Nat /\ reader[p].at = "idle"
    BY Names, LoopNumbers DEF StopLook
  <1>4. v \in ReaderT /\ v.at = "looked" /\ v.saw = count[Of[p]]
    BY <1>3 DEF NoRead, ReaderT
  <1> HIDE DEF v
  <1>5. CASE ~(Hook(p, s) /\ count[s] < Cap)
    <2>1. Hook(p, s) => ~Goes(v)
      BY <1>4, <1>5 DEF Hook, Goes
    <2> QED  BY <1>1, <1>2, <1>3, <1>4, <2>1, ReaderQuiet
  <1>6. CASE Hook(p, s) /\ count[s] < Cap
    <2>1. /\ Cardinality(Wrote(reader', s)) = Cardinality(Wrote(reader, s))
                + Bit(Hook(p, s) /\ v.at = "written") - Bit(Hook(p, s) /\ reader[p].at = "written")
      BY <1>1, <1>2, <1>4, OneMoves
    <2>2. Cardinality(Wrote(reader', s)) = Cardinality(Wrote(reader, s))
      BY <1>3, <1>4, <2>1, LoopNumbers DEF Bit
    <2>3. Cardinality(Wrote(reader', s)) + Cardinality(Going(reader', s)) <= Cardinality(StopHooks(s))
      BY RoomForBoth
    <2>4. /\ Going(reader', s) \in SUBSET StopHooks(s)
      BY DEF Going
    <2>5. Cardinality(Going(reader', s)) \in Nat
      BY <2>4, HooksFinite
    <2>6. /\ woken[s] <= count[s] + Cardinality(Wrote(reader', s)) + HasSent(wake, s) + faults
          /\ woken[s] + Cardinality(Going(reader', s)) + MaySend(wake, s)
               <= Cap + Cardinality(StopHooks(s)) + faults
      BY <1>1, <1>6, <2>2, <2>3, <2>5, LoopNumbers DEF Loops
    <2> QED  BY <1>2, <2>6 DEF Loops
  <1> QED  BY <1>5, <1>6

LEMMA WriteLoops ==
  ASSUME TypeOK, LoopInv, NEW p \in Reader, Write(p)
  PROVE  LoopInv'
  <1> SUFFICES ASSUME NEW s \in Session PROVE Loops(s)'
    BY DEF LoopInv
  <1> DEFINE v == [reader[p] EXCEPT !.at = "written"]
  <1>1. Loops(s) /\ reader \in [Reader -> ReaderT]
    BY Types DEF LoopInv
  <1>2. /\ reader' = [reader EXCEPT ![p] = v] /\ UNCHANGED <<wake, count, faults>>
        /\ woken' = IF Kind[p] = "stop" THEN [woken EXCEPT ![Of[p]] = @ + 1] ELSE woken
    BY DEF Write, dispVars
  <1>3. v \in ReaderT /\ v.at = "written" /\ reader[p].at = "held"
    BY <1>1 DEF ReaderT, Write
  <1>4. ~Goes(v) /\ Goes(reader[p])
    BY <1>3 DEF Goes
  <1> HIDE DEF v
  <1>5. CASE Hook(p, s)
    <2>1. woken'[s] = woken[s] + 1
      BY <1>2, <1>5 DEF Hook, TypeOK
    <2>2. /\ 0 \in Nat /\ 1 \in Nat /\ count'[s] = count[s] + 0 /\ faults' = faults + 0
      BY <1>2, LoopNumbers
    <2>3. 1 + Bit(Hook(p, s) /\ reader[p].at = "written") <= 0 + 0 + Bit(Hook(p, s) /\ v.at = "written")
      BY <1>3, <1>5 DEF Bit
    <2>4. 1 + Bit(Hook(p, s) /\ Goes(v)) <= 0 + Bit(Hook(p, s) /\ Goes(reader[p]))
      BY <1>4, <1>5 DEF Bit
    <2> QED  BY <1>1, <1>2, <1>3, <2>1, <2>2, <2>3, <2>4, ReaderLoops
  <1>6. CASE ~Hook(p, s)
    <2>1. woken'[s] = woken[s] + 0 /\ 0 \in Nat /\ count'[s] = count[s] + 0 /\ faults' = faults + 0
      BY <1>2, <1>6, LoopNumbers, Names DEF Hook, TypeOK
    <2>2. 0 + Bit(Hook(p, s) /\ reader[p].at = "written") <= 0 + 0 + Bit(Hook(p, s) /\ v.at = "written")
      BY <1>6 DEF Bit
    <2>3. 0 + Bit(Hook(p, s) /\ Goes(v)) <= 0 + Bit(Hook(p, s) /\ Goes(reader[p]))
      BY <1>6 DEF Bit
    <2> QED  BY <1>1, <1>2, <1>3, <2>1, <2>2, <2>3, ReaderLoops
  <1> QED  BY <1>5, <1>6

(* A read ends: counted, or with a fault. *)
LEMMA EndLoops ==
  ASSUME TypeOK, LoopInv, NEW p \in Reader, CommitHeld(p) \/ FailRead(p)
  PROVE  LoopInv'
  <1> SUFFICES ASSUME NEW s \in Session PROVE Loops(s)'
    BY DEF LoopInv
  <1>1. Loops(s) /\ reader \in [Reader -> ReaderT] /\ NoRead \in ReaderT
    BY Types, NoReadType DEF LoopInv, ReaderT
  <1>2. NoRead.at = "idle" /\ ~Goes(NoRead)
    BY DEF NoRead, Goes
  <1>3. reader' = [reader EXCEPT ![p] = NoRead] /\ wake' = wake /\ woken' = woken
    BY DEF CommitHeld, FailRead, EndRead, dispVars
  <1>4. woken'[s] = woken[s] + 0 /\ 0 \in Nat /\ 1 \in Nat
    BY <1>3, LoopNumbers
  <1>5. /\ Bit(Hook(p, s) /\ NoRead.at = "written") = 0
        /\ Bit(Hook(p, s) /\ Goes(NoRead)) = 0
        /\ Bit(Hook(p, s) /\ reader[p].at = "written") \in {0, 1}
        /\ Bit(Hook(p, s) /\ Goes(reader[p])) \in {0, 1}
    BY <1>2 DEF Bit
  <1>6. CASE FailRead(p)
    <2>1. count'[s] = count[s] + 0 /\ faults' = faults + 1
      BY <1>6, LoopNumbers DEF FailRead, Fault
    <2>2. 0 + Bit(Hook(p, s) /\ reader[p].at = "written") <= 0 + 1 + Bit(Hook(p, s) /\ NoRead.at = "written")
      BY <1>5
    <2>3. 0 + Bit(Hook(p, s) /\ Goes(NoRead)) <= 1 + Bit(Hook(p, s) /\ Goes(reader[p]))
      BY <1>5
    <2> QED  BY <1>1, <1>3, <1>4, <2>1, <2>2, <2>3, ReaderLoops
  <1>7. CASE CommitHeld(p) /\ Hook(p, s)
    <2>1. count'[s] = count[s] + 1 /\ faults' = faults + 0
      BY <1>7, LoopNumbers DEF CommitHeld, Hook, TypeOK
    <2>2. 0 + Bit(Hook(p, s) /\ reader[p].at = "written") <= 1 + 0 + Bit(Hook(p, s) /\ NoRead.at = "written")
      BY <1>5
    <2>3. 0 + Bit(Hook(p, s) /\ Goes(NoRead)) <= 0 + Bit(Hook(p, s) /\ Goes(reader[p]))
      BY <1>5
    <2> QED  BY <1>1, <1>3, <1>4, <2>1, <2>2, <2>3, ReaderLoops
  <1>8. CASE CommitHeld(p) /\ ~Hook(p, s)
    <2>1. count'[s] = count[s] + 0 /\ faults' = faults + 0
      BY <1>8, LoopNumbers, Names DEF CommitHeld, Hook, TypeOK
    <2>2. 0 + Bit(Hook(p, s) /\ reader[p].at = "written") <= 0 + 0 + Bit(Hook(p, s) /\ NoRead.at = "written")
      BY <1>8 DEF Bit
    <2>3. 0 + Bit(Hook(p, s) /\ Goes(NoRead)) <= 0 + Bit(Hook(p, s) /\ Goes(reader[p]))
      BY <1>8 DEF Bit
    <2> QED  BY <1>1, <1>3, <1>4, <2>1, <2>2, <2>3, ReaderLoops
  <1> QED  BY <1>6, <1>7, <1>8
-----------------------------------------------------------------------------
(* A step of the dispatcher, by what it adds to the numbers of s. *)
LEMMA WakeLoops ==
  ASSUME TypeOK, TypeOK', NEW s \in Session, Loops(s), reader' = reader,
         NEW b \in Nat, NEW c \in Nat, NEW f \in Nat,
         woken'[s] = woken[s] + b, count'[s] = count[s] + c, faults' = faults + f,
         b + HasSent(wake, s) <= c + f + HasSent(wake', s),
         b + MaySend(wake', s) <= f + MaySend(wake, s)
  PROVE  Loops(s)'
  <1>1. HasSent(wake', s) \in {0, 1} /\ MaySend(wake', s) \in {0, 1}
    BY DEF HasSent, MaySend, Bit
  <1>2. /\ woken'[s] <= count'[s] + Cardinality(Wrote(reader, s)) + HasSent(wake', s) + faults'
        /\ woken'[s] + Cardinality(Going(reader, s)) + MaySend(wake', s)
             <= Cap + Cardinality(StopHooks(s)) + faults'
    BY <1>1, LoopNumbers DEF Loops
  <1> QED  BY <1>2 DEF Loops

(* What neither sends nor counts. *)
LEMMA WakeQuiet ==
  ASSUME TypeOK, TypeOK', LoopInv, UNCHANGED <<reader, woken, count>>,
         \/ faults' = faults /\ (wake.at = "sent" => wake' = wake)
         \/ faults' = faults + 1,
         \/ wake' = wake
         \/ wake'.for = wake.for /\ wake'.at \in {"idleAgent", "claimed"}
              /\ wake.at \in {"looked", "idleAgent"}
         \/ wake'.at \in {"idle", "failed"}
  PROVE  LoopInv'
  <1> SUFFICES ASSUME NEW s \in Session PROVE Loops(s)'
    BY DEF LoopInv
  <1>1. woken'[s] = woken[s] + 0 /\ count'[s] = count[s] + 0 /\ 0 \in Nat /\ 1 \in Nat
        /\ Loops(s)
    BY LoopNumbers DEF LoopInv
  <1>2. MaySend(wake', s) <= MaySend(wake, s)
    BY DEF MaySend, Bit
  <1>3. HasSent(wake, s) \in {0, 1} /\ HasSent(wake', s) \in {0, 1}
        /\ MaySend(wake, s) \in {0, 1} /\ MaySend(wake', s) \in {0, 1}
    BY DEF HasSent, MaySend, Bit
  <1>4. CASE faults' = faults /\ (wake.at = "sent" => wake' = wake)
    <2>1. HasSent(wake, s) <= HasSent(wake', s)
      BY <1>4 DEF HasSent, Bit
    <2>2. faults' = faults + 0
      BY <1>4, LoopNumbers
    <2>3. 0 + HasSent(wake, s) <= 0 + 0 + HasSent(wake', s)
          /\ 0 + MaySend(wake', s) <= 0 + MaySend(wake, s)
      BY <1>2, <1>3, <2>1
    <2> QED  BY <1>1, <2>2, <2>3, WakeLoops
  <1>5. CASE faults' = faults + 1
    <2>1. 0 + HasSent(wake, s) <= 0 + 1 + HasSent(wake', s)
          /\ 0 + MaySend(wake', s) <= 1 + MaySend(wake, s)
      BY <1>2, <1>3
    <2> QED  BY <1>1, <1>5, <2>1, WakeLoops
  <1> QED  BY <1>4, <1>5

LEMMA WakesQuietly ==
  ASSUME TypeOK, TypeOK', LoopInv,
         \/ WakeInspect \/ WakeSkipped \/ WakeRelease \/ WakeBreaks
         \/ \E m \in Msg : WakeClaim(m) \/ WakeMiss(m) \/ Send(m) \/ Expire(m) \/ Prune(m)
                            \/ ScheduleWake(m)
  PROVE  LoopInv'
  <1>1. wake \in WakeType /\ NoWake.at = "idle"
    BY Types DEF NoWake
  <1>2. UNCHANGED <<reader, woken, count>>
    BY DEF WakeInspect, WakeSkipped, WakeRelease, WakeBreaks, WakeClaim, WakeMiss, Send, Expire,
           Prune, ScheduleWake, rows, guard, dispVars
  <1>3. \/ faults' = faults /\ (wake.at = "sent" => wake' = wake)
        \/ faults' = faults + 1
    BY DEF WakeInspect, WakeSkipped, WakeRelease, WakeBreaks, WakeClaim, WakeMiss, Next1, Send,
           Expire, Prune, ScheduleWake, Fault, dispVars
  <1>4. \/ wake' = wake
        \/ /\ wake'.for = wake.for /\ wake'.at \in {"idleAgent", "claimed"}
           /\ wake.at \in {"looked", "idleAgent"}
        \/ wake'.at \in {"idle", "failed"}
    <2>1. CASE WakeInspect
      BY <1>1, <2>1 DEF WakeInspect, WakeType
    <2>2. CASE WakeSkipped \/ WakeRelease \/ WakeBreaks
      BY <1>1, <2>2 DEF WakeSkipped, WakeRelease, WakeBreaks
    <2>3. CASE \E m \in Msg : WakeClaim(m) \/ WakeMiss(m)
      BY <1>1, <2>3 DEF WakeClaim, WakeMiss, Next1, WakeType
    <2>4. CASE \E m \in Msg : Send(m) \/ Expire(m) \/ Prune(m) \/ ScheduleWake(m)
      BY <2>4 DEF Send, Expire, Prune, ScheduleWake, dispVars
    <2> QED  BY <2>1, <2>2, <2>3, <2>4
  <1> QED  BY <1>2, <1>3, <1>4, WakeQuiet

LEMMA SendLoops ==
  ASSUME TypeOK, TypeOK', LoopInv, WakeSend \/ WakeSendFails
  PROVE  LoopInv'
  <1> SUFFICES ASSUME NEW s \in Session PROVE Loops(s)'
    BY DEF LoopInv
  <1>1. Loops(s) /\ wake \in WakeType /\ wake.at = "claimed" /\ reader' = reader
    BY Types DEF LoopInv, WakeSend, WakeSendFails
  <1>2. wake'.for = wake.for /\ wake'.at = (IF WakeSend THEN "sent" ELSE "failed")
    BY <1>1 DEF WakeSend, WakeSendFails, WakeType
  <1>3. PICK b \in {0, 1} : woken'[s] = woken[s] + b /\ (b = 1 => wake.for = s)
    <2>1. woken'[s] = woken[s] \/ (woken'[s] = woken[s] + 1 /\ wake.for = s)
      BY DEF WakeSend, WakeSendFails, TypeOK
    <2>2. woken[s] = woken[s] + 0
      BY LoopNumbers
    <2> QED  BY <2>1, <2>2
  <1>4. count'[s] = count[s] + 0 /\ 0 \in Nat /\ 1 \in Nat /\ b \in Nat
    BY LoopNumbers DEF WakeSend, WakeSendFails
  <1>5. CASE WakeSend
    <2>1. faults' = faults + 0
      BY <1>5, LoopNumbers DEF WakeSend
    <2>2. /\ b + HasSent(wake, s) <= 0 + 0 + HasSent(wake', s)
          /\ b + MaySend(wake', s) <= 0 + MaySend(wake, s)
      BY <1>1, <1>2, <1>3, <1>5 DEF HasSent, MaySend, Bit
    <2> QED  BY <1>1, <1>3, <1>4, <2>1, <2>2, WakeLoops
  <1>6. CASE WakeSendFails
    <2>1. faults' = faults + 1 /\ wake'.at = "failed"
      BY <1>1, <1>6 DEF WakeSendFails, Fault, WakeType
    <2>2. /\ b + HasSent(wake, s) <= 0 + 1 + HasSent(wake', s)
          /\ b + MaySend(wake', s) <= 1 + MaySend(wake, s)
      BY <1>1, <1>3, <2>1 DEF HasSent, MaySend, Bit
    <2> QED  BY <1>1, <1>3, <1>4, <2>1, <2>2, WakeLoops
  <1> QED  BY <1>5, <1>6

LEMMA CountLoops ==
  ASSUME TypeOK, TypeOK', LoopInv, WakeCount
  PROVE  LoopInv'
  <1> SUFFICES ASSUME NEW s \in Session PROVE Loops(s)'
    BY DEF LoopInv
  <1>1. /\ Loops(s) /\ wake.at = "sent" /\ reader' = reader /\ woken' = woken /\ faults' = faults
        /\ wake' = NoWake /\ NoWake.at = "idle"
    BY DEF LoopInv, WakeCount, NoWake
  <1>2. PICK c \in {0, 1} : count'[s] = count[s] + c /\ (wake.for = s => c = 1)
    <2>1. count'[s] = IF wake.for = s THEN count[s] + 1 ELSE count[s]
      BY DEF WakeCount, TypeOK
    <2>2. count[s] = count[s] + 0
      BY LoopNumbers
    <2> QED  BY <2>1, <2>2
  <1>3. woken'[s] = woken[s] + 0 /\ faults' = faults + 0 /\ 0 \in Nat /\ c \in Nat
    BY <1>1, LoopNumbers
  <1>4. /\ 0 + HasSent(wake, s) <= c + 0 + HasSent(wake', s)
        /\ 0 + MaySend(wake', s) <= 0 + MaySend(wake, s)
    BY <1>1, <1>2 DEF HasSent, MaySend, Bit
  <1> QED  BY <1>1, <1>2, <1>3, <1>4, WakeLoops

(* The dispatcher looks: below the cap, its turn has a place left. *)
LEMMA WakeLookLoops ==
  ASSUME TypeOK, TypeOK', LoopInv, NEW t \in Session, NEW ids, WakeLook(t, ids)
  PROVE  LoopInv'
  <1>1. UNCHANGED <<reader, woken, count, faults>> /\ wake.at = "idle"
    BY DEF WakeLook, guard
  <1>2. CASE wake' = wake
    BY <1>1, <1>2, WakeQuiet
  <1>3. CASE wake' # wake
    <2>1. wake'.at = "looked" /\ wake'.for = t /\ ~(count[t] >= Cap)
      BY <1>3 DEF WakeLook
    <2> SUFFICES ASSUME NEW s \in Session PROVE Loops(s)'
      BY DEF LoopInv
    <2>2. HasSent(wake, s) = 0 /\ HasSent(wake', s) = 0 /\ MaySend(wake, s) = 0
          /\ MaySend(wake', s) = IF s = t THEN 1 ELSE 0
      BY <1>1, <2>1 DEF HasSent, MaySend, Bit
    <2>3. Cardinality(Wrote(reader, s)) + Cardinality(Going(reader, s)) <= Cardinality(StopHooks(s))
      BY RoomForBoth
    <2>4. /\ woken[s] <= count[s] + Cardinality(Wrote(reader, s)) + HasSent(wake', s) + faults
          /\ woken[s] + Cardinality(Going(reader, s)) + MaySend(wake', s)
               <= Cap + Cardinality(StopHooks(s)) + faults
      BY <2>1, <2>2, <2>3, LoopNumbers DEF LoopInv, Loops
    <2> QED  BY <1>1, <2>4 DEF Loops
  <1> QED  BY <1>2, <1>3

LEMMA PromptLoops ==
  ASSUME TypeOK, LoopInv, NEW t \in Session, HumanPrompt(t)
  PROVE  LoopInv'
  <1> SUFFICES ASSUME NEW s \in Session PROVE Loops(s)'
    BY DEF LoopInv
  <1>1. /\ UNCHANGED <<reader, wake, faults>>
        /\ woken'[s] = (IF s = t THEN 0 ELSE woken[s]) /\ count'[s] = IF s = t THEN 0 ELSE count[s]
    BY DEF HumanPrompt, dispVars, TypeOK
  <1>2. /\ woken'[s] <= count'[s] + Cardinality(Wrote(reader, s)) + HasSent(wake, s) + faults
        /\ woken'[s] + Cardinality(Going(reader, s)) + MaySend(wake, s)
             <= Cap + Cardinality(StopHooks(s)) + faults
    BY <1>1, LoopNumbers DEF LoopInv, Loops
  <1> QED  BY <1>1, <1>2 DEF Loops

(* However Stop hooks and the dispatcher interleave between reading the    *)
(* count and adding to it, a session has at most one turn that no human    *)
(* asked for beyond the cap for each Stop hook of its own and each fault.  *)
THEOREM OverrunIsBounded == Spec => []OverrunBounded
  <1>1. Init => LoopInv
    <2> SUFFICES ASSUME Init, NEW s \in Session PROVE Loops(s)
      BY DEF LoopInv
    <2>1. woken[s] = 0 /\ count[s] = 0 /\ faults = 0 /\ wake.at = "idle"
      BY DEF Init, NoWake
    <2>2. Wrote(reader, s) = {} /\ Going(reader, s) = {}
      BY DEF Init, NoRead, Wrote, Going, Goes, StopHooks
    <2>3. HasSent(wake, s) = 0 /\ MaySend(wake, s) = 0
      BY <2>1 DEF HasSent, MaySend, Bit
    <2>4. Cardinality(StopHooks(s)) \in Nat /\ Cap \in Nat
      BY HooksFinite, MailboxAssumption
    <2> QED  BY <2>1, <2>2, <2>3, <2>4, FS_EmptySet DEF Loops
  <1>2. TypeOK /\ TypeOK' /\ LoopInv /\ [Next]_vars => LoopInv'
    <2> SUFFICES ASSUME TypeOK, TypeOK', LoopInv, [Next]_vars PROVE LoopInv'
      OBVIOUS
    <2>1. ASSUME NEW p \in Reader, ReaderStep(p) \/ FailRead(p) PROVE LoopInv'
      BY <2>1, QuietReads, LookLoops, WriteLoops, EndLoops DEF ReaderStep
    <2>2. CASE WakeStep \/ WakeSendFails \/ WakeBreaks
      BY <2>2, WakesQuietly, SendLoops, CountLoops DEF WakeStep
    <2>3. CASE \/ \E m \in Msg : Send(m) \/ Expire(m) \/ Prune(m) \/ ScheduleWake(m)
               \/ \E s \in Session : HumanPrompt(s) \/ \E ids \in SUBSET pending : WakeLook(s, ids)
      BY <2>3, WakesQuietly, PromptLoops, WakeLookLoops
    <2>4. CASE UNCHANGED vars
      BY <2>4, WakeQuiet DEF vars, guard, dispVars
    <2> QED  BY <2>1, <2>2, <2>3, <2>4 DEF Next
  <1>3. TypeOK /\ LoopInv => OverrunBounded
    <2> SUFFICES ASSUME TypeOK, LoopInv, NEW s \in Session
                 PROVE  woken[s] <= Cap + Cardinality(StopHooks(s)) + faults
      BY DEF OverrunBounded
    <2> QED  BY LoopNumbers DEF LoopInv, Loops
  <1> QED  BY <1>1, <1>2, <1>3, MailboxTypeCorrect, PTL DEF Spec

-----------------------------------------------------------------------------
(* SESSIONS *)

Rows == [live : BOOLEAN, ws : Workspace, project : Project \cup {Unset}, dir : Dir \cup {Unset},
         agent : Agent \cup {Unset}, policy : WakePolicies, explicit : BOOLEAN,
         seen : {"now", "earlier", "yesterday"}]

Callers == [at : {"idle", "register", "policy", "adopt"}, session : SessionKey \cup {Unset},
            ws : Workspace, project : Project \cup {Unset}, dir : Dir \cup {Unset},
            agent : Agent \cup {Unset}, as : {"start", "first", "beat", "other"},
            policy : Asked \cup {Unset}]

SessionsTypeOK ==
  /\ row \in [SessionKey -> Rows]
  /\ caller \in [Proc -> Callers]
  /\ asked \in [SessionKey -> Asked \cup {Unset}]

(* A row's policy is what was asked for it or what its host gives it; a    *)
(* row that is gone keeps neither.                                         *)
RowPolicy ==
  \A s \in SessionKey :
    /\ row[s].explicit <=> asked[s] # Unset
    /\ row[s].explicit => row[s].live /\ row[s].policy = asked[s]
    /\ row[s].live /\ ~row[s].explicit => row[s].policy = PolicyFor(row[s].agent)

(* A caller acts for a session; one that would move it to a project        *)
(* located it in full, and one that sets a policy has one to set.          *)
CallerOK ==
  \A c \in Proc :
    /\ caller[c].at # "idle" => caller[c].session \in SessionKey
    /\ caller[c].at = "policy" => caller[c].policy # Unset
    /\ caller[c].at = "register" /\ Moves(caller[c]) /\ caller[c].project # Unset =>
         /\ caller[c].as \in {"start", "first"}
         /\ caller[c].project = ProjectAt[caller[c].dir]

SessionsInv == SessionsTypeOK /\ RowPolicy /\ CallerOK

LEMMA PolicyForType == \A a : PolicyFor(a) \in WakePolicies
BY DEF PolicyFor, WakePolicies

LEMMA SessionsInitInv == SessionsInit => SessionsInv
<1> SUFFICES ASSUME SessionsInit PROVE SessionsInv
  OBVIOUS
<1>1. NoRow \in Rows
  BY SessionsAssumption DEF NoRow, Rows, WakePolicies
<1>2. Away \in Callers
  BY SessionsAssumption DEF Away, Callers
<1>3. SessionsTypeOK
  BY <1>1, <1>2 DEF SessionsInit, SessionsTypeOK
<1>4. RowPolicy
  BY DEF SessionsInit, RowPolicy, NoRow
<1>5. CallerOK
  BY DEF SessionsInit, CallerOK, Away
<1>6. QED
  BY <1>3, <1>4, <1>5 DEF SessionsInv

(* Reading before the transaction changes the caller alone. *)
LEMMA CallKeeps ==
  ASSUME SessionsInv, NEW c \in Proc, NEW at \in {"register", "adopt"}, NEW s \in SessionKey,
         NEW place, place.ws \in Workspace, place.project \in Project \cup {Unset},
         NEW d \in Dir \cup {Unset}, NEW agent \in Agent \cup {Unset},
         NEW as \in {"start", "first", "beat", "other"}, NEW policy \in Asked \cup {Unset},
         at = "register" /\ as # "other" /\ place.project # Unset =>
           as \in {"start", "first"} /\ place.project = ProjectAt[d],
         Call(c, at, s, place, d, agent, as, policy)
  PROVE  SessionsInv'
<1> DEFINE new == [at |-> at, session |-> s, ws |-> place.ws, project |-> place.project,
                  dir |-> d, agent |-> agent, as |-> as, policy |-> policy]
<1>1. new \in Callers
  BY DEF Callers
<1>2. caller' = [caller EXCEPT ![c] = new] /\ row' = row /\ asked' = asked
  BY DEF Call
<1>3. /\ new.at = at /\ new.session = s /\ new.as = as /\ new.project = place.project
      /\ new.dir = d
  OBVIOUS
<1> HIDE DEF new
<1>4. SessionsTypeOK' /\ caller'[c] = new /\ \A b \in Proc \ {c} : caller'[b] = caller[b]
  BY <1>1, <1>2 DEF SessionsInv, SessionsTypeOK
<1>5. CallerOK'
  BY <1>3, <1>4 DEF SessionsInv, CallerOK, Moves
<1>6. RowPolicy'
  BY <1>2 DEF SessionsInv, RowPolicy
<1>7. QED
  BY <1>4, <1>5, <1>6 DEF SessionsInv

LEMMA LocatedType ==
  ASSUME NEW d \in Dir \cup {Unset}
  PROVE  /\ Located(d).ws \in Workspace /\ Located(d).project \in Project \cup {Unset}
         /\ Located(d).project # Unset => Located(d).project = ProjectAt[d]
BY SessionsAssumption DEF Located

LEMMA BeatType ==
  ASSUME SessionsInv, NEW s \in SessionKey, NEW d \in Dir
  PROVE  /\ Beat(s, d).ws \in Workspace /\ Beat(s, d).project \in Project \cup {Unset}
         /\ Beat(s, d).project # Unset => ~row[s].live /\ Beat(s, d).project = ProjectAt[d]
<1>1. CASE row[s].live
  <2>1. row[s] \in Rows
    BY DEF SessionsInv, SessionsTypeOK
  <2>2. QED
    BY <1>1, <2>1 DEF Beat, Rows
<1>2. CASE ~row[s].live
  BY <1>2, LocatedType DEF Beat
<1>3. QED
  BY <1>1, <1>2

(* What registering makes of a row. *)
LEMMA RegisteredRow ==
  ASSUME NEW old \in Rows, NEW new \in Callers
  PROVE  LET r == Registered(old, new)
         IN /\ r \in Rows /\ r.live /\ r.explicit = old.explicit
            /\ r.policy = IF old.explicit THEN old.policy ELSE PolicyFor(r.agent)
            /\ r.project = IF Moves(new) THEN OrElse(new.project, old.project)
                           ELSE OrElse(old.project, new.project)
<1>1. /\ OrElse(new.project, old.project) \in Project \cup {Unset}
      /\ OrElse(old.project, new.project) \in Project \cup {Unset}
      /\ OrElse(new.dir, old.dir) \in Dir \cup {Unset}
      /\ OrElse(old.dir, new.dir) \in Dir \cup {Unset}
      /\ OrElse(new.agent, old.agent) \in Agent \cup {Unset}
  BY DEF OrElse, Rows, Callers
<1>2. \A p \in Project \cup {Unset} : WorkspaceFor(p, new.ws) \in Workspace
  BY SessionsAssumption DEF WorkspaceFor, Callers
<1>3. old.policy \in WakePolicies /\ old.explicit \in BOOLEAN
  BY DEF Rows
<1>4. QED
  BY <1>1, <1>2, <1>3, PolicyForType DEF Registered, Rows

LEMMA RegisterKeeps ==
  ASSUME SessionsInv, NEW c \in Proc, Register(c)
  PROVE  SessionsInv'
<1> DEFINE s == caller[c].session
           new == Registered(row[s], caller[c])
           next == IF caller[c].policy = Unset THEN Away ELSE [caller[c] EXCEPT !.at = "policy"]
<1>1. s \in SessionKey /\ caller[c].at = "register" /\ caller[c] \in Callers /\ row[s] \in Rows
  BY DEF SessionsInv, SessionsTypeOK, CallerOK, Register
<1>2. row' = [row EXCEPT ![s] = new] /\ caller' = [caller EXCEPT ![c] = next] /\ asked' = asked
  BY DEF Register
<1>3. /\ new \in Rows /\ new.live /\ new.explicit = row[s].explicit
      /\ new.policy = IF row[s].explicit THEN row[s].policy ELSE PolicyFor(new.agent)
  BY <1>1, RegisteredRow
<1>4. /\ next \in Callers /\ next.at \in {"idle", "policy"}
      /\ next.at = "policy" => next.session = s /\ next.policy # Unset
  BY <1>1, SessionsAssumption DEF Callers, Away
<1> HIDE DEF s, new, next
<1>5. /\ SessionsTypeOK' /\ row'[s] = new /\ caller'[c] = next
      /\ \A r \in SessionKey \ {s} : row'[r] = row[r]
      /\ \A b \in Proc \ {c} : caller'[b] = caller[b]
  BY <1>1, <1>2, <1>3, <1>4 DEF SessionsInv, SessionsTypeOK
<1>6. CallerOK'
  BY <1>1, <1>4, <1>5 DEF SessionsInv, CallerOK
<1>7. RowPolicy'
  BY <1>1, <1>2, <1>3, <1>5 DEF SessionsInv, RowPolicy
<1>8. QED
  BY <1>5, <1>6, <1>7 DEF SessionsInv

(* A caller that is done is as good as one that never was. *)
LEMMA Returns ==
  ASSUME SessionsInv, NEW c \in Proc, caller' = [caller EXCEPT ![c] = Away]
  PROVE  caller' \in [Proc -> Callers] /\ CallerOK'
<1>1. Away \in Callers
  BY SessionsAssumption DEF Away, Callers
<1>2. QED
  BY <1>1 DEF SessionsInv, SessionsTypeOK, CallerOK, Away

LEMMA SetPolicyKeeps ==
  ASSUME SessionsInv, NEW c \in Proc, SetPolicy(c)
  PROVE  SessionsInv'
<1> DEFINE s == caller[c].session
           asks == caller[c].policy
           new == [row[s] EXCEPT !.policy = asks, !.explicit = TRUE]
<1>1. /\ s \in SessionKey /\ caller[c] \in Callers /\ row[s] \in Rows /\ asks # Unset
  BY DEF SessionsInv, SessionsTypeOK, CallerOK, SetPolicy
<1>2. caller' \in [Proc -> Callers] /\ CallerOK'
  BY Returns DEF SetPolicy
<1>3. CASE ~row[s].live
  BY <1>2, <1>3 DEF SessionsInv, SetPolicy, RowPolicy, SessionsTypeOK
<1>4. CASE row[s].live
  <2>1. row' = [row EXCEPT ![s] = new] /\ asked' = [asked EXCEPT ![s] = asks]
    BY <1>1, <1>4 DEF SetPolicy, SessionsInv, SessionsTypeOK
  <2>2. asks \in Asked /\ asks \in WakePolicies
    BY <1>1, SessionsAssumption DEF Callers
  <2>3. new \in Rows /\ new.live /\ new.explicit /\ new.policy = asks
    BY <1>1, <1>4, <2>2 DEF Rows
  <2> HIDE DEF s, new, asks
  <2>4. /\ row' \in [SessionKey -> Rows] /\ asked' \in [SessionKey -> Asked \cup {Unset}]
        /\ row'[s] = new /\ asked'[s] = asks
        /\ \A r \in SessionKey \ {s} : row'[r] = row[r] /\ asked'[r] = asked[r]
    BY <1>1, <2>1, <2>2, <2>3 DEF SessionsInv, SessionsTypeOK
  <2>5. RowPolicy'
    BY <1>1, <2>3, <2>4 DEF SessionsInv, RowPolicy
  <2>6. QED
    BY <1>2, <2>4, <2>5 DEF SessionsInv, SessionsTypeOK
<1>5. QED
  BY <1>3, <1>4

LEMMA AdoptKeeps ==
  ASSUME SessionsInv, NEW c \in Proc, Adopt(c)
  PROVE  SessionsInv'
<1> DEFINE s == caller[c].session
           a == caller[c].agent
           new == [row[s] EXCEPT !.agent = a, !.policy = AdoptedPolicy(row[s], a)]
<1>1. s \in SessionKey /\ caller[c] \in Callers /\ row[s] \in Rows
  BY DEF SessionsInv, SessionsTypeOK, CallerOK, Adopt
<1>2. caller' \in [Proc -> Callers] /\ CallerOK'
  BY Returns DEF Adopt
<1>3. CASE ~row[s].live
  BY <1>2, <1>3 DEF SessionsInv, Adopt, RowPolicy, SessionsTypeOK
<1>4. CASE row[s].live
  <2>1. row' = [row EXCEPT ![s] = new] /\ asked' = asked
    BY <1>1, <1>4 DEF Adopt, SessionsInv, SessionsTypeOK
  <2>2. a \in Agent \cup {Unset} /\ AdoptedPolicy(row[s], a) \in WakePolicies
    BY <1>1, PolicyForType DEF Callers, Rows, AdoptedPolicy
  <2>3. /\ new \in Rows /\ new.live /\ new.explicit = row[s].explicit
        /\ new.policy = IF row[s].explicit THEN row[s].policy ELSE PolicyFor(new.agent)
    BY <1>1, <1>4, <2>2 DEF Rows, AdoptedPolicy
  <2> HIDE DEF s, new, a
  <2>4. /\ row' \in [SessionKey -> Rows] /\ row'[s] = new
        /\ \A r \in SessionKey \ {s} : row'[r] = row[r]
    BY <1>1, <2>1, <2>3 DEF SessionsInv, SessionsTypeOK
  <2>5. RowPolicy'
    BY <1>1, <2>1, <2>3, <2>4 DEF SessionsInv, RowPolicy
  <2>6. QED
    BY <1>2, <2>1, <2>4, <2>5 DEF SessionsInv, SessionsTypeOK
<1>5. QED
  BY <1>3, <1>4

LEMMA AgesKeeps ==
  ASSUME SessionsInv, NEW s \in SessionKey, Ages(s)
  PROVE  SessionsInv'
<1> DEFINE new == [row[s] EXCEPT !.seen = IF @ = "now" THEN "earlier" ELSE "yesterday"]
<1>1. row[s] \in Rows /\ row' = [row EXCEPT ![s] = new] /\ caller' = caller /\ asked' = asked
  BY DEF Ages, SessionsInv, SessionsTypeOK
<1>2. /\ new \in Rows /\ new.live = row[s].live /\ new.explicit = row[s].explicit
      /\ new.policy = row[s].policy /\ new.agent = row[s].agent
  BY <1>1 DEF Rows
<1> HIDE DEF new
<1>3. /\ row' \in [SessionKey -> Rows] /\ row'[s] = new
      /\ \A r \in SessionKey \ {s} : row'[r] = row[r]
  BY <1>1, <1>2 DEF SessionsInv, SessionsTypeOK
<1>4. RowPolicy'
  BY <1>1, <1>2, <1>3 DEF SessionsInv, RowPolicy
<1>5. QED
  BY <1>1, <1>3, <1>4 DEF SessionsInv, SessionsTypeOK, CallerOK

LEMMA ReapKeeps ==
  ASSUME SessionsInv, Reap
  PROVE  SessionsInv'
<1>1. NoRow \in Rows
  BY SessionsAssumption DEF NoRow, Rows, WakePolicies
<1>2. PICK idle : /\ row' = [s \in SessionKey |-> IF s \in idle THEN NoRow ELSE row[s]]
                  /\ asked' = [s \in SessionKey |-> IF s \in idle THEN Unset ELSE asked[s]]
                  /\ caller' = caller
  BY DEF Reap
<1>3. SessionsTypeOK'
  BY <1>1, <1>2 DEF SessionsInv, SessionsTypeOK
<1>4. RowPolicy'
  BY <1>2 DEF SessionsInv, RowPolicy, NoRow
<1>5. QED
  BY <1>2, <1>3, <1>4 DEF SessionsInv, CallerOK

LEMMA SessionsStepInv == SessionsInv /\ [SessionsNext]_sessionVars => SessionsInv'
<1> SUFFICES ASSUME SessionsInv, [SessionsNext]_sessionVars PROVE SessionsInv'
  OBVIOUS
<1>1. ASSUME NEW c \in Proc, NEW s \in SessionKey, NEW d \in Dir,
             HookStart(c, s, d) \/ HookBeat(c, s, d)
      PROVE  SessionsInv'
  <2>1. HostOf[s] \in Agent \cup {Unset} /\ d \in Dir \cup {Unset}
    BY SessionsAssumption
  <2>2. CASE HookStart(c, s, d)
    BY <2>1, <2>2, LocatedType, CallKeeps, Zenon DEF HookStart
  <2>3. CASE HookBeat(c, s, d)
    BY <2>1, <2>3, BeatType, CallKeeps, Zenon DEF HookBeat
  <2>4. QED
    BY <1>1, <2>2, <2>3
<1>2. ASSUME NEW c \in Proc, NEW s \in SessionKey, NEW d \in Dir,
             NEW agent \in Agent \cup {Unset},
             MsgCommand(c, s, d, agent) \/ CmdSessionPolicy(c, s, d, agent)
      PROVE  SessionsInv'
  <2>1. PICK policy \in Asked \cup {Unset} :
          Call(c, "register", s, Located(d), d, agent, "other", policy)
    BY <1>2 DEF MsgCommand, CmdSessionPolicy, CommandAs, CommandHere
  <2>2. QED
    BY <2>1, LocatedType, CallKeeps
<1>3. ASSUME NEW c \in Proc, NEW s \in SessionKey, WakeLooks(c, s)
      PROVE  SessionsInv'
  <2>1. LocalHost[s] \in Agent \cup {Unset}
    BY SessionsAssumption
  <2>2. QED
    BY <1>3, <2>1, LocatedType, CallKeeps DEF WakeLooks
<1>4. ASSUME NEW c \in Proc, Dies(c) PROVE SessionsInv'
  BY <1>4, Returns DEF Dies, SessionsInv, SessionsTypeOK, RowPolicy
<1>5. CASE UNCHANGED sessionVars
  BY <1>5 DEF sessionVars, SessionsInv, SessionsTypeOK, RowPolicy, CallerOK
<1>6. QED
  BY <1>1, <1>2, <1>3, <1>4, <1>5, RegisterKeeps, SetPolicyKeeps, AdoptKeeps, AgesKeeps,
     ReapKeeps DEF SessionsNext

LEMMA SessionsAlways == SessionsSpec => []SessionsInv
BY SessionsInitInv, SessionsStepInv, PTL DEF SessionsSpec

LEMMA PolicyFollowsInv == SessionsInv => PolicyFollows
BY DEF SessionsInv, RowPolicy, PolicyFollows, OrElse

THEOREM PolicyStands == SessionsSpec => []PolicyFollows
BY SessionsAlways, PolicyFollowsInv, PTL

LEMMA MovesLocated ==
  ASSUME SessionsInv, [SessionsNext]_sessionVars,
         NEW s \in SessionKey, row[s].live, row[s].project # Unset, row'[s].live,
         row'[s].project # row[s].project
  PROVE  \E c \in Proc : /\ caller[c].session = s /\ caller'[c] # caller[c]
                         /\ caller[c].as \in {"start", "first"}
                         /\ caller[c].project = ProjectAt[caller[c].dir]
<1>1. ASSUME NEW c \in Proc, Register(c)
      PROVE  /\ caller[c].session = s /\ caller'[c] # caller[c]
             /\ caller[c].as \in {"start", "first"}
             /\ caller[c].project = ProjectAt[caller[c].dir]
  <2> DEFINE k == caller[c].session
  <2>1. /\ caller[c] \in Callers /\ row[s] \in Rows /\ caller[c].at = "register"
        /\ row' = [row EXCEPT ![k] = Registered(row[k], caller[c])]
    BY <1>1 DEF Register, SessionsInv, SessionsTypeOK
  <2>2. k = s /\ row'[s] = Registered(row[s], caller[c])
    BY <2>1 DEF SessionsInv, SessionsTypeOK
  <2>3. Moves(caller[c]) /\ caller[c].project # Unset
    BY <2>1, <2>2, RegisteredRow DEF OrElse, Callers
  <2>4. caller'[c].at # "register"
    BY <1>1 DEF Register, SessionsInv, SessionsTypeOK, Away, Callers
  <2>5. QED
    BY <2>1, <2>2, <2>3, <2>4 DEF SessionsInv, CallerOK
<1>2. ASSUME \/ UNCHANGED row
             \/ \E c \in Proc : SetPolicy(c) \/ Adopt(c)
             \/ \E r \in SessionKey : Ages(r)
             \/ Reap
      PROVE  FALSE
  <2>1. row \in [SessionKey -> Rows]
    BY DEF SessionsInv, SessionsTypeOK
  <2>2. CASE UNCHANGED row
    BY <2>2
  <2>3. ASSUME NEW c \in Proc, SetPolicy(c) \/ Adopt(c) PROVE row'[s].project = row[s].project
    BY <2>1, <2>3 DEF SetPolicy, Adopt, Rows
  <2>4. ASSUME NEW r \in SessionKey, Ages(r) PROVE row'[s].project = row[s].project
    BY <2>1, <2>4 DEF Ages, Rows
  <2>5. CASE Reap
    BY <2>1, <2>5 DEF Reap, NoRow
  <2>6. QED
    BY <1>2, <2>2, <2>3, <2>4, <2>5
<1>3. ASSUME NEW c \in Proc, Dies(c) \/ \E r \in SessionKey : WakeLooks(c, r)
      PROVE  UNCHANGED row
  BY <1>3 DEF Dies, WakeLooks, Call
<1>4. ASSUME NEW c \in Proc, NEW r \in SessionKey, NEW d \in Dir,
             \/ HookStart(c, r, d) \/ HookBeat(c, r, d)
             \/ \E agent \in Agent \cup {Unset} :
                  MsgCommand(c, r, d, agent) \/ CmdSessionPolicy(c, r, d, agent)
      PROVE  UNCHANGED row
  BY <1>4 DEF HookStart, HookBeat, MsgCommand, CmdSessionPolicy, CommandAs, CommandHere, Call
<1>5. CASE UNCHANGED sessionVars
  BY <1>2, <1>5 DEF sessionVars
<1>6. CASE SessionsNext
  BY <1>1, <1>2, <1>3, <1>4, <1>6 DEF SessionsNext
<1>7. QED
  BY <1>5, <1>6

(* However late hooks, commands and wakes write what they read: a session  *)
(* changes its project by a session start or by a heartbeat that found no  *)
(* row for it, and then to the project of the directory that hook was in.  *)
THEOREM FullMoves == SessionsSpec => MovedInFull
<1>1. SessionsInv /\ [SessionsNext]_sessionVars =>
        [\A s \in SessionKey :
           (row[s].live /\ row[s].project # Unset /\ row'[s].live /\ row'[s].project # row[s].project) =>
             \E c \in Proc : /\ caller[c].session = s /\ caller'[c] # caller[c]
                             /\ caller[c].as \in {"start", "first"}
                             /\ caller[c].project = ProjectAt[caller[c].dir]]_sessionVars
  BY MovesLocated
<1>2. QED
  BY <1>1, SessionsAlways, PTL DEF SessionsSpec, MovedInFull

-----------------------------------------------------------------------------
-----------------------------------------------------------------------------
(* CURATION *)

Notice == [digest : Digest, retired : BOOLEAN, expired : BOOLEAN]
Finding == Digest \cup {Clean, Skipped}
Run == [at : {"idle", "judge", "list", "post", "retire", "sweep"}, now : Home \cup {Skipped},
        report : [Home -> Finding], older : SUBSET Nat, stale : [Home -> SUBSET Nat],
        upto : [Home -> Nat]]

CurationTypeOK ==
  /\ notices \in [Home -> Seq(Notice)]
  /\ runner \in [Runner -> Run]
  /\ clean \in [Home -> Nat]

(* Notice n of p is there and retired. *)
IsRetired(p, n) == n \in 1..Len(notices[p]) /\ notices[p][n].retired

CleanIsRetired == \A p \in Home : clean[p] > 0 => IsRetired(p, clean[p])

(* A run that is about to retire what it swept has listed the notice that *)
(* was the latest when it looked, or found it retired.                     *)
SweptOrRetired ==
  \A r \in Runner : runner[r].at = "sweep" =>
    \A p \in Home : runner[r].upto[p] > 0 =>
      /\ runner[r].upto[p] \in 1..Len(notices[p])
      /\ runner[r].upto[p] \in runner[r].stale[p] \/ IsRetired(p, runner[r].upto[p])

(* What is about to be posted was found. *)
PostsFindings ==
  \A r \in Runner : runner[r].at \in {"list", "post"} =>
    \A p \in Home : runner[r].now = p => runner[r].report[p] \in Digest

CurationInv == CurationTypeOK /\ CleanIsRetired /\ SweptOrRetired /\ PostsFindings

(* No notice goes, and none that is retired comes back. *)
Grows ==
  \A p \in Home : /\ Len(notices[p]) <= Len(notices'[p])
                  /\ \A n \in 1..Len(notices[p]) : notices[p][n].retired => notices'[p][n].retired

LEMMA RestingType == Resting \in Run
BY DEF Resting, Run, Finding

LEMMA CurationInitInv == CurationInit => CurationInv
<1> SUFFICES ASSUME CurationInit PROVE CurationInv
  OBVIOUS
<1>1. CurationTypeOK
  BY RestingType DEF CurationInit, CurationTypeOK
<1>2. CleanIsRetired /\ SweptOrRetired /\ PostsFindings
  BY DEF CurationInit, CleanIsRetired, SweptOrRetired, PostsFindings, Resting
<1>3. QED
  BY <1>1, <1>2 DEF CurationInv

LEMMA GrownKeeps ==
  ASSUME CurationInv, notices' \in [Home -> Seq(Notice)], Grows,
         NEW p \in Home, NEW n, IsRetired(p, n)
  PROVE  IsRetired(p, n)'
<1>1. Len(notices[p]) \in Nat /\ Len(notices'[p]) \in Nat
  BY DEF CurationInv, CurationTypeOK
<1>2. QED
  BY <1>1 DEF Grows, IsRetired

(* A step of run r leaves it resting, or on its way with what it found,    *)
(* unless it sweeps.                                                       *)
LEMMA RunKeeps ==
  ASSUME CurationInv, notices' \in [Home -> Seq(Notice)], Grows, clean' = clean,
         NEW r \in Runner, NEW next \in Run, runner' = [runner EXCEPT ![r] = next],
         next.at # "sweep",
         next.at \in {"list", "post"} => \A p \in Home : next.now = p => next.report[p] \in Digest
  PROVE  CurationInv'
<1>1. /\ runner' \in [Runner -> Run] /\ runner'[r] = next
      /\ \A b \in Runner \ {r} : runner'[b] = runner[b]
  BY DEF CurationInv, CurationTypeOK
<1>2. CurationTypeOK'
  BY <1>1 DEF CurationInv, CurationTypeOK
<1>3. CleanIsRetired'
  BY GrownKeeps DEF CurationInv, CleanIsRetired
<1>4. SweptOrRetired'
  <2> SUFFICES ASSUME NEW b \in Runner, runner'[b].at = "sweep",
                      NEW p \in Home, runner'[b].upto[p] > 0
               PROVE  /\ runner'[b].upto[p] \in 1..Len(notices'[p])
                      /\ runner'[b].upto[p] \in runner'[b].stale[p] \/ IsRetired(p, runner[b].upto[p])'
    BY <1>1 DEF SweptOrRetired, IsRetired
  <2>1. b # r /\ runner'[b] = runner[b]
    BY <1>1
  <2>2. Len(notices[p]) \in Nat /\ Len(notices'[p]) \in Nat /\ Len(notices[p]) <= Len(notices'[p])
    BY DEF CurationInv, CurationTypeOK, Grows
  <2>3. /\ runner[b].upto[p] \in 1..Len(notices[p])
        /\ runner[b].upto[p] \in runner[b].stale[p] \/ IsRetired(p, runner[b].upto[p])
    BY <2>1 DEF CurationInv, SweptOrRetired
  <2>4. runner[b].upto[p] \in 1..Len(notices'[p])
    BY <2>2, <2>3
  <2>5. IsRetired(p, runner[b].upto[p]) => IsRetired(p, runner[b].upto[p])'
    BY <2>1, GrownKeeps DEF IsRetired
  <2>6. QED
    BY <2>1, <2>3, <2>4, <2>5
<1>5. PostsFindings'
  BY <1>1 DEF CurationInv, PostsFindings
<1>6. QED
  BY <1>2, <1>3, <1>4, <1>5 DEF CurationInv

LEMMA SameGrows ==
  ASSUME CurationInv, notices' = notices
  PROVE  notices' \in [Home -> Seq(Notice)] /\ Grows
BY DEF CurationInv, CurationTypeOK, Grows

LEMMA NoticeFlags ==
  ASSUME NEW n \in Notice
  PROVE  /\ [n EXCEPT !.retired = TRUE] \in Notice /\ [n EXCEPT !.retired = TRUE].retired
         /\ [n EXCEPT !.expired = TRUE] \in Notice
         /\ [n EXCEPT !.expired = TRUE].retired = n.retired
BY DEF Notice

(* Retiring keeps the notices and what is retired. *)
LEMMA RetiredSeq ==
  ASSUME NEW seq \in Seq(Notice), NEW ns
  PROVE  /\ Retired(seq, ns) \in Seq(Notice) /\ Len(Retired(seq, ns)) = Len(seq)
         /\ \A n \in 1..Len(seq) : Retired(seq, ns)[n].retired <=> seq[n].retired \/ n \in ns
<1>1. \A n \in 1..Len(seq) : /\ seq[n] \in Notice
                             /\ [seq[n] EXCEPT !.retired = TRUE] \in Notice
                             /\ [seq[n] EXCEPT !.retired = TRUE].retired
  <2>1. \A n \in 1..Len(seq) : seq[n] \in Notice
    OBVIOUS
  <2>2. QED
    BY <2>1, NoticeFlags
<1>2. /\ Retired(seq, ns) = [n \in 1..Len(seq) |-> IF n \in ns THEN [seq[n] EXCEPT !.retired = TRUE]
                                                  ELSE seq[n]]
      /\ Len(seq) \in Nat
  BY DEF Retired
<1>3. Retired(seq, ns) \in [1..Len(seq) -> Notice]
  BY <1>1, <1>2
<1>4. Retired(seq, ns) \in Seq(Notice) /\ Len(Retired(seq, ns)) = Len(seq)
  BY <1>2, <1>3
<1>5. \A n \in 1..Len(seq) : Retired(seq, ns)[n].retired <=> seq[n].retired \/ n \in ns
  BY <1>1, <1>2 DEF Notice
<1>6. QED
  BY <1>4, <1>5

LEMMA ExpiresKeeps ==
  ASSUME CurationInv, NEW p \in Home, Expires(p)
  PROVE  CurationInv'
<1>1. PICK n \in LiveNotices(p) : notices' = [notices EXCEPT ![p][n].expired = TRUE]
  BY DEF Expires
<1> DEFINE seq == notices[p]
           new == [seq EXCEPT ![n].expired = TRUE]
<1>2. seq \in Seq(Notice) /\ n \in 1..Len(seq) /\ notices' = [notices EXCEPT ![p] = new]
  BY <1>1 DEF LiveNotices, CurationInv, CurationTypeOK
<1>3. /\ new \in Seq(Notice) /\ Len(new) = Len(seq)
      /\ \A k \in 1..Len(seq) : new[k].retired = seq[k].retired
  <2>1. [seq[n] EXCEPT !.expired = TRUE] \in Notice
        /\ [seq[n] EXCEPT !.expired = TRUE].retired = seq[n].retired
    <3>1. seq[n] \in Notice
      BY <1>2
    <3>2. QED
      BY <3>1, NoticeFlags
  <2>2. QED
    BY <1>2, <2>1
<1> HIDE DEF new
<1>4. notices' \in [Home -> Seq(Notice)] /\ Grows
  BY <1>2, <1>3 DEF CurationInv, CurationTypeOK, Grows
<1>5. runner' = runner /\ clean' = clean
  BY DEF Expires
<1>6. CurationTypeOK' /\ PostsFindings'
  BY <1>4, <1>5 DEF CurationInv, CurationTypeOK, PostsFindings
<1>7. CleanIsRetired'
  BY <1>4, <1>5, GrownKeeps DEF CurationInv, CleanIsRetired
<1>8. SweptOrRetired'
  <2>1. \A q \in Home : Len(notices'[q]) = Len(notices[q])
    BY <1>2, <1>3 DEF CurationInv, CurationTypeOK
  <2>2. QED
    BY <1>4, <1>5, <2>1, GrownKeeps DEF CurationInv, SweptOrRetired
<1>9. QED
  BY <1>6, <1>7, <1>8 DEF CurationInv

LEMMA ReportKeeps ==
  ASSUME CurationInv, NEW r \in Runner, NEW scope \in SUBSET Home, Report(r, scope)
  PROVE  CurationInv'
<1>1. PICK found \in [scope -> Digest \cup {Clean}] :
        runner' = [runner EXCEPT ![r] = [Resting EXCEPT !.at = "judge",
            !.report = [p \in Home |-> IF p \in scope THEN found[p] ELSE Skipped]]]
  BY DEF Report
<1> DEFINE report == [p \in Home |-> IF p \in scope THEN found[p] ELSE Skipped]
           next == [Resting EXCEPT !.at = "judge", !.report = report]
<1>2. report \in [Home -> Finding]
  BY DEF Finding
<1>3. runner' = [runner EXCEPT ![r] = next]
  BY <1>1
<1> HIDE DEF report
<1>4. next \in Run /\ next.at = "judge"
  BY <1>2, RestingType DEF Run
<1> HIDE DEF next
<1>5. QED
  BY <1>3, <1>4, RunKeeps, SameGrows DEF Report

LEMMA JudgeKeeps ==
  ASSUME CurationInv, NEW r \in Runner, NEW p \in Home, Judge(r, p)
  PROVE  CurationInv'
<1> DEFINE next == IF IsCurrent(p, runner[r].report[p]) THEN [runner[r] EXCEPT !.report[p] = Skipped]
                   ELSE [runner[r] EXCEPT !.at = "list", !.now = p]
<1>1. runner[r] \in Run /\ runner[r].at = "judge" /\ runner[r].report[p] \in Digest
  BY DEF Judge, CurationInv, CurationTypeOK
<1>2. runner' = [runner EXCEPT ![r] = next] /\ notices' = notices /\ clean' = clean
  BY DEF Judge
<1>3. /\ next \in Run /\ next.at \in {"judge", "list"}
      /\ next.at = "list" => next.now = p /\ next.report = runner[r].report
  BY <1>1 DEF Run, Finding
<1> HIDE DEF next
<1>4. QED
  BY <1>1, <1>2, <1>3, RunKeeps, SameGrows

LEMMA ListKeeps ==
  ASSUME CurationInv, NEW r \in Runner, NEW p \in Home, List(r, p)
  PROVE  CurationInv'
<1> DEFINE next == [runner[r] EXCEPT !.at = "post", !.older = Replaced(p)]
<1>1. runner[r] \in Run /\ runner[r].at = "list" /\ runner[r].now = p /\ runner[r].report[p] \in Digest
  BY DEF List, CurationInv, CurationTypeOK, PostsFindings
<1>2. runner' = [runner EXCEPT ![r] = next] /\ notices' = notices /\ clean' = clean
  BY <1>1 DEF List, CurationInv, CurationTypeOK
<1>3. Replaced(p) \in SUBSET Nat
  BY DEF Replaced, LiveNotices, CurationInv, CurationTypeOK
<1>4. /\ next \in Run /\ next.at = "post" /\ next.now = p /\ next.report = runner[r].report
  BY <1>1, <1>3 DEF Run
<1> HIDE DEF next
<1>5. QED
  BY <1>1, <1>2, <1>4, RunKeeps, SameGrows

LEMMA PostKeeps ==
  ASSUME CurationInv, NEW r \in Runner, NEW p \in Home, Post(r, p)
  PROVE  CurationInv'
<1> DEFINE next == [runner[r] EXCEPT !.at = "retire", !.report[p] = Skipped]
           new == [digest |-> runner[r].report[p], retired |-> FALSE, expired |-> FALSE]
<1>1. runner[r] \in Run /\ runner[r].at = "post" /\ runner[r].now = p /\ runner[r].report[p] \in Digest
  BY DEF Post, CurationInv, CurationTypeOK, PostsFindings
<1>2. /\ runner' = [runner EXCEPT ![r] = next] /\ clean' = clean
      /\ notices' = [notices EXCEPT ![p] = Append(notices[p], new)]
  BY <1>1 DEF Post, CurationInv, CurationTypeOK
<1>3. next \in Run /\ next.at = "retire"
  BY <1>1 DEF Run, Finding
<1>4. new \in Notice
  BY <1>1 DEF Notice
<1> HIDE DEF next, new
<1>5. notices' \in [Home -> Seq(Notice)] /\ Grows
  BY <1>2, <1>4 DEF CurationInv, CurationTypeOK, Grows
<1>6. QED
  BY <1>2, <1>3, <1>5, RunKeeps

LEMMA RetireKeeps ==
  ASSUME CurationInv, NEW r \in Runner, NEW p \in Home, Retire(r, p)
  PROVE  CurationInv'
<1> DEFINE next == [runner[r] EXCEPT !.at = "judge", !.now = Skipped, !.older = {}]
<1>1. runner[r] \in Run
  BY DEF CurationInv, CurationTypeOK
<1>2. /\ runner' = [runner EXCEPT ![r] = next] /\ clean' = clean
      /\ notices' = [notices EXCEPT ![p] = Retired(notices[p], runner[r].older)]
  BY <1>1 DEF Retire, CurationInv, CurationTypeOK
<1>3. next \in Run /\ next.at = "judge"
  BY <1>1 DEF Run
<1> HIDE DEF next
<1>4. notices' \in [Home -> Seq(Notice)] /\ Grows
  BY <1>2, RetiredSeq DEF CurationInv, CurationTypeOK, Grows
<1>5. QED
  BY <1>2, <1>3, <1>4, RunKeeps

(* The latest notice of a project that is clean is retired or listed. *)
LEMMA SweepKeeps ==
  ASSUME CurationInv, NEW r \in Runner, Sweep(r)
  PROVE  CurationInv'
<1> DEFINE clear == {p \in Home : runner[r].report[p] = Clean}
           stale == [p \in Home |-> IF p \in clear THEN Clearable(p) ELSE {}]
           upto == [p \in Home |-> IF p \in clear THEN Len(notices[p]) ELSE 0]
           next == [Resting EXCEPT !.at = "sweep", !.stale = stale, !.upto = upto]
<1>1. /\ runner' = [runner EXCEPT ![r] = next] /\ clean' = clean /\ notices' = notices
  BY DEF Sweep
<1>2. \A p \in Home : notices[p] \in Seq(Notice) /\ Len(notices[p]) \in Nat
  BY DEF CurationInv, CurationTypeOK
<1>3. \A p \in Home : Clearable(p) \in SUBSET Nat
  BY <1>2 DEF Clearable, LiveNotices
<1>4. stale \in [Home -> SUBSET Nat] /\ upto \in [Home -> Nat]
  BY <1>2, <1>3
<1>5. \A p \in Home : upto[p] > 0 =>
         upto[p] \in 1..Len(notices[p]) /\ (upto[p] \in stale[p] \/ IsRetired(p, upto[p]))
  BY <1>2 DEF Clearable, IsRetired
<1> HIDE DEF stale, upto
<1>6. next \in Run /\ next.at = "sweep" /\ next.stale = stale /\ next.upto = upto
  BY <1>4, RestingType DEF Run
<1> HIDE DEF next
<1>7. /\ runner' \in [Runner -> Run] /\ runner'[r] = next
      /\ \A b \in Runner \ {r} : runner'[b] = runner[b]
  BY <1>1, <1>6 DEF CurationInv, CurationTypeOK
<1>8. CurationTypeOK' /\ CleanIsRetired' /\ PostsFindings'
  BY <1>1, <1>6, <1>7 DEF CurationInv, CurationTypeOK, CleanIsRetired, PostsFindings, IsRetired
<1>9. SweptOrRetired'
  BY <1>1, <1>5, <1>6, <1>7 DEF CurationInv, SweptOrRetired, IsRetired
<1>10. QED
  BY <1>8, <1>9 DEF CurationInv

LEMMA RetireStaleKeeps ==
  ASSUME CurationInv, NEW r \in Runner, RetireStale(r)
  PROVE  CurationInv'
<1>1. /\ runner' = [runner EXCEPT ![r] = Resting]
      /\ notices' = [p \in Home |-> Retired(notices[p], runner[r].stale[p])]
      /\ clean' = [p \in Home |-> IF runner[r].upto[p] > clean[p] THEN runner[r].upto[p] ELSE clean[p]]
      /\ runner[r].at = "sweep" /\ runner[r] \in Run
  BY DEF RetireStale, CurationInv, CurationTypeOK
<1>2. \A p \in Home : /\ notices'[p] \in Seq(Notice) /\ Len(notices'[p]) = Len(notices[p])
                      /\ \A n \in 1..Len(notices[p]) :
                           notices'[p][n].retired <=> notices[p][n].retired \/ n \in runner[r].stale[p]
  BY <1>1, RetiredSeq DEF CurationInv, CurationTypeOK
<1>3. notices' \in [Home -> Seq(Notice)]
  BY <1>1, <1>2
<1>4. Grows
  BY <1>2 DEF Grows, CurationInv, CurationTypeOK
<1>5. CurationTypeOK' /\ PostsFindings'
  BY <1>1, <1>3, RestingType DEF CurationInv, CurationTypeOK, PostsFindings, Resting, Run
<1>6. CleanIsRetired'
  <2> SUFFICES ASSUME NEW p \in Home, clean'[p] > 0 PROVE IsRetired(p, clean[p])'
    BY <1>1 DEF CleanIsRetired
  <2>1. CASE clean'[p] = clean[p]
    <3>1. IsRetired(p, clean[p])
      BY <2>1 DEF CurationInv, CleanIsRetired
    <3>2. QED
      BY <1>3, <1>4, <2>1, <3>1, GrownKeeps DEF IsRetired
  <2>2. CASE clean'[p] = runner[r].upto[p]
    BY <1>1, <1>2, <2>2 DEF CurationInv, SweptOrRetired, IsRetired
  <2>3. QED
    BY <1>1, <2>1, <2>2
<1>7. SweptOrRetired'
  <2> SUFFICES ASSUME NEW b \in Runner \ {r}, runner[b].at = "sweep",
                      NEW p \in Home, runner[b].upto[p] > 0
               PROVE  /\ runner[b].upto[p] \in 1..Len(notices'[p])
                      /\ runner[b].upto[p] \in runner[b].stale[p]
                         \/ notices'[p][runner[b].upto[p]].retired
    BY <1>1 DEF CurationInv, CurationTypeOK, SweptOrRetired, IsRetired, Resting
  <2>1. QED
    BY <1>2 DEF CurationInv, SweptOrRetired, IsRetired
<1>8. QED
  BY <1>5, <1>6, <1>7 DEF CurationInv

LEMMA CurationStepInv == CurationInv /\ [CurationNext]_curationVars => CurationInv'
<1> SUFFICES ASSUME CurationInv, [CurationNext]_curationVars PROVE CurationInv'
  OBVIOUS
<1>1. ASSUME NEW r \in Runner, RunDies(r) PROVE CurationInv'
  <2>1. Resting.at = "idle"
    BY DEF Resting
  <2>2. QED
    BY <1>1, <2>1, RunKeeps, SameGrows, RestingType DEF RunDies
<1>2. ASSUME NEW r \in Runner, NEW scope \in {Home} \cup {{p} : p \in Home}, Report(r, scope)
      PROVE  CurationInv'
  <2>1. scope \in SUBSET Home
    OBVIOUS
  <2>2. QED
    BY <1>2, <2>1, ReportKeeps
<1>3. CASE UNCHANGED curationVars
  BY <1>3 DEF curationVars, CurationInv, CurationTypeOK, CleanIsRetired, SweptOrRetired,
     PostsFindings, IsRetired
<1>4. QED
  BY <1>1, <1>2, <1>3, ExpiresKeeps, JudgeKeeps, ListKeeps, PostKeeps, RetireKeeps, SweepKeeps,
     RetireStaleKeeps DEF CurationNext

LEMMA CurationAlways == CurationSpec => []CurationInv
BY CurationInitInv, CurationStepInv, PTL DEF CurationSpec

THEOREM RecurrenceStands == CurationSpec => []RecurrenceIsPosted
<1>1. CurationInv => RecurrenceIsPosted
  BY DEF CurationInv, CleanIsRetired, RecurrenceIsPosted, IsRetired
<1>2. QED
  BY <1>1, CurationAlways, PTL
=============================================================================
