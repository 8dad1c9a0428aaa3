------------------------------ MODULE Sessions ------------------------------
(* agent_sessions: who is where, who hosts it and what may wake it.  Hooks  *)
(* register and heartbeat a session, commands heartbeat the one they act    *)
(* for, the dispatcher adopts a host, a prune reaps what is idle: each      *)
(* reads first and writes in a later statement or transaction.              *)
EXTENDS FiniteSets

CONSTANTS
  SessionKey, Dir, Project, Workspace,
  ProjectAt,   \* [Dir -> the project discovered there, or Unset]
  Ws,          \* [Project -> Workspace]
  DefaultWs,
  Above,       \* [Dir -> the directory and those above it]
  Agent,       \* Paseo agents
  HostOf,      \* [SessionKey -> PASEO_AGENT_ID of its processes, or Unset]
  LocalHost,   \* [SessionKey -> its agent by Paseo's local records, or Unset]
  Asked,       \* bound: the wake policies that commands ask for
  Proc,        \* hooks, commands and wakes at a time
  Unset

WakePolicies == {"none", "direct", "any-direct-from-project"}

ASSUME SessionsAssumption ==
  /\ Unset \notin Project \cup Agent \cup Dir /\ DefaultWs \in Workspace
  /\ ProjectAt \in [Dir -> Project \cup {Unset}] /\ Ws \in [Project -> Workspace]
  /\ Above \in [Dir -> SUBSET Dir] /\ Asked \subseteq WakePolicies
  /\ HostOf \in [SessionKey -> Agent \cup {Unset}] /\ LocalHost \in [SessionKey -> Agent \cup {Unset}]

VARIABLES
  row,    \* [SessionKey -> its row, or NoRow]
  caller, \* [Proc -> where it is]
  asked   \* history: the policy set for the row, Unset if it was not

sessionVars == <<row, caller, asked>>

NoRow == [live |-> FALSE, ws |-> DefaultWs, project |-> Unset, dir |-> Unset, agent |-> Unset,
          policy |-> "none", explicit |-> FALSE, seen |-> "now"]
Away == [at |-> "idle", session |-> Unset, ws |-> DefaultWs, project |-> Unset, dir |-> Unset,
         agent |-> Unset, as |-> "other", policy |-> Unset]

SessionsInit ==
  /\ row = [s \in SessionKey |-> NoRow]
  /\ caller = [c \in Proc |-> Away]
  /\ asked = [s \in SessionKey |-> Unset]

OrElse(new, old) == IF new = Unset THEN old ELSE new
PolicyFor(agent) == IF agent = Unset THEN "none" ELSE "direct"
-----------------------------------------------------------------------------

(* The stored workspace is the stored project's. *)
WorkspaceFor(project, ws) == IF project = Unset THEN ws ELSE Ws[project]

(* replace_location: hooks give it, "start" for session starts, "first" for *)
(* heartbeats that found no row, "beat" for those that found one; commands *)
(* and wakes, "other", do not.                                             *)
Moves(new) == new.as # "other"

(* register_session: INSERT .. ON CONFLICT DO UPDATE with what c found. *)
Registered(old, new) ==
  LET project == IF Moves(new) THEN OrElse(new.project, old.project) ELSE OrElse(old.project, new.project)
      dir == IF Moves(new) THEN OrElse(new.dir, old.dir) ELSE OrElse(old.dir, new.dir)
      agent == OrElse(new.agent, old.agent)
  IN [live |-> TRUE, dir |-> dir, project |-> project, agent |-> agent, seen |-> "now",
      ws |-> WorkspaceFor(project, new.ws), explicit |-> old.explicit,
      policy |-> IF old.explicit THEN old.policy ELSE PolicyFor(agent)]

Register(c) ==
  LET mine == caller[c].session
  IN /\ caller[c].at = "register"
     /\ row' = [row EXCEPT ![mine] = Registered(@, caller[c])]
     /\ caller' = [caller EXCEPT ![c] = IF @.policy = Unset THEN Away ELSE [@ EXCEPT !.at = "policy"]]
     /\ UNCHANGED asked

(* _locate, resolve_caller: the project discovered at d, or the default    *)
(* workspace.                                                              *)
Located(d) ==
  IF d # Unset /\ ProjectAt[d] # Unset THEN [ws |-> Ws[ProjectAt[d]], project |-> ProjectAt[d]]
  ELSE [ws |-> DefaultWs, project |-> Unset]

Call(c, at, s, place, d, agent, as, policy) ==
  /\ caller[c].at = "idle"
  /\ caller' = [caller EXCEPT ![c] = [at |-> at, session |-> s, ws |-> place.ws, project |-> place.project,
                  dir |-> d, agent |-> agent, as |-> as, policy |-> policy]]
  /\ UNCHANGED <<row, asked>>

(* ensure_session with full: session start. *)
HookStart(c, s, d) == Call(c, "register", s, Located(d), d, HostOf[s], "start", Unset)

(* Mutant: the heartbeat repeats the project that it read. *)
BeatStored(s, d) ==
  IF row[s].live THEN [ws |-> row[s].ws, project |-> row[s].project] ELSE Located(d)

(* A known session is not located again, an unknown one in full. *)
Beat(s, d) == IF row[s].live THEN [ws |-> row[s].ws, project |-> Unset] ELSE Located(d)

HookBeat(c, s, d) ==
  Call(c, "register", s, Beat(s, d), d, HostOf[s], IF row[s].live THEN "beat" ELSE "first", Unset)

(* A command with a session's key, or with an id that names one session;   *)
(* it may run in any agent, or in none.                                    *)
CommandAs(c, s, d, agent, policy) == Call(c, "register", s, Located(d), d, agent, "other", policy)

(* The sessions registered at d or above it, seen within ten minutes: two  *)
(* are ambiguous, none leaves the caller anonymous.                        *)
Here(d) == {s \in SessionKey : row[s].live /\ row[s].dir \in Above[d] /\ row[s].seen = "now"}

CommandHere(c, s, d, agent, policy) ==
  Here(d) = {s} /\ Call(c, "register", s, Located(d), d, agent, "other", policy)

(* The msg commands act for a session; session policy goes on to set its   *)
(* policy, when it was asked to.                                           *)
MsgCommand(c, s, d, agent) ==
  CommandAs(c, s, d, agent, Unset) \/ CommandHere(c, s, d, agent, Unset)

CmdSessionPolicy(c, s, d, agent) ==
  \E policy \in Asked : CommandAs(c, s, d, agent, policy) \/ CommandHere(c, s, d, agent, policy)

(* set_session_policy, a transaction of its own after the heartbeat. *)
SetPolicy(c) ==
  LET mine == caller[c].session
  IN /\ caller[c].at = "policy"
     /\ IF row[mine].live
          THEN /\ row' = [row EXCEPT ![mine].policy = caller[c].policy, ![mine].explicit = TRUE]
               /\ asked' = [asked EXCEPT ![mine] = caller[c].policy]
          ELSE UNCHANGED <<row, asked>>
     /\ caller' = [caller EXCEPT ![c] = Away]

(* resolve_agent: a session without an agent may have one on this machine. *)
WakeLooks(c, s) ==
  /\ row[s].live /\ row[s].agent = Unset /\ LocalHost[s] # Unset
  /\ Call(c, "adopt", s, Located(Unset), Unset, LocalHost[s], "other", Unset)

(* Mutant: the default, whatever was set. *)
AdoptedPolicyDefault(old, agent) == PolicyFor(agent)

AdoptedPolicy(old, agent) == IF old.explicit THEN old.policy ELSE PolicyFor(agent)

(* set_paseo_agent_id. *)
Adopt(c) ==
  LET mine == caller[c].session
  IN /\ caller[c].at = "adopt"
     /\ row' = IF row[mine].live
                 THEN [row EXCEPT ![mine].agent = caller[c].agent,
                                  ![mine].policy = AdoptedPolicy(row[mine], caller[c].agent)]
                 ELSE row
     /\ caller' = [caller EXCEPT ![c] = Away]
     /\ UNCHANGED asked

Dies(c) ==
  /\ caller[c].at # "idle"
  /\ caller' = [caller EXCEPT ![c] = Away]
  /\ UNCHANGED <<row, asked>>

(* Ten minutes pass without a heartbeat, and twenty-four hours. *)
Ages(s) ==
  /\ row[s].live /\ row[s].seen # "yesterday"
  /\ row' = [row EXCEPT ![s].seen = IF @ = "now" THEN "earlier" ELSE "yesterday"]
  /\ UNCHANGED <<caller, asked>>

(* prune reaps all that are idle for a day. *)
Reap ==
  LET idle == {s \in SessionKey : row[s].live /\ row[s].seen = "yesterday"}
  IN /\ idle # {}
     /\ row' = [s \in SessionKey |-> IF s \in idle THEN NoRow ELSE row[s]]
     /\ asked' = [s \in SessionKey |-> IF s \in idle THEN Unset ELSE asked[s]]
     /\ UNCHANGED caller

SessionsNext ==
  \/ \E c \in Proc :
       \/ \E s \in SessionKey, d \in Dir :
            \/ HookStart(c, s, d) \/ HookBeat(c, s, d)
            \/ \E agent \in Agent \cup {Unset} :
                 MsgCommand(c, s, d, agent) \/ CmdSessionPolicy(c, s, d, agent)
       \/ \E s \in SessionKey : WakeLooks(c, s)
       \/ Register(c) \/ SetPolicy(c) \/ Adopt(c) \/ Dies(c)
  \/ \E s \in SessionKey : Ages(s)
  \/ Reap

SessionsSpec == SessionsInit /\ [][SessionsNext]_sessionVars
-----------------------------------------------------------------------------

(* The policy is what was last set for this row, and otherwise that of its *)
(* host, whoever registers, adopts or reaps it in between.                 *)
PolicyFollows ==
  \A s \in SessionKey : row[s].live => row[s].policy = OrElse(asked[s], PolicyFor(row[s].agent))

(* A session that has a project keeps it until a hook that located it in    *)
(* full writes: a session start, or a heartbeat that found no row when it  *)
(* looked.  The second may take back what a start made of the row in       *)
(* between; a heartbeat that knew the session, a command or a wake moves it *)
(* never, however late it writes.                                          *)
MovedInFull ==
  [][\A s \in SessionKey :
       (row[s].live /\ row[s].project # Unset /\ row'[s].live /\ row'[s].project # row[s].project) =>
         \E c \in Proc : /\ caller[c].session = s /\ caller'[c] # caller[c]
                         /\ caller[c].as \in {"start", "first"}
                         /\ caller[c].project = ProjectAt[caller[c].dir]]_sessionVars
=============================================================================
