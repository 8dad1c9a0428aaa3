------------------------------ MODULE Registry ------------------------------
(* Which project a directory belongs to: projects.repo_root, shared by all *)
(* machines, and project_checkouts, each machine's own.  init, checkout    *)
(* add, checkout scan and every command that resolves its directory first  *)
(* read and then write, in transactions of their own.                      *)
EXTENDS Naturals

CONSTANTS
  Project,
  Vm,      \* machines
  Dir,     \* directories as commands spell them
  MatchKey,     \* match_key: [Dir -> comparison form]
  Under,   \* pairs <<d, r>>: d lies below r, as spelled
  Caller,    \* commands that may run at a time
  On,      \* [Vm -> directories there]
  Slug,    \* [Dir -> project a repository there would be, by its basename]
  Nowhere,
  MaxCommands  \* bound: how many commands are given

ASSUME RegistryAssumption ==
  /\ Nowhere \notin Project \cup Dir
  /\ On \in [Vm -> SUBSET Dir] /\ Slug \in [Dir -> Project]
  /\ Under \subseteq Dir \X Dir /\ MaxCommands \in Nat

VARIABLES
  root,  \* projects.repo_root; Nowhere: no such project
  rows,  \* project_checkouts: [Vm -> [Dir -> its project or Nowhere]]
  cmd,   \* [Caller -> where it is]
  given, \* commands given so far
  atOnce  \* history: <<machine, key>> registered twice at once

registryVars == <<root, rows, cmd, given, atOnce>>

NoCommand == [at |-> "idle", vm |-> Nowhere, todo |-> {}, dir |-> Nowhere, relocate |-> FALSE,
         seen |-> [d \in Dir |-> Nowhere], met |-> {}]

RegistryInit ==
  /\ root = [p \in Project |-> Nowhere]
  /\ rows = [v \in Vm |-> [d \in Dir |-> Nowhere]]
  /\ cmd = [c \in Caller |-> NoCommand]
  /\ given = 0
  /\ atOnce = {}
-----------------------------------------------------------------------------

Same(d, e) == MatchKey[d] = MatchKey[e]

Inside ==
  {w \in Dir \X Dir :
     Same(w[1], w[2]) \/ \E u \in Under : Same(u[1], w[1]) /\ Same(u[2], w[2])}

Within(d, r) == <<d, r>> \in Inside

ASSUME TreeAssumption ==
  \A d, r \in Dir : Within(d, r) /\ Within(r, d) => Same(d, r)

Registered(table) == {d \in Dir : table[d] # Nowhere}

(* find_project_by_checkout: the deepest checkout that d is in.  Of two    *)
(* spellings of one directory either may come first.                       *)
Deepest(table, d) ==
  LET above == {r \in Registered(table) : Within(d, r)}
  IN {r \in above : \A q \in above : Within(r, q)}

(* projects.repo_root is compared as it is spelled. *)
AtRoot(d) ==
  LET above == {r \in Dir : (r = d \/ <<d, r>> \in Under) /\ \E p \in Project : root[p] = r}
  IN {p \in Project : root[p] \in {r \in above : \A q \in above : r = q \/ <<r, q>> \in Under}}
-----------------------------------------------------------------------------
(* What the owner check reads of d itself. *)
OwnersOf(v, d) == [r \in Dir |-> IF d \in Dir /\ Same(d, r) THEN rows[v][r] ELSE Nowhere]

(* A command c starts on v. *)
Give(c, v, at, todo, d, relocate) ==
  /\ cmd[c].at = "idle" /\ given < MaxCommands
  /\ given' = given + 1
  /\ cmd' = [cmd EXCEPT ![c] = [at |-> at, vm |-> v, todo |-> todo, dir |-> d,
                                relocate |-> relocate, seen |-> OwnersOf(v, d), met |-> {}]]
  /\ UNCHANGED <<root, rows, atOnce>>

(* Mutant: whoever owns the directory. *)
ConflictNever(table, d, p) == FALSE

(* The directory itself, not one above it, is another project's - in the   *)
(* one row that is looked at, when it has been registered in two spellings.*)
Conflict(table, d, p) ==
  /\ Deepest(table, d) # {}
  /\ \A r \in Deepest(table, d) : Same(r, d) /\ table[r] # p

(* cmd_init in d, under its basename or the slug it is given. *)
InitRepo(c, v, p, d, relocate) ==
  /\ d \in On[v] /\ ~Conflict(rows[v], d, p)
  /\ Give(c, v, "project", {<<p, d>>}, d, relocate)

(* get_or_create_project: the first root stays, unless it is to move. *)
RegisterProject(c) ==
  /\ cmd[c].at = "project"
  /\ \E p \in Project : <<p, cmd[c].dir>> \in cmd[c].todo /\
       root' = [root EXCEPT ![p] = IF @ = Nowhere \/ cmd[c].relocate THEN cmd[c].dir ELSE @]
  /\ cmd' = [cmd EXCEPT ![c].at = "register"]
  /\ UNCHANGED <<rows, given, atOnce>>

(* checkout add takes any path, for any machine: it need not exist there.  *)
AddCheckout(c, v, p, d) ==
  /\ root[p] # Nowhere /\ ~Conflict(rows[v], d, p)
  /\ Give(c, v, "register", {<<p, d>>}, d, FALSE)

(* plan_scan: repositories of known projects that no row names. *)
Planned(v) ==
  {<<Slug[d], d>> : d \in {e \in On[v] : /\ root[Slug[e]] # Nowhere
                                         /\ \A r \in Registered(rows[v]) : ~Same(r, e)}}

(* checkout scan --apply. *)
Scan(c, v) ==
  /\ Planned(v) # {}
  /\ Give(c, v, "register", Planned(v), Nowhere, FALSE)

(* resolve_project in d, when no checkout holds it. *)
Resolve(c, v, d) ==
  /\ d \in On[v] /\ Deepest(rows[v], d) = {}
  /\ Give(c, v, "roots", {}, d, FALSE)

(* A root found here that this machine has, too, becomes its checkout.     *)
Heal(c) ==
  /\ cmd[c].at = "roots"
  /\ \/ \E p \in AtRoot(cmd[c].dir) :
          /\ root[p] \in On[cmd[c].vm]
          /\ cmd' = [cmd EXCEPT ![c].at = "register", ![c].todo = {<<p, root[p]>>}]
     \/ /\ \A p \in AtRoot(cmd[c].dir) : root[p] \notin On[cmd[c].vm]
        /\ cmd' = [cmd EXCEPT ![c] = NoCommand]
  /\ UNCHANGED <<root, rows, given, atOnce>>

(* register_checkout: it reads the machine's rows for one that differs by  *)
(* its spelling only, and then writes that row or a new one.               *)
Match(c) ==
  /\ cmd[c].at = "register"
  /\ cmd' = [cmd EXCEPT ![c].at = "write", ![c].met = Registered(rows[cmd[c].vm])]
  /\ UNCHANGED <<root, rows, given, atOnce>>

Spellings(c, d) ==
  LET met == {e \in cmd[c].met : Same(e, d)} IN IF met = {} THEN {d} ELSE met

Upsert(c) ==
  LET v == cmd[c].vm
  IN /\ cmd[c].at = "write"
     /\ \E job \in cmd[c].todo : \E e \in Spellings(c, job[2]) :
          /\ rows' = [rows EXCEPT ![v][e] = job[1]]
          /\ atOnce' = IF \E r \in Registered(rows[v]) \ cmd[c].met : MatchKey[r] = MatchKey[e]
                        THEN atOnce \cup {<<v, MatchKey[e]>>} ELSE atOnce
          /\ cmd' = [cmd EXCEPT ![c] = IF cmd[c].todo = {job} THEN NoCommand
                       ELSE [cmd[c] EXCEPT !.at = "register", !.todo = cmd[c].todo \ {job}, !.met = {}]]
     /\ UNCHANGED <<root, given>>

(* The command dies, or its transaction fails; a heal's failure is ignored. *)
Dies(c) ==
  /\ cmd[c].at # "idle"
  /\ cmd' = [cmd EXCEPT ![c] = NoCommand]
  /\ UNCHANGED <<root, rows, given, atOnce>>

RegistryNext ==
  \E c \in Caller :
    \/ \E v \in Vm :
         \/ Scan(c, v)
         \/ \E d \in Dir : Resolve(c, v, d)
         \/ \E d \in Dir, p \in Project :
              AddCheckout(c, v, p, d) \/ \E b \in BOOLEAN : InitRepo(c, v, p, d, b)
    \/ RegisterProject(c) \/ Heal(c) \/ Match(c) \/ Upsert(c) \/ Dies(c)

RegistrySpec == RegistryInit /\ [][RegistryNext]_registryVars
-----------------------------------------------------------------------------
(* No command takes a directory from a project: if one changes hands, it   *)
(* was registered after the command had looked who owns it, or two         *)
(* commands had each given it a row of their own at the same time.         *)
MovedUnseen ==
  [][\A v \in Vm, d \in Dir :
       (rows[v][d] # Nowhere /\ rows'[v][d] # rows[v][d] /\ <<v, MatchKey[d]>> \notin atOnce) =>
         \E c \in Caller : /\ cmd[c].vm = v /\ cmd[c].at = "write" /\ cmd'[c] # cmd[c]
                         /\ cmd[c].seen[d] # rows[v][d]]_registryVars
=============================================================================
