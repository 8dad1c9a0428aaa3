----------------------------- MODULE Breadcrumbs -----------------------------
(* Work items that are kept as files, too, and named in commits: breadcrumb *)
(* sync imports a directory and may prune, breadcrumb reconcile closes what *)
(* a commit says is resolved.  Both read, and write in later transactions,  *)
(* while people and agents move the same items.                             *)
EXTENDS Lifecycle

CONSTANTS
  Id,
  FileSays,   \* [Id -> its file's status as mapped, Broken or Missing]
  Vocabulary,  \* files whose kind, status and severity the workspace knows
  Broken, Missing, Gone,
  Job,   \* syncs and reconciles at a time
  HandMoves,   \* statuses that the commands of others give an item
  MaxRuns      \* bound: how many syncs and reconciles are started

ASSUME BreadcrumbsAssumption ==
  /\ Broken # Missing /\ Gone \notin AllValidStates
  /\ FileSays \in [Id -> CanonicalStates \cup {Broken, Missing}] /\ Vocabulary \subseteq Id
  /\ HandMoves \subseteq CanonicalStates /\ MaxRuns \in Nat

VARIABLES
  item,    \* [Id -> status, or Gone]
  noted,   \* items whose external_refs name the resolving commit
  commits, \* items that a commit in reach says are resolved
  known,   \* files whose values are in the vocabulary
  run,     \* [Job -> where it is]
  runs     \* runs started

breadcrumbVars == <<item, noted, commits, known, run, runs>>

Stopped == [at |-> "idle", todo |-> {}, now |-> Missing, read |-> Gone, seen |-> {},
         prune |-> FALSE]

BreadcrumbInit ==
  /\ item = [i \in Id |-> Gone] /\ noted = {} /\ commits = {} /\ known = Vocabulary
  /\ run = [c \in Job |-> Stopped] /\ runs = 0

Filed == {i \in Id : item[i] # Gone}
InReview == {"in_review", "in_human_review"}
Advanced == {"in_human_review", "done", "closed"}

(* A move that approves review work. *)
Gated(old, new) == old \in InReview /\ new \in Advanced /\ new # old
-----------------------------------------------------------------------------
(* The other commands, whose gate and leases are WorkItem's: a status is    *)
(* what it maps to, open unless it was given; --force skips the transition  *)
(* check, so an update may be any move; a delete takes the references along. *)
FileByhand(i) ==
  /\ item[i] = Gone
  /\ item' = [item EXCEPT ![i] = "open"] /\ UNCHANGED noted

UpdateByhand(i) ==
  /\ item[i] # Gone
  /\ \E new \in HandMoves \ {item[i]} : item' = [item EXCEPT ![i] = new]
  /\ UNCHANGED noted

DeleteByhand(i) ==
  /\ item[i] # Gone
  /\ item' = [item EXCEPT ![i] = Gone] /\ noted' = noted \ {i}

Byhand(i) ==
  /\ FileByhand(i) \/ UpdateByhand(i) \/ DeleteByhand(i)
  /\ UNCHANGED <<commits, known, run, runs>>

CommitLands(i) ==
  /\ commits' = commits \cup {i}
  /\ UNCHANGED <<item, noted, known, run, runs>>
-----------------------------------------------------------------------------
Launch(c, at, todo, prune) ==
  /\ run[c].at = "idle" /\ runs < MaxRuns
  /\ run' = [run EXCEPT ![c] = [Stopped EXCEPT !.at = at, !.todo = todo, !.prune = prune]]
  /\ runs' = runs + 1
  /\ UNCHANGED <<item, noted, commits>>

(* parse_breadcrumb_file: what is not a breadcrumb, or no YAML, is skipped. *)
Parsed == {i \in Id : FileSays[i] \notin {Broken, Missing}}

(* --create-missing-vocab adds what the files use before they are imported. *)
Sync(c, prune, create) ==
  /\ Launch(c, "files", Parsed, prune)
  /\ known' = IF create THEN known \cup Parsed ELSE known

Look(c, i) ==
  /\ run[c].at = "files" /\ i \in run[c].todo
  /\ run' = [run EXCEPT ![c].at = "write", ![c].now = i, ![c].read = item[i]]
  /\ UNCHANGED <<item, noted, commits, known, runs>>

(* Mutant: whatever the item's status was. *)
NewStatusAlways(read, status, current) == status

(* A sync leaves the status of an item that it read as closed or deferred. *)
NewStatus(read, status, current) == IF read \in {"closed", "deferred"} THEN current ELSE status

(* The file's item is written, or an error noted and the file's item not   *)
(* counted as seen.  An item that another run filed meanwhile violates the *)
(* unique constraint, which is no ValueError, and ends the run.            *)
Import(c) ==
  LET i == run[c].now
      fits == i \in known
      new == NewStatus(run[c].read, FileSays[i], item[i])
      done == [run[c] EXCEPT !.at = "files", !.todo = @ \ {i}, !.now = Missing, !.read = Gone]
      imported == [done EXCEPT !.seen = @ \cup {i}]
      refused == UNCHANGED item /\ run' = [run EXCEPT ![c] = done]
  IN /\ run[c].at = "write"
     /\ \/ fits /\ run[c].read = Gone /\ item[i] = Gone
             /\ item' = [item EXCEPT ![i] = FileSays[i]] /\ run' = [run EXCEPT ![c] = imported]
        \/ fits /\ run[c].read = Gone /\ item[i] # Gone
             /\ UNCHANGED item /\ run' = [run EXCEPT ![c] = Stopped]
        \/ /\ fits /\ run[c].read # Gone /\ item[i] # Gone /\ MayMove(item[i], new)
           /\ item' = [item EXCEPT ![i] = new] /\ run' = [run EXCEPT ![c] = imported]
        \/ /\ run[c].read # Gone /\ (item[i] = Gone \/ ~MayMove(item[i], new) \/ Gated(item[i], new))
           /\ refused
        \/ ~fits /\ refused
     /\ UNCHANGED <<noted, commits, known, runs>>

EndSync(c) ==
  /\ run[c].at = "files" /\ run[c].todo = {}
  /\ run' = [run EXCEPT ![c] = IF @.prune THEN [@ EXCEPT !.at = "prune", !.todo = Filed \ run[c].seen] ELSE Stopped]
  /\ UNCHANGED <<item, noted, commits, known, runs>>

PruneOne(c, i) ==
  /\ run[c].at = "prune" /\ i \in run[c].todo
  /\ item' = [item EXCEPT ![i] = Gone] /\ noted' = noted \ {i}
  /\ run' = [run EXCEPT ![c].todo = @ \ {i}]
  /\ UNCHANGED <<commits, known, runs>>
-----------------------------------------------------------------------------
(* reconcile --apply: the open items, of which some commit says that they  *)
(* are resolved; its note keeps what it read of their references.          *)
Reconcile(c) ==
  /\ Launch(c, "apply", {i \in Filed : item[i] \notin IsTerminal} \cap commits, FALSE)
  /\ UNCHANGED known

(* update_work_item with force: no transition is refused, but approval     *)
(* may not come with an edit, and the gate may refuse it.                  *)
CloseOne(c, i) ==
  /\ run[c].at = "apply" /\ i \in run[c].todo
  /\ \/ /\ item[i] # Gone /\ (item[i] \in InReview => i \in noted)
        /\ item' = [item EXCEPT ![i] = "closed"] /\ noted' = noted \cup {i}
     \/ item[i] \in InReview \cup {Gone} /\ UNCHANGED <<item, noted>>
  /\ run' = [run EXCEPT ![c].todo = @ \ {i}]
  /\ UNCHANGED <<commits, known, runs>>

(* A run ends, or dies anywhere. *)
Stops(c) ==
  /\ run[c].at # "idle"
  /\ run' = [run EXCEPT ![c] = Stopped]
  /\ UNCHANGED <<item, noted, commits, known, runs>>

BreadcrumbNext ==
  \/ \E i \in Id : Byhand(i) \/ CommitLands(i)
  \/ \E c \in Job :
       \/ \E prune, create \in BOOLEAN : Sync(c, prune, create)
       \/ Import(c) \/ EndSync(c) \/ Reconcile(c) \/ Stops(c)
       \/ \E i \in Id : Look(c, i) \/ PruneOne(c, i) \/ CloseOne(c, i)

BreadcrumbSpec == BreadcrumbInit /\ [][BreadcrumbNext]_breadcrumbVars
-----------------------------------------------------------------------------
(* An item that a sync saw closed or deferred keeps its status through the *)
(* import of its file, whoever moves it meanwhile.                         *)
DismissedStays ==
  [][\A c \in Job, i \in Id :
       (run[c].at = "write" /\ run[c].now = i /\ run[c].read \in {"closed", "deferred"} /\ run' # run
         /\ run'[c].at = "files") => item'[i] = item[i]]_breadcrumbVars

(* A sync leaves what has been completed completed. *)
SyncKeepsCompleted ==
  [][\A c \in Job, i \in Id :
       (run[c].at = "write" /\ run'[c].at = "files" /\ item[i] \in IsTerminal) =>
         item'[i] \in IsTerminal]_breadcrumbVars

(* A prune deletes no item whose file is in the directory. *)
PruneKeepsListed ==
  [][\A c \in Job, i \in Id :
       (run[c].at = "prune" /\ run'[c].todo # run[c].todo /\ item[i] # Gone /\ item'[i] = Gone) =>
         FileSays[i] = Missing]_breadcrumbVars
=============================================================================
