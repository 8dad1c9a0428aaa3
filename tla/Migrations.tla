----------------------------- MODULE Migrations -----------------------------
(* agent-notes-migrate over one database: any number of migrators run the  *)
(* files of their release in order, each file in a transaction of its own, *)
(* asking before it whether it is recorded as applied and recording it     *)
(* after.  A migrator can stop between any two of these steps; a question  *)
(* or a record that fails is swallowed (a slip); an operator can run one   *)
(* file by hand.                                                           *)
EXTENDS Naturals, Sequences

CONSTANTS
  Migrator,   \* processes that can be asked to migrate
  Effect,     \* the effect of each file, in the order of their names
  TrackedBy,  \* the file that creates the table of applied files
  Tracks,     \* that table
  Releases,   \* how many files the installed releases ship
  MaxUpsets   \* bound: slips, files run by hand, runs started beside a run

Files == DOMAIN Effect
Shared == UNION {Effect[f].defines : f \in Files}
Nobody == 0

ASSUME MigrationsAssumption ==
  /\ Len(Effect) \in Nat /\ Files = 1..Len(Effect)
  /\ TrackedBy \in Files
  /\ Releases \subseteq Files
  /\ MaxUpsets \in Nat

(* The effects write relations by name and define nothing before the files *)
(* are tracked; only the tracking file creates the table.                  *)
ASSUME EffectAssumption ==
  /\ \A f \in Files : f < TrackedBy => Effect[f].defines = {}
  /\ \A f \in Files : Tracks \in Effect[f].creates <=> f = TrackedBy
  /\ \A f \in Files : Tracks \notin Effect[f].drops

(* Files that can run after g last ran and before f does: those between    *)
(* them, and for a tracked g the untracked ones, which a later pass runs   *)
(* again.                                                                  *)
Between(g, f) == {h \in Files : h <= f /\ (h > g \/ (h < TrackedBy /\ TrackedBy <= g))}

Survives(n, g, f) == \A h \in Between(g, f) : n \in Effect[h].drops => n \in Effect[h].creates

(* What a file needs an earlier file creates, and no file between drops.   *)
ASSUME NeedsAssumption ==
  \A f \in Files : \A n \in Effect[f].needs :
    \E g \in Files : g < f /\ n \in Effect[g].creates /\ Survives(n, g, f)

VARIABLES
  objects,    \* relations and columns of the database
  definer,    \* whose version of each shared object is in force
  recorded,   \* rows of schema_migrations
  pc,         \* where each migrator is
  at,         \* the file it has come to
  release,    \* the files of its release are 1..release
  ran,        \* history: files that committed
  upsets      \* history: slips, files run by hand, runs beside another

vars == <<objects, definer, recorded, pc, at, release, ran, upsets>>

Init ==
  /\ objects = {} /\ definer = [o \in Shared |-> Nobody]
  /\ recorded = {} /\ ran = {}
  /\ pc = [m \in Migrator |-> "idle"]
  /\ at = [m \in Migrator |-> 1]
  /\ release = [m \in Migrator |-> 0]
  /\ upsets = 0

Goto(m, step) == pc' = [pc EXCEPT ![m] = step]

Upset == upsets < MaxUpsets /\ upsets' = upsets + 1

(* One committed file. *)
Apply(f) ==
  /\ objects' = (objects \ Effect[f].drops) \cup Effect[f].creates
  /\ definer' = [o \in Shared |-> IF o \in Effect[f].defines THEN f ELSE definer[o]]
  /\ ran' = ran \cup {f}
-----------------------------------------------------------------------------
(* --all *)
Begin(m, r) ==
  /\ pc[m] = "idle"
  /\ Goto(m, "check")
  /\ at' = [at EXCEPT ![m] = 1]
  /\ release' = [release EXCEPT ![m] = r]
  /\ IF \E n \in Migrator : pc[n] # "idle" THEN Upset ELSE UNCHANGED upsets
  /\ UNCHANGED <<objects, definer, recorded, ran>>

(* A lookup that fails, whatever the reason, reads as "not applied". *)
Listed(f) == Tracks \in objects /\ f \in recorded

(* Mutant: a lookup that fails reads as "applied". *)
IsAppliedUnsure(m) ==
  /\ pc[m] = "check" /\ at[m] <= release[m]
  /\ \/ /\ \/ Listed(at[m]) /\ UNCHANGED upsets
           \/ ~Listed(at[m]) /\ Upset
        /\ at' = [at EXCEPT ![m] = @ + 1]
        /\ UNCHANGED pc
     \/ /\ ~Listed(at[m]) /\ UNCHANGED upsets
        /\ Goto(m, "run") /\ UNCHANGED at
  /\ UNCHANGED <<objects, definer, recorded, release, ran>>

(* Mutant: a file is recorded before it has run. *)
IsAppliedEager(m) ==
  /\ pc[m] = "check" /\ at[m] <= release[m]
  /\ \/ /\ Listed(at[m])
        /\ at' = [at EXCEPT ![m] = @ + 1]
        /\ UNCHANGED <<pc, recorded>>
     \/ /\ ~Listed(at[m])
        /\ recorded' = IF Tracks \in objects THEN recorded \cup {at[m]} ELSE recorded
        /\ Goto(m, "run") /\ UNCHANGED at
  /\ UNCHANGED <<objects, definer, release, ran, upsets>>

IsApplied(m) ==
  /\ pc[m] = "check" /\ at[m] <= release[m]
  /\ \/ /\ Listed(at[m]) /\ UNCHANGED upsets
        /\ at' = [at EXCEPT ![m] = @ + 1]
        /\ UNCHANGED pc
     \/ /\ \/ ~Listed(at[m]) /\ UNCHANGED upsets
           \/ Listed(at[m]) /\ Upset
        /\ Goto(m, "run") /\ UNCHANGED at
  /\ UNCHANGED <<objects, definer, recorded, release, ran>>

RunFile(m) ==
  /\ pc[m] = "run" /\ Effect[at[m]].needs \subseteq objects
  /\ Apply(at[m])
  /\ Goto(m, "record")
  /\ UNCHANGED <<recorded, at, release, upsets>>

(* A file that raises rolls back and ends the run. *)
RunFails(m) ==
  /\ pc[m] = "run" /\ ~(Effect[at[m]].needs \subseteq objects)
  /\ Goto(m, "idle")
  /\ UNCHANGED <<objects, definer, recorded, at, release, ran, upsets>>

(* Mutant: the files are recorded when the run has come to its end. *)
RecordAppliedAtEnd(m) ==
  /\ pc[m] = "record"
  /\ recorded' = IF at[m] = release[m] THEN recorded \cup 1..at[m] ELSE recorded
  /\ Goto(m, "check")
  /\ at' = [at EXCEPT ![m] = @ + 1]
  /\ UNCHANGED <<objects, definer, release, ran, upsets>>

(* Best-effort: without the table, or when the insert fails, nothing is    *)
(* recorded and the run goes on.                                           *)
RecordApplied(m) ==
  /\ pc[m] = "record"
  /\ \/ /\ recorded' = IF Tracks \in objects THEN recorded \cup {at[m]} ELSE recorded
        /\ UNCHANGED upsets
     \/ Tracks \in objects /\ Upset /\ UNCHANGED recorded
  /\ Goto(m, "check")
  /\ at' = [at EXCEPT ![m] = @ + 1]
  /\ UNCHANGED <<objects, definer, release, ran>>

Done(m) == pc[m] = "check" /\ at[m] > release[m]

Finish(m) ==
  /\ Done(m) /\ Goto(m, "idle")
  /\ UNCHANGED <<objects, definer, recorded, at, release, ran, upsets>>

(* The process dies, or its connection does, between two transactions. *)
Crash(m) ==
  /\ pc[m] # "idle" /\ Goto(m, "idle")
  /\ UNCHANGED <<objects, definer, recorded, at, release, ran, upsets>>

(* --file: runs the file, looks nothing up and records nothing. *)
RunSingle(f) ==
  /\ Upset
  /\ Effect[f].needs \subseteq objects
  /\ Apply(f)
  /\ UNCHANGED <<recorded, pc, at, release>>

Next ==
  \/ \E m \in Migrator :
       \/ \E r \in Releases : Begin(m, r)
       \/ IsApplied(m) \/ RunFile(m) \/ RunFails(m) \/ RecordApplied(m)
       \/ Finish(m) \/ Crash(m)
  \/ \E f \in Files : RunSingle(f)

Spec == Init /\ [][Next]_vars
-----------------------------------------------------------------------------
(* PROPERTIES *)

TypeOK ==
  /\ definer \in [Shared -> Files \cup {Nobody}]
  /\ recorded \subseteq ran /\ ran \subseteq Files
  /\ pc \in [Migrator -> {"idle", "check", "run", "record"}]
  /\ at \in [Migrator -> 1..(Len(Effect) + 1)]
  /\ release \in [Migrator -> Files \cup {0}]
  /\ \A m \in Migrator : pc[m] \in {"run", "record"} => at[m] <= release[m]
  /\ upsets \in 0..MaxUpsets

(* A migrator that reports success leaves no file of its release behind,   *)
(* whatever slipped, died or ran beside it.                                *)
SuccessMeansAllRan == \A m \in Migrator : Done(m) => 1..release[m] \subseteq ran

(* When migrators take turns and no statement slips, every shared view and *)
(* vocabulary row is the newest version that ever ran, at every moment and *)
(* after any number of deaths, restarts and upgrades.                      *)
Newest(o) == {f \in ran : o \in Effect[f].defines /\
                          \A g \in ran : o \in Effect[g].defines => g <= f}

ViewsCurrent ==
  upsets = 0 =>
    \A o \in Shared : definer[o] # Nobody => definer[o] \in Newest(o)

(* Under the same conditions no file ever finds a relation it needs gone:  *)
(* the run after any interruption gets past where it stopped.              *)
NeverStuck ==
  upsets = 0 =>
    \A m \in Migrator : pc[m] = "run" => Effect[at[m]].needs \subseteq objects
=============================================================================
