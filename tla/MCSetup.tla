------------------------------ MODULE MCSetup ------------------------------
(* Setting a machine up: what the installer puts into a harness, and which *)
(* directory is which project.  They share no state: each behaviour is one *)
(* part's, the other staying where it starts.                              *)
(*                                                                         *)
(* The harness has a skill and a hook that the second release changes, an  *)
(* agent that it drops and a variable that it retires.  There are two      *)
(* projects, and a repository inside a directory that may be one too; the  *)
(* Windows machine may spell the repository in two ways.                   *)
EXTENDS Harness, Registry

CONSTANTS p, q, unix, windows, outer, inner, INNER

Old == [i \in Tracked |-> "old"]
New == [i \in Tracked |-> IF i = "reviewer" THEN None ELSE "new"]
TwoReleases == <<[text |-> Old, retired |-> {}], [text |-> New, retired |-> {"retired"}]>>

Suite(actor, retired) ==
  [k \in Key |-> IF k = "actor" THEN actor ELSE retired]
SomeEnvs == {Suite("x", "x"), Suite(None, None)}

Letters == [d \in Dir |-> IF d = outer THEN "outer" ELSE "inner"]
Below == {<<inner, outer>>, <<INNER, outer>>}
DirsOf == [v \in Vm |-> IF v = unix THEN {outer, inner} ELSE {inner, INNER}]
Basename == [d \in Dir |-> IF d = outer THEN p ELSE q]

(* The user edits the files of codex twice, those of the others once. *)
FewEdits == harness # "codex" => edits' <= 1

SetupInit == HarnessInit /\ RegistryInit

(* The registry once, not again for each harness. *)
SetupNext ==
  \/ RegistryInit /\ HarnessNext /\ UNCHANGED registryVars
  \/ HarnessInit /\ harness = "claude" /\ RegistryNext /\ UNCHANGED harnessVars

SetupSpec == SetupInit /\ [][SetupNext]_<<harnessVars, registryVars>>
=============================================================================
