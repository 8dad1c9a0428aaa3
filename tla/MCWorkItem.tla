----------------------------- MODULE MCWorkItem -----------------------------
(* Small instances of WorkItem: two agents of different vendors, one that  *)
(* reports no model, and a human.                                          *)
EXTENDS WorkItem, TLC

CONSTANTS ada, bob, uma, hal, A, B, U

One   == {ada}
Two   == {ada, bob}
Three == {ada, bob, hal}
Mixed == {ada, uma}

Family == (ada :> A) @@ (bob :> B) @@ (uma :> U) @@ (hal :> U)

LineageOf2 == [p \in Two |-> Family[p]]
LineageOf3 == [p \in Three |-> Family[p]]
LineageOfMixed == [p \in Mixed |-> Family[p]]

NoOne == {}
Hal == {hal}

OneContent  == {"first"}
TwoContents == {"first", "second"}

ReviewRound == {"open", "in_progress", "in_review"}
Reopening   == {"open", "in_progress", "done"}
Finishing   == {"in_progress", "closed"}
Completing  == {"in_progress", "in_human_review", "closed"}

NoDiag  == {{}}
FixDiag == {{}, {"fix"}}

NoForce   == {FALSE}
AnyForce  == BOOLEAN

Reviewing == {"update", "close", "review"}
Leasing   == {"update", "close", "lease", "delete"}
AllCommands == {"update", "close", "attest", "review", "lease", "delete"}
ReviewOrUpdate == {"update", "review"}

NoTTL == {}
TTL1  == {1}

NoLegacy == {}
LegacySet ==
  [status : {"claimed", "in_review"}, content : {"second"},
   diag : {{"review_notes"}}]
=============================================================================
