------------------------- MODULE MCReviewDelegation -------------------------
(* A small instance of ReviewDelegation: one agent, whose own vendor is    *)
(* among the models it can ask, and two contents whose prompts differ.     *)
EXTENDS ReviewDelegation, TLC

CONSTANTS ada, A, B, U, job1, job2

One == {ada}
LineageOf == [p \in One |-> A]
NoOne == {}

TwoContents == {"title1", "title2"}
ShownOf == ("title1" :> "prompt1") @@ ("title2" :> "prompt2")

Asks       == {"same vendor", "other vendor"}
ReviewerOf == ("same vendor" :> A) @@ ("other vendor" :> B)

InReview == {"in_review"}
NoDiag   == {{}}
NoForce  == {FALSE}
NoTTL    == {}
NoLegacy == {}
UpdateAndReview == {"update", "review"}
Jobs2 == {job1, job2}
Alike == Permutations(Jobs2)
=============================================================================
