----------------------------- MODULE LaggingCopy -----------------------------
(* What the cache of another project's work item promises: it shows a      *)
(* state the item really was in, and never goes back to an earlier one.    *)
EXTENDS Naturals, Sequences

CONSTANT Nothing  \* shown before the item is known

VARIABLES past,   \* the states the item has been in, oldest first
          seen,   \* how far along them the copy is
          copy    \* what it shows

Init == past = <<Nothing>> /\ seen = 1 /\ copy = Nothing

Change ==
  /\ Len(past') = Len(past) + 1
  /\ SubSeq(past', 1, Len(past)) = past
  /\ UNCHANGED <<seen, copy>>

CatchUp ==
  /\ seen' \in seen..Len(past)
  /\ copy' = past[seen']
  /\ UNCHANGED past

Next == Change \/ CatchUp

Spec == Init /\ [][Next]_<<past, seen, copy>>
=============================================================================
