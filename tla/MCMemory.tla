------------------------------ MODULE MCMemory ------------------------------
EXTENDS Memory, TLC

CONSTANTS w1, w2, n1, n2, t1, t2, k

MCWriter == {w1, w2}
MCName == {n1, n2}
MCTopic == {t1, t2}
MCAttribute == {k}

(* No tier is above the last, so little is asked there; a reflection is    *)
(* not gated, so its answer does not matter, and comes in the first tier.  *)
MCAsks ==
  {a \in Ask : /\ a.choice.kind = "supersedes" => a.choice.name # a.slot[2]
               /\ a.slot[1] = Tiers => a.choice.kind \in {"none", "supersedes"}
               /\ a.type = "reflection" => a.choice.kind = "none" /\ a.slot[1] = 1}

Symmetry == Permutations(MCWriter) \cup Permutations(MCName) \cup Permutations(MCTopic)
=============================================================================
