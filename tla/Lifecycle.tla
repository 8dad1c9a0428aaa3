----------------------------- MODULE Lifecycle -----------------------------
(***************************************************************************)
(* The status vocabulary of a work item (core/lifecycle.py): the states,   *)
(* their terminal and open flags, the rank of the fail-safe lattice and    *)
(* the workflow transitions.  "none" stands for Python's None.             *)
(***************************************************************************)
EXTENDS Integers

CanonicalStates == {"open", "in_progress", "blocked", "deferred",
                    "in_review", "in_human_review", "done"}
LegacyStates    == {"claimed", "closed"}
AllValidStates  == CanonicalStates \cup LegacyStates

NoStatus == "none"

IsTerminal == {"done", "closed"}
IsOpen     == {"open", "in_progress", "claimed"}

(* Higher is more unfinished; an unknown status ranks below every other. *)
StatusRank(status) ==
  CASE status = "open"                      -> 8
    [] status \in {"in_progress", "blocked"} -> 7
    [] status = "in_review"                 -> 6
    [] status = "in_human_review"           -> 5
    [] status = "claimed"                   -> 4
    [] status = "deferred"                  -> 2
    [] status \in IsTerminal                -> 0
    [] OTHER                                -> -1

(* VALID_TRANSITIONS: the moves of the canonical workflow, by name. *)
ValidTransitions ==
  { [from |-> "open",            to |-> "in_progress",     name |-> "start"],
    [from |-> "deferred",        to |-> "in_progress",     name |-> "start"],
    [from |-> "in_progress",     to |-> "blocked",         name |-> "block"],
    [from |-> "blocked",         to |-> "in_progress",     name |-> "unblock"],
    [from |-> "open",            to |-> "deferred",        name |-> "defer"],
    [from |-> "in_progress",     to |-> "deferred",        name |-> "defer"],
    [from |-> "deferred",        to |-> "open",            name |-> "resume"],
    [from |-> "in_progress",     to |-> "in_review",       name |-> "submit_for_review"],
    [from |-> "in_review",       to |-> "in_human_review", name |-> "adversarial_pass"],
    [from |-> "in_review",       to |-> "in_progress",     name |-> "request_changes"],
    [from |-> "in_human_review", to |-> "done",            name |-> "accept"],
    [from |-> "in_human_review", to |-> "in_progress",     name |-> "reject"],
    [from |-> "done",            to |-> "open",            name |-> "reopen"],
    [from |-> "open",            to |-> "done",            name |-> "close_from_open"] }

(* A legacy source leaves as its canonical state; "closed" as a target is  *)
(* an alias of "done".                                                     *)
SourceAlias(status) ==
  CASE status = "closed"  -> "done"
    [] status = "claimed" -> "open"
    [] OTHER              -> status

TargetAlias(status) == IF status = "closed" THEN "done" ELSE status

(* The names transition_for may return: empty when it raises ValueError.   *)
(* A status that does not change needs no transition and is not looked up. *)
TransitionFor(old, new) ==
  { t.name : t \in {v \in ValidTransitions : /\ v.from = SourceAlias(old)
                                             /\ v.to = TargetAlias(new)} }

MayMove(old, new) == old = new \/ TransitionFor(old, new) # {}
=============================================================================
