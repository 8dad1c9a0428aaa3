--------------------------- MODULE MCBreadcrumbs ---------------------------
(* A file that says new, and one that says resolved, whose kind is not in  *)
(* the vocabulary yet.                                                     *)
EXTENDS Breadcrumbs

CONSTANTS fresh, resolved

Says == [i \in Id |-> IF i = fresh THEN "open" ELSE "done"]
=============================================================================
