----------------------------- MODULE MCDatabase -----------------------------
(* What a database is made of besides the commands on its items: its       *)
(* schema, the items imported from files, and another project's items.     *)
(* They share no state: each behaviour is one part's, the others staying   *)
(* where they start, so the run explores the sum of their states.          *)
(*                                                                         *)
(* Migrations runs over the schema's own files: an install of the release  *)
(* that ended with the search view, and of the one that ends with the      *)
(* ready view, by two migrators.                                           *)
EXTENDS Migrations, MCBreadcrumbs, Federation, TLC

CONSTANTS a, b, e1, e2

S == INSTANCE Schema

Sql         == S!SqlFiles
SqlTracking == S!Tracking

ASSUME TrackingFile == Sql[TrackedBy] = S!Tracking600

Two == {a, b}
TwoEntities == {e1, e2}
Symmetry == Permutations(Two) \cup Permutations(TwoEntities)

DatabaseInit == Init /\ BreadcrumbInit /\ FederationInit

DatabaseNext ==
  \/ BreadcrumbInit /\ FederationInit /\ Next /\ UNCHANGED <<breadcrumbVars, federationVars>>
  \/ Init /\ FederationInit /\ BreadcrumbNext /\ UNCHANGED <<vars, federationVars>>
  \/ Init /\ BreadcrumbInit /\ FederationNext /\ UNCHANGED <<vars, breadcrumbVars>>

DatabaseSpec == DatabaseInit /\ [][DatabaseNext]_<<vars, breadcrumbVars, federationVars>>
=============================================================================
