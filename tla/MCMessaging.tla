---------------------------- MODULE MCMessaging ----------------------------
(* Mailbox, sessions and curation notices: each behaviour is one part's,   *)
(* as the three share no state.  The mailbox has one session s, hosted     *)
(* throughout, with a prompt hook and a Stop hook.  Sessions has one       *)
(* session, of two projects in workspaces of their own; Curation two runs  *)
(* over one project.                                                       *)
EXTENDS MCMailbox, Sessions, Curation

CONSTANTS p, q, v, w, x, y, inP, inQ, out, c1, c2, d, e

WorkspaceAt == [r \in Project |-> IF r = p THEN v ELSE w]
Discovered == [h \in Dir |-> IF h = inP THEN p ELSE IF h = inQ THEN q ELSE Unset]
Upwards == [h \in Dir |-> {h, out}]
NoHost == [h \in SessionKey |-> Unset]
LocalY == [h \in SessionKey |-> y]

Two == {c1, c2}
Digests == {d, e}
Symmetry == Permutations(Two) \cup Permutations(Digests)

MessagingInit == Init /\ SessionsInit /\ CurationInit

MessagingNext ==
  \/ SessionsInit /\ CurationInit /\ Next /\ UNCHANGED <<sessionVars, curationVars>>
  \/ Init /\ CurationInit /\ SessionsNext /\ UNCHANGED <<vars, curationVars>>
  \/ Init /\ SessionsInit /\ CurationNext /\ UNCHANGED <<vars, sessionVars>>

MessagingSpec == MessagingInit /\ [][MessagingNext]_<<vars, sessionVars, curationVars>>
=============================================================================
