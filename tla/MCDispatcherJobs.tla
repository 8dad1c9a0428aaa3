-------------------------- MODULE MCDispatcherJobs --------------------------
(* A small instance of DispatcherJobs: two processes of one VM and two     *)
(* requests, of which one may expire.  While there is one request, two     *)
(* things may go wrong (faults, expiry); with two in the mailbox, one.  No *)
(* fault is ever bound to happen, and none stops what follows it.          *)
EXTENDS DispatcherJobs

CONSTANTS d1, d2

TwoDisp  == {d1, d2}
OneReq   == {1}
TwoReqs  == {1, 2}
Outcomes == {"verdict", "interrupted"}

Upsets == faults + Cardinality(expired)

FewUpsets == Upsets' <= IF request'[2] = "unsent" THEN 2 ELSE 1
=============================================================================
