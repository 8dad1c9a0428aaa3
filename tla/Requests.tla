------------------------------ MODULE Requests ------------------------------
(***************************************************************************)
(* What the request mailbox promises a requester (docs/dispatcher.md       *)
(* "Jobs", core/messaging.py answer_request): a request that was sent is   *)
(* claimed at most once, and only a claimed request is answered, at most   *)
(* once.  An expired one may be pruned at any time.                        *)
(***************************************************************************)
EXTENDS Naturals, Sequences

CONSTANTS Req,    \* requests, numbered as BIGSERIAL numbers their rows
          Codes   \* what a reply may say

ASSUME ReqAssumption == Req \subseteq Nat

VARIABLES request, \* request[r]: where the row of r is
          replies  \* replies[r]: the replies to r, oldest first

promised == <<request, replies>>

RequestStates == {"unsent", "queued", "claimed", "gone"}

PromiseInit ==
  /\ request = [r \in Req |-> "unsent"]
  /\ replies = [r \in Req |-> <<>>]

Submitted(r) ==
  /\ request[r] = "unsent"
  /\ request' = [request EXCEPT ![r] = "queued"]
  /\ UNCHANGED replies

(* A dispatcher claims several requests in one statement. *)
Claimed(some) ==
  /\ \A r \in some : request[r] = "queued"
  /\ request' = [r \in Req |-> IF r \in some THEN "claimed" ELSE request[r]]
  /\ UNCHANGED replies

Answered(r, code) ==
  /\ request[r] = "claimed"
  /\ replies[r] = <<>>
  /\ replies' = [replies EXCEPT ![r] = <<code>>]
  /\ UNCHANGED request

Pruned(r) ==
  /\ request[r] \in {"queued", "claimed"}
  /\ request' = [request EXCEPT ![r] = "gone"]
  /\ UNCHANGED replies

PromiseNext ==
  \/ \E r \in Req : \/ Submitted(r)
                    \/ Pruned(r)
                    \/ \E code \in Codes : Answered(r, code)
  \/ \E some \in SUBSET Req : Claimed(some)

PromiseSpec == PromiseInit /\ [][PromiseNext]_promised
=============================================================================
