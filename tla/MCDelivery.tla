----------------------------- MODULE MCDelivery -----------------------------
(* Everything that must arrive in the end: messages at a session, wakes at *)
(* a channel.  The two share no state, and each behaviour is one part's;   *)
(* the other stays where it starts, where its fairness asks nothing of it. *)
(*                                                                         *)
(* The mailbox has two sessions, one with a prompt hook and a Stop hook,   *)
(* one that awaits, and two messages; the loop has two dependents, in      *)
(* two projects other than our item's: one has a wake channel, the other   *)
(* none, and there is no default target.                                   *)
EXTENDS MCMailbox, TriggerLoop

CONSTANTS far, mute, c1, c2

Channels == (Home :> c1) @@ (far :> c2) @@ (mute :> NoTarget)

DeliveryInit == Init /\ TriggerInit

DeliveryNext ==
  \/ TriggerInit /\ Next /\ UNCHANGED triggerVars
  \/ Init /\ TriggerNext /\ UNCHANGED vars

DeliverySpec ==
  /\ DeliveryInit /\ [][DeliveryNext]_<<vars, triggerVars>>
  /\ Fairness /\ TriggerFairness
=============================================================================
