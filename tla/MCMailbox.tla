----------------------------- MODULE MCMailbox -----------------------------
(* Small instances of Mailbox: a session with a prompt hook and a Stop     *)
(* hook, one that awaits, and up to three messages.                        *)
EXTENDS Mailbox, TLC

CONSTANTS s, t, hook, stop, waiter

OneMsg   == {1}
TwoMsgs  == {1, 2}
ThreeMsgs == {1, 2, 3}
OneSession == {s}
TwoSessions == {s, t}

AllToS   == [m \in Msg |-> s]
Mixed    == [m \in Msg |-> IF m = 1 THEN s ELSE Inbox]
First    == {1}
NoMsg    == {}

Hooks    == {hook, stop}
Readers3 == {hook, stop, waiter}
OfReader == [p \in Reader |-> IF p = waiter THEN t ELSE s]
KindOf   == [p \in Reader |-> IF p = hook THEN "prompt"
                              ELSE IF p = stop THEN "stop" ELSE "await"]
=============================================================================
