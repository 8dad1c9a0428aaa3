------------------------------ MODULE NameTable ------------------------------
(* What a memory tier promises: each name stands for at most one memory; a *)
(* name is given a memory newer than all others, alone or in place of one  *)
(* other name, or it is taken away.  Nothing once replaced comes back.     *)
EXTENDS Naturals

CONSTANTS Slot,    \* a name in a tier
          Nobody   \* no memory

VARIABLES head,    \* [Slot -> the memory it stands for]
          newest   \* the newest memory ever

Init == head = [s \in Slot |-> Nobody] /\ newest = 0

Give(s) ==
  /\ newest' = newest + 1
  /\ head' = [head EXCEPT ![s] = newest + 1]

Replace(s, other) ==
  /\ s # other /\ head[s] = Nobody /\ head[other] # Nobody
  /\ newest' = newest + 1
  /\ head' = [head EXCEPT ![s] = newest + 1, ![other] = Nobody]

Take(s) ==
  /\ head[s] # Nobody /\ UNCHANGED newest
  /\ head' = [head EXCEPT ![s] = Nobody]

Next ==
  \/ \E s \in Slot : Give(s) \/ Take(s)
  \/ \E s, other \in Slot : Replace(s, other)

Spec == Init /\ [][Next]_<<head, newest>>
=============================================================================
