------------------------------- MODULE Leases -------------------------------
(***************************************************************************)
(* The lease of one work item (schema 702, core/work_item/_native.py:      *)
(* claim, heartbeat, release, sweep), with the transactions that change    *)
(* it.                                                                     *)
(*                                                                         *)
(* now() in PostgreSQL is the instant the TRANSACTION started.  A command  *)
(* opens its transaction (its first query resolves the workspace), waits   *)
(* for the row lock, and only then reads and writes the lease with a now() *)
(* that may be long past.  tx[p] is the now() of p's open transaction, and *)
(* clock is the real time.  The part between taking the row lock and       *)
(* COMMIT excludes every other writer of the row, so it is one step.       *)
(***************************************************************************)
EXTENDS Integers

CONSTANTS Proc,      \* processes that run commands; each acts as one actor
          TTLs,      \* lease durations callers ask for
          MaxClock   \* bound on the clock

ASSUME ProcAssumption  == "none" \notin Proc
ASSUME TTLAssumption   == TTLs \subseteq Nat \ {0}
ASSUME ClockAssumption == MaxClock \in Nat

VARIABLES clock,  \* real time
          tx,     \* tx[p]: the now() of p's transaction, NoTx outside one
          lease,  \* the row of work_item_leases for the item, or NoLease
          event   \* what the last committed command did to the lease

leaseVars == <<clock, tx, lease, event>>

NoTx    == -1
NoLease == [holder |-> "none", expires |-> 0]
Events  == {"none", "granted", "extended", "ended", "swept"}

LeaseTypeOK ==
  /\ clock \in Nat
  /\ tx \in [Proc -> Nat \cup {NoTx}]
  /\ lease \in [holder : Proc, expires : Nat] \cup {NoLease}
  /\ event \in Events

LeaseInit ==
  /\ clock = 0
  /\ tx = [p \in Proc |-> NoTx]
  /\ lease = NoLease
  /\ event = "none"

-----------------------------------------------------------------------------
(* Helpers the commands share. *)

InTx(p) == tx[p] # NoTx
EndTx(p) == tx' = [tx EXCEPT ![p] = NoTx]

(* Mutant: a lease in its last instant counts as expired. *)
LiveForEarly(p) == lease # NoLease /\ lease.expires > tx[p] + 1

(* expires_at > now(), as the transaction of p sees it. *)
LiveFor(p) == lease # NoLease /\ lease.expires > tx[p]

(* The lease runs in real time. *)
Live == lease # NoLease /\ lease.expires > clock

Grant(p, ttl) == lease' = [holder |-> p, expires |-> tx[p] + ttl]
DropLease     == lease' = NoLease

-----------------------------------------------------------------------------
Tick ==
  /\ clock < MaxClock
  /\ clock' = clock + 1
  /\ UNCHANGED <<tx, lease, event>>

(* The first query of a command starts its transaction and fixes now(). *)
Begin(p) ==
  /\ ~InTx(p)
  /\ tx' = [tx EXCEPT ![p] = clock]
  /\ UNCHANGED <<clock, lease, event>>

(* A refusal, an error or the death of the process rolls back. *)
Abort(p) ==
  /\ InTx(p)
  /\ EndTx(p)
  /\ UNCHANGED <<clock, lease, event>>

(* claim_work_item: refused while a lease is live as of its own now();     *)
(* otherwise INSERT ... ON CONFLICT DO UPDATE.                             *)
ClaimLease(p, ttl) ==
  /\ InTx(p)
  /\ ~LiveFor(p)
  /\ Grant(p, ttl)
  /\ event' = "granted"
  /\ EndTx(p)
  /\ UNCHANGED clock

(* heartbeat_work_item: extends whatever lease there is, expired or not,   *)
(* whoever holds it.                                                       *)
HeartbeatLease(p, ttl) ==
  /\ InTx(p)
  /\ lease # NoLease
  /\ lease' = [lease EXCEPT !.expires = tx[p] + ttl]
  /\ event' = "extended"
  /\ EndTx(p)
  /\ UNCHANGED clock

(* release, close and delete drop the lease, whoever holds it. *)
EndLease(p) ==
  /\ InTx(p)
  /\ DropLease
  /\ event' = "ended"
  /\ EndTx(p)
  /\ UNCHANGED clock

(* sweep_expired_leases (work-item requeue-expired): deletes the lease if  *)
(* it is expired as of the sweep's now().  A sweep blocked by a heartbeat  *)
(* that has not committed re-reads the row once it has.                    *)
Sweep(p) ==
  /\ InTx(p)
  /\ lease' = IF lease # NoLease /\ lease.expires <= tx[p] THEN NoLease ELSE lease
  /\ event' = "swept"
  /\ EndTx(p)
  /\ UNCHANGED clock

LeaseNext ==
  \/ Tick
  \/ \E p \in Proc :
       \/ Begin(p)
       \/ Abort(p)
       \/ EndLease(p)
       \/ Sweep(p)
       \/ \E ttl \in TTLs : ClaimLease(p, ttl) \/ HeartbeatLease(p, ttl)

LeaseSpec == LeaseInit /\ [][LeaseNext]_leaseVars

-----------------------------------------------------------------------------
(* PROPERTIES *)

(* No transaction sees the future, and no lease outlives the longest TTL   *)
(* counted from the present: a now() taken before a wait never buys time.  *)
NowIsPast ==
  /\ \A p \in Proc : tx[p] <= clock
  /\ lease # NoLease => \E ttl \in TTLs : lease.expires <= clock + ttl

(* A lease that still runs in real time is never taken over or swept, even *)
(* by a command that opened its transaction long before it got the lock:   *)
(* it ends by its own expiry or by a release, a close or a delete.         *)
LiveLeaseStep == Live => lease'.holder = lease.holder \/ event' = "ended"
LiveLeaseKept == [][LiveLeaseStep]_leaseVars
=============================================================================
