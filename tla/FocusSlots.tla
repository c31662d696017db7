----------------------------- MODULE FocusSlots -----------------------------
(***************************************************************************)
(* What the commitment engine promises a user: a bounded number of focus   *)
(* slots, each spent on a different problem, and a lock on each slot that  *)
(* has to run out before the slot can be renewed or given back.  Every     *)
(* operation is atomic here.                                               *)
(***************************************************************************)
EXTENDS Integers, FiniteSets

CONSTANTS Users, Problems, MaxActive, LockPeriod

VARIABLES
  slots,  \* the problems on which each user has spent a slot
  lock,   \* when each spent slot unlocks, 0 for a slot that is not spent
  now

vars == <<slots, lock, now>>

Init ==
  /\ slots = [u \in Users |-> {}]
  /\ lock = [u \in Users |-> [p \in Problems |-> 0]]
  /\ now = 0

\* Spending a slot locks it for one period.
Spend(u, p) ==
  /\ p \notin slots[u]
  /\ Cardinality(slots[u]) < MaxActive
  /\ slots' = [slots EXCEPT ![u] = @ \cup {p}]
  /\ lock' = [lock EXCEPT ![u][p] = now + LockPeriod]
  /\ UNCHANGED now

\* Renewing takes effect with some delay: the new lock counts from a moment at
\* which the old one had run out.
Renew(u, p) ==
  /\ p \in slots[u]
  /\ \E since \in lock[u][p] .. now :
       lock' = [lock EXCEPT ![u][p] = since + LockPeriod]
  /\ UNCHANGED <<slots, now>>

\* Giving a slot back, by resolving or abandoning, needs an expired lock.
Release(u, p) ==
  /\ p \in slots[u]
  /\ now >= lock[u][p]
  /\ slots' = [slots EXCEPT ![u] = @ \ {p}]
  /\ lock' = [lock EXCEPT ![u][p] = 0]
  /\ UNCHANGED now

Tick == now' = now + 1 /\ UNCHANGED <<slots, lock>>

Next == Tick \/ \E u \in Users, p \in Problems : Spend(u, p) \/ Renew(u, p) \/ Release(u, p)

Spec == Init /\ [][Next]_vars
=============================================================================
