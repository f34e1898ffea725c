----------------------------- MODULE ClaimLock -----------------------------
(***************************************************************************)
(* What a claim promises (claims.py, docs/fleet.md "Claims"): every task   *)
(* has at most one owner, ownership passes from one agent to another only  *)
(* through nobody, and only the owner is ever told that it holds the task. *)
(***************************************************************************)
EXTENDS Naturals

CONSTANTS
  Agents,     \* fleet agents
  Tasks,      \* backlog tasks
  NoAgent     \* the owner of an unclaimed task, not an agent

VARIABLES
  owner,      \* task -> the agent it belongs to, or NoAgent
  held        \* task -> the agents that were told they hold it

vars == <<owner, held>>

Init ==
  /\ owner = [t \in Tasks |-> NoAgent]
  /\ held = [t \in Tasks |-> {}]

\* An unclaimed task becomes a's, before a learns of it.
Take(a, t) ==
  /\ owner[t] = NoAgent
  /\ owner' = [owner EXCEPT ![t] = a]
  /\ UNCHANGED held

\* The owner is told that it holds the task.
Confirm(a, t) ==
  /\ owner[t] = a
  /\ held' = [held EXCEPT ![t] = @ \cup {a}]
  /\ UNCHANGED owner

\* a stops relying on t but its mark stays until Free.
Leave(a, t) ==
  /\ held' = [held EXCEPT ![t] = @ \ {a}]
  /\ UNCHANGED owner

\* A mark nobody relies on is removed.
Free(a, t) ==
  /\ owner[t] = a
  /\ a \notin held[t]
  /\ owner' = [owner EXCEPT ![t] = NoAgent]
  /\ UNCHANGED held

\* a dies: it relies on nothing any more, its marks stay.
Die(a) ==
  /\ held' = [t \in Tasks |-> held[t] \ {a}]
  /\ UNCHANGED owner

Next ==
  \E a \in Agents :
    \/ Die(a)
    \/ \E t \in Tasks : Take(a, t) \/ Confirm(a, t) \/ Leave(a, t) \/ Free(a, t)

Spec == Init /\ [][Next]_vars
=============================================================================
