------------------------------ MODULE MCFleet ------------------------------
(***************************************************************************)
(* Backlogs for TLC: three tasks in which C waits for both A and B, and a  *)
(* chain of two for the run that starts the fleet twice.                   *)
(***************************************************************************)
EXTENDS Fleet, TLC

Task(id, deps) ==
  [id |-> id, status |-> "ready", by |-> "owner", deps |-> deps, phase |-> "",
   prio |-> 1, reqs |-> {}]

MCBase == << Task("A", {}), Task("B", {}), Task("C", {"A", "B"}) >>

MCChain == << Task("A", {}), Task("B", {"A"}) >>

AgentSymmetry == Permutations(Agents)
=============================================================================
