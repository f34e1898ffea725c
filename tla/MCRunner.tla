------------------------------ MODULE MCRunner ------------------------------
(***************************************************************************)
(* A roadmap of two phases with a requirement each, and a task for each.   *)
(***************************************************************************)
EXTENDS Runner

Task(id, phase, reqs) ==
  [id |-> id, status |-> "ready", by |-> "owner", deps |-> {}, phase |-> phase,
   prio |-> 1, reqs |-> reqs]

MCBase == << Task("A", "P1", {"R1"}), Task("B", "P2", {"R2"}) >>

MCPhases == << [id |-> "P1", reqs |-> {"R1"}], [id |-> "P2", reqs |-> {"R2"}] >>
=============================================================================
