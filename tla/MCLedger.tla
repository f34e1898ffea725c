------------------------------ MODULE MCLedger ------------------------------
(***************************************************************************)
(* What a run may end with: one verified row with a skill, one failed row  *)
(* without, or a tripped breaker over two rows of one task.                *)
(***************************************************************************)
EXTENDS Ledger

Row(verified, retry, cause, skills) ==
  [task |-> TRUE, verified |-> verified, retry |-> retry, cause |-> cause, skills |-> skills]

MCRows == {<<Row("yes", 0, FALSE, {"s"})>>,
           <<Row("no", 0, TRUE, {}), [Row("none", 1, TRUE, {}) EXCEPT !.task = FALSE]>>}

AgentSymmetry == Permutations(FleetRuns)
=============================================================================
