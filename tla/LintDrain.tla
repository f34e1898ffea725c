----------------------------- MODULE LintDrain -----------------------------
(***************************************************************************)
(* kelix lint beside the loop: whether its findings name every backlog     *)
(* that cannot drain, at every point of a drain.                           *)
(***************************************************************************)
EXTENDS Drain, Lint

\* kelix lint has a dangling_dep or cyclic_deps finding exactly when some task
\* can never run, or the done tasks name one another in a circle; and the cycle
\* it prints is one (lint.py, lint_backlog; backlog.py, waves).
LintFindsWhatSticks ==
  LET cycle == FindCycle(tasks)
      circle(T) == T # {} /\ \A i \in T : \E j \in T : tasks[j].id \in tasks[i].deps
      done == {i \in DOMAIN tasks : IsDone(tasks[i])}
  IN  /\ ShapeFindings(tasks, "active") <=> \/ Stuck(tasks) # {}
                                           \/ \E T \in SUBSET done : circle(T)
      /\ \A n \in 2..Len(cycle) : cycle[n] \in DepsOf(tasks, cycle[n - 1])
      /\ cycle # <<>> => cycle[1] = Last(cycle)
=============================================================================
