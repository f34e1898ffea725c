-------------------------------- MODULE Lint --------------------------------
(***************************************************************************)
(* The rules of lint.py that are about the shape of a backlog: missing     *)
(* dependencies and cycles.  The rules about wording are left out.         *)
(***************************************************************************)
EXTENDS Backlog, SequencesExt

Known(tasks) == {tasks[i].id : i \in DOMAIN tasks}

\* deps_map: of tasks with one id the last counts.
DepsOf(tasks, id) ==
  LET i == CHOOSE j \in DOMAIN tasks :
             tasks[j].id = id /\ \A k \in DOMAIN tasks : tasks[k].id = id => k <= j
  IN  tasks[i].deps \cap Known(tasks)

\* The search is depth first.  stack: the nodes whose call has not returned
\* (visiting); left: for each node the dependencies that its loop has not
\* looked at, since at most one call gets to its loop; visited: the nodes whose
\* call has returned; cycle: the answer, once there is one.
Start(tasks) ==
  [stack |-> <<>>, left |-> [id \in Known(tasks) |-> DepsOf(tasks, id)],
   visited |-> {}, cycle |-> <<>>]

Over(tasks, s) == s.cycle # <<>> \/ (s.stack = <<>> /\ Known(tasks) \subseteq s.visited)

Enter(s, id) == [s EXCEPT !.stack = Append(@, id)]

Leave(s) ==
  [s EXCEPT !.stack = Front(@), !.visited = @ \cup {Last(s.stack)}]

Looked(s, id) == [s EXCEPT !.left[Last(s.stack)] = @ \ {id}]

\* Mutant: the cycle is printed from the root of the search on.
LookFromRoot(s, id) ==
  IF id \in ToSet(s.stack) THEN [Looked(s, id) EXCEPT !.cycle = Append(s.stack, id)]
  ELSE IF id \in s.visited THEN Looked(s, id)
  ELSE Enter(Looked(s, id), id)

\* The next dependency of the node on top: on the stack it closes a cycle.
Look(s, id) ==
  LET first == CHOOSE n \in DOMAIN s.stack : s.stack[n] = id
  IN  IF id \in ToSet(s.stack)
      THEN [Looked(s, id) EXCEPT !.cycle = Append(SubSeq(s.stack, first, Len(s.stack)), id)]
      ELSE IF id \in s.visited THEN Looked(s, id)
      ELSE Enter(Looked(s, id), id)

\* The next thing that dfs, or the loop over all ids, does.
SearchStep(tasks, s) ==
  IF Over(tasks, s) THEN s
  ELSE IF s.stack = <<>> THEN Enter(s, CHOOSE id \in Known(tasks) \ s.visited : TRUE)
  ELSE IF s.left[Last(s.stack)] = {} THEN Leave(s)
  ELSE Look(s, CHOOSE id \in s.left[Last(s.stack)] : TRUE)

\* Every step enters or leaves a node or looks at a dependency of one, each
\* at most once.
FindCycle(tasks) ==
  LET steps == 3 * Len(tasks) * Len(tasks)
      s[n \in 0..steps] == IF n = 0 THEN Start(tasks) ELSE SearchStep(tasks, s[n - 1])
  IN  s[steps].cycle

\* The tasks a scope of lint_backlog looks at.
Linted(tasks, scope) ==
  {i \in DOMAIN tasks :
     CASE scope = "active" -> tasks[i].status # "done"
       [] scope = "ready" -> tasks[i].status = "ready"
       [] scope = "proposed" -> tasks[i].by = "kelix" /\ tasks[i].status = "proposed"}

\* The tasks with a dangling_dep finding.  Cycles are looked for in the whole
\* backlog, whatever the scope.
Dangling(tasks, scope) ==
  {i \in Linted(tasks, scope) : ~(tasks[i].deps \subseteq Known(tasks))}

ShapeFindings(tasks, scope) ==
  Dangling(tasks, scope) # {} \/ FindCycle(tasks) # <<>>
=============================================================================
