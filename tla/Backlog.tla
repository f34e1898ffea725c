------------------------------ MODULE Backlog ------------------------------
(***************************************************************************)
(* The backlog as a sequence of tasks in file order, the choice of the     *)
(* next task (backlog.py) and the narrower choice of the fleet's claim     *)
(* hook (fleet.py).  A task is named by its position in the sequence; 0    *)
(* stands for Python's None.                                               *)
(***************************************************************************)
EXTENDS Integers, Sequences

NoTask == 0

\* The fields the parser yields; any word is a status or an author, phase is ""
\* for a phaseless task.
TaskRecord ==
  [id : STRING, status : STRING, by : STRING, deps : SUBSET STRING,
   phase : STRING, prio : Nat, reqs : SUBSET STRING]

IsDone(t) == t.status = "done"

\* The ids of the done tasks among the positions S.
DoneIds(tasks, S) == {tasks[i].id : i \in {j \in S : IsDone(tasks[j])}}

\* Dependencies are looked up among the tasks that were passed in, no others.
Candidate(t, done, autonomy) ==
  /\ t.deps \subseteq done
  /\ \/ t.status = "ready"
     \/ t.status = "proposed" /\ autonomy = "high"

PhaseRank(t, active) ==
  IF active = "" \/ t.phase = active THEN 0
  ELSE IF t.phase = "" THEN 1 ELSE 2

\* Mutant: priority before authorship.
SortKeyByPriority(t, active) ==
  << -t.prio, IF t.by = "owner" THEN 0 ELSE 1, IF t.status = "ready" THEN 0 ELSE 1, 0 >>

SortKey(t, active) ==
  << IF t.by = "owner" THEN 0 ELSE 1,
     IF t.status = "ready" THEN 0 ELSE 1,
     PhaseRank(t, active),
     -t.prio >>

\* Python's order on tuples.
KeyLess(k, l) ==
  \E n \in 1..4 : k[n] < l[n] /\ \A m \in 1..(n - 1) : k[m] = l[m]

Candidates(tasks, S, autonomy) ==
  {i \in S : Candidate(tasks[i], DoneIds(tasks, S), autonomy)}

\* min() keeps the first of equal keys, so ties go to file order.  There is one
\* such task when there are candidates at all.
Firsts(tasks, S, autonomy, active) ==
  LET C == Candidates(tasks, S, autonomy)
      Before(i, j) == KeyLess(SortKey(tasks[i], active), SortKey(tasks[j], active))
  IN  {i \in C : \A j \in C \ {i} : Before(i, j) \/ (i < j /\ ~Before(j, i))}

SelectFrom(tasks, S, autonomy, active) ==
  LET firsts == Firsts(tasks, S, autonomy, active)
  IN  IF firsts = {} THEN NoTask ELSE CHOOSE i \in firsts : TRUE

SelectNext(tasks, autonomy, active) ==
  SelectFrom(tasks, DOMAIN tasks, autonomy, active)

----------------------------------------------------------------------------
(* Dependency waves.                                                       *)

\* Mutant: done tasks satisfy nobody before they are placed themselves.
RoundWithoutDone(tasks, done, placed) ==
  placed \cup {i \in DOMAIN tasks : tasks[i].deps \subseteq {tasks[j].id : j \in placed}}

\* Mutant: a dependency that is not in the file is ignored.
RoundIgnoringMissing(tasks, done, placed) ==
  LET ids == done \cup {tasks[i].id : i \in placed}
      known == {tasks[i].id : i \in DOMAIN tasks}
  IN  placed \cup {i \in DOMAIN tasks : tasks[i].deps \cap known \subseteq ids}

\* One round of the loop: what is placed, and what waits for nothing else.
Round(tasks, done, placed) ==
  LET ids == done \cup {tasks[i].id : i \in placed}
  IN  placed \cup {i \in DOMAIN tasks : tasks[i].deps \subseteq ids}

\* Placed(tasks)[n]: the positions in the first n waves, the last round apart.
Placed(tasks) ==
  LET done == DoneIds(tasks, DOMAIN tasks)
      p[n \in 0..Len(tasks)] ==
        IF n = 0 THEN {} ELSE Round(tasks, done, p[n - 1])
  IN  p

\* What no round can place: a cycle, or a dependency that is never done.
Stuck(tasks) == DOMAIN tasks \ Placed(tasks)[Len(tasks)]

\* The waves in order, up to the last round that places something; the stuck
\* tasks are one more wave at the end.
Waves(tasks) ==
  LET p == Placed(tasks)
      all == p[Len(tasks)]
      depth == CHOOSE n \in 0..Len(tasks) : p[n] = all /\ \A m \in 0..(n - 1) : p[m] # all
      rounds == [n \in 1..depth |-> p[n] \ p[n - 1]]
  IN  IF Stuck(tasks) = {} THEN rounds ELSE Append(rounds, Stuck(tasks))

----------------------------------------------------------------------------
(* The fleet hook's narrower choice.                                       *)

AllowedIds(tasks) ==
  LET w == Waves(tasks)
      open == {n \in DOMAIN w : \E i \in w[n] : ~IsDone(tasks[i])}
  IN  IF open = {} THEN {}
      ELSE LET first == CHOOSE n \in open : \A m \in open : n <= m
           IN  {tasks[i].id : i \in w[first]}

\* select_next over the allowed tasks this hook has not tried, with no phase.
HookSelect(tasks, allowed, attempted, autonomy) ==
  SelectFrom(tasks,
             {i \in DOMAIN tasks : tasks[i].id \in allowed \ attempted},
             autonomy, "")
=============================================================================
