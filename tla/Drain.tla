------------------------------- MODULE Drain -------------------------------
(***************************************************************************)
(* One fleet agent without competitors: the claim hook picks a task, the   *)
(* agent ends it as done or blocked, and the loop completes when the hook  *)
(* finds nothing (fleet.py, make_claim_hook; loop.py:562).  The module     *)
(* asks whether the hook's narrower choice is select_next's on the whole   *)
(* backlog.                                                                *)
(***************************************************************************)
EXTENDS Backlog

CONSTANTS
  Bases,      \* the backlogs a run may start from
  Autonomy    \* [autonomy] level: "normal" or "high"

ASSUME DrainAssumption ==
  /\ Autonomy \in {"normal", "high"}
  /\ \A ts \in Bases : ts \in Seq(TaskRecord)

VARIABLES
  tasks,      \* the backlog of the agent's worktree
  ended       \* the hook returned None and the loop completed

vars == <<tasks, ended>>

Init ==
  /\ tasks \in Bases
  /\ ended = FALSE

Pick == HookSelect(tasks, AllowedIds(tasks), {}, Autonomy)

\* The session edits the backlog line of its task: done, or blocked.
Work ==
  /\ ~ended
  /\ Pick # NoTask
  /\ \E s \in {"done", "blocked"} : tasks' = [tasks EXCEPT ![Pick].status = s]
  /\ UNCHANGED ended

Complete ==
  /\ ~ended
  /\ Pick = NoTask
  /\ ended' = TRUE
  /\ UNCHANGED tasks

Next == Work \/ Complete

Spec == Init /\ [][Next]_vars

----------------------------------------------------------------------------
\* No done task waits for a task that is not done.  Plans are written this
\* way; pruning a finished task from the file, or reopening it, breaks it.
DoneClosed(ts) ==
  \A i \in DOMAIN ts : IsDone(ts[i]) => ts[i].deps \subseteq DoneIds(ts, DOMAIN ts)

\* Ids are written by hand or by kelix propose; nothing rejects a second task
\* with the same one.
UniqueIds(ts) == \A i, j \in DOMAIN ts : ts[i].id = ts[j].id => i = j

\* Each choice of the hook is the one select_next makes on the whole backlog:
\* the wave filter changes neither what is eligible nor what comes first, and
\* when it ends the loop no task of the backlog could run (fleet.py,
\* _wave_allowed_task_ids).
HookIsSelectNext ==
  /\ ~ended => Pick = SelectNext(tasks, Autonomy, "")
  /\ ended => Candidates(tasks, DOMAIN tasks, Autonomy) = {}

\* An owner task that could run now is never passed over for one that Kelix
\* proposed, nor a ready task for a proposed one of the same author, nor one
\* of a higher priority for a lower one of the same kind (backlog.py,
\* select_next's sort_key).
NeverPassedOver ==
  LET C == Candidates(tasks, DOMAIN tasks, Autonomy)
      p == tasks[Pick]
  IN  Pick # NoTask =>
        \A i \in C :
          /\ tasks[i].by = "owner" => p.by = "owner"
          /\ tasks[i].by = p.by /\ tasks[i].status = "ready" => p.status = "ready"
          /\ tasks[i].by = p.by /\ tasks[i].status = p.status => p.prio >= tasks[i].prio

\* The reference for the last wave: T is stuck when every member waits for
\* something that is neither done nor a task outside T (backlog.py, waves).
WaitsWithin(ts, T) ==
  \A i \in T : \E d \in ts[i].deps :
    /\ d \notin DoneIds(ts, DOMAIN ts)
    /\ \A j \in DOMAIN ts : ts[j].id = d => j \in T

\* waves() puts aside exactly the largest set of tasks that wait for one
\* another or for a missing task, and places every other task one wave after
\* the last of its unfinished dependencies.
WavesAreLevels ==
  LET w == Waves(tasks)
      stuck == Stuck(tasks)
      level(i) == CHOOSE n \in DOMAIN w : i \in w[n]
      open(i) == {j \in DOMAIN tasks :
                    /\ tasks[j].id \in tasks[i].deps
                    /\ tasks[j].id \notin DoneIds(tasks, DOMAIN tasks)}
  IN  /\ WaitsWithin(tasks, stuck)
      /\ \A T \in SUBSET (DOMAIN tasks) : WaitsWithin(tasks, T) => T \subseteq stuck
      /\ \A i \in DOMAIN tasks \ stuck :
           /\ \A j \in open(i) : level(j) < level(i)
           /\ level(i) > 1 => \E j \in open(i) : level(j) = level(i) - 1
=============================================================================
