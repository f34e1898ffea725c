------------------------------- MODULE Fleet -------------------------------
(***************************************************************************)
(* A fleet: agents that share nothing but claim files, each running the    *)
(* loop on a branch and a copy of the backlog of its own (fleet.py,        *)
(* make_claim_hook and run_fleet; loop.py, Runner.run).  A call of         *)
(* claims.py is one step here; Claims.tla opens it up.  What the session   *)
(* of an iteration does to its task, and whether verification is green, is *)
(* chosen freely.                                                          *)
(***************************************************************************)
EXTENDS Backlog

CONSTANTS
  Agents,       \* the fleet's agents
  None,         \* nobody
  Base,         \* the backlog at HEAD, sorted by id; every branch starts from it
  Autonomy,     \* [autonomy] level
  Cap,          \* iterations of an agent
  Threshold,    \* circuit_breaker_threshold
  MaxRuns       \* bound: how often kelix fleet is started

\* A task's claim file is named by its id, so tasks of one id share a claim.
ASSUME FleetAssumption ==
  /\ None \notin Agents
  /\ Base \in Seq(TaskRecord)
  /\ \A i, j \in DOMAIN Base : Base[i].id = Base[j].id => i = j
  /\ Autonomy \in {"normal", "high"}
  /\ {Cap, Threshold, MaxRuns} \subseteq Nat \ {0}

VARIABLES
  claims,       \* task -> its claim file
  branch,       \* agent -> task -> status in the agent's worktree
  agent,        \* agent -> its loop: pc, counters, and the hook's locals
  stop,         \* .kelix/STOP exists
  runs,         \* how often the fleet was started
  doneBy,       \* task -> agents that ever set it to done (history)
  lapsed        \* tasks whose claim ever outlived stale_claim_s (history)

vars == <<claims, branch, agent, stop, runs, doneBy, lapsed>>
history == <<doneBy, lapsed>>

----------------------------------------------------------------------------
Tasks == DOMAIN Base

BaseStatus == [i \in Tasks |-> Base[i].status]

\* The backlog when its status column is s.
Backlog(s) == [i \in Tasks |-> [Base[i] EXCEPT !.status = s[i]]]

NoClaim == [agent |-> None, done |-> FALSE, stale |-> FALSE]

\* view: the hook's copy of the statuses; listed: how many claims it has read;
\* tried: ids it was refused; task: the assigned task.
Fresh == [pc |-> "top", iter |-> 0, fails |-> 0, view |-> BaseStatus,
          listed |-> 0, tried |-> {}, task |-> NoTask]

Init ==
  /\ claims = [i \in Tasks |-> NoClaim]
  /\ branch = [a \in Agents |-> BaseStatus]
  /\ agent = [a \in Agents |-> Fresh]
  /\ stop = FALSE
  /\ runs = 1
  /\ doneBy = [i \in Tasks |-> {}]
  /\ lapsed = {}

Endings == {"drained", "completed", "max_iterations", "circuit_breaker", "killed", "error"}

Ended(a) == agent[a].pc \in Endings

\* A loop that is over keeps only how it ended.
End(a, how) == agent' = [agent EXCEPT ![a] = [Fresh EXCEPT !.pc = how]]

----------------------------------------------------------------------------
(* The top of the loop and the claim hook.                                 *)

Top(a) ==
  /\ agent[a].pc = "top"
  /\ IF agent[a].iter = Cap THEN End(a, "max_iterations")
     ELSE IF stop THEN End(a, "killed")
     ELSE agent' = [agent EXCEPT ![a].pc = "hook", ![a].view = branch[a]]
  /\ UNCHANGED <<claims, branch, stop, runs, history>>

\* Mutant: every claimed task counts as done.
HookListAnyClaim(a) ==
  LET i == agent[a].listed + 1
  IN  /\ agent[a].pc = "hook"
      /\ agent[a].listed < Len(Base)
      /\ agent' = [agent EXCEPT ![a].listed = i,
                                ![a].view[i] = IF claims[i].agent # None THEN "done" ELSE @]
      /\ UNCHANGED <<claims, branch, stop, runs, history>>

\* list_claims reads the files one after the other; a done claim makes its
\* task done in the hook's copy.
HookList(a) ==
  LET i == agent[a].listed + 1
  IN  /\ agent[a].pc = "hook"
      /\ agent[a].listed < Len(Base)
      /\ agent' = [agent EXCEPT ![a].listed = i,
                                ![a].view[i] = IF claims[i].done THEN "done" ELSE @]
      /\ UNCHANGED <<claims, branch, stop, runs, history>>

\* Mutant: a claim is flagged whether its task is done or not.
UnmarkedClaims(a) == {i \in Tasks : claims[i].agent = a /\ ~claims[i].done}

Unmarked(a) ==
  {i \in Tasks : /\ agent[a].view[i] = "done"
                 /\ claims[i].agent = a
                 /\ ~claims[i].done}

\* mark_claim_done of one of its own finished tasks.
HookMark(a) ==
  /\ agent[a].pc = "hook" /\ agent[a].listed = Len(Base)
  /\ \E i \in Unmarked(a) :
       claims' = [claims EXCEPT ![i] = [agent |-> a, done |-> TRUE, stale |-> FALSE]]
  /\ UNCHANGED <<branch, agent, stop, runs, history>>

\* Mutant: a done claim is up for grabs.
FreeWhenDone(i) == claims[i].agent = None \/ claims[i].stale \/ claims[i].done

\* Mutant: a claim protects its task only once it is done.
FreeUntilDone(i) == claims[i].agent = None \/ claims[i].stale \/ ~claims[i].done

Free(i) == claims[i].agent = None \/ claims[i].stale

\* The next candidate: select_next over the earliest open wave.
Pick(a) ==
  LET tasks == Backlog(agent[a].view)
  IN  HookSelect(tasks, AllowedIds(tasks), agent[a].tried, Autonomy)

\* Mutant: the iteration is not counted.
HookClaimUncounted(a, i) ==
  /\ agent' = [agent EXCEPT ![a] = [Fresh EXCEPT !.pc = "work", !.task = i,
                                                 !.iter = agent[a].iter,
                                                 !.fails = agent[a].fails]]
  /\ \/ /\ Free(i)
        /\ claims' = [claims EXCEPT ![i] = [NoClaim EXCEPT !.agent = a]]
     \/ /\ ~Free(i) /\ claims[i].agent = a
        /\ UNCHANGED claims

\* claim_task grants a task that nobody holds, or that a already holds.
HookClaim(a, i) ==
  /\ agent' = [agent EXCEPT ![a] = [Fresh EXCEPT !.pc = "work", !.task = i,
                                                 !.iter = agent[a].iter + 1,
                                                 !.fails = agent[a].fails]]
  /\ \/ /\ Free(i)
        /\ claims' = [claims EXCEPT ![i] = [NoClaim EXCEPT !.agent = a]]
     \/ /\ ~Free(i) /\ claims[i].agent = a
        /\ UNCHANGED claims

HookRefused(a, i) ==
  /\ ~Free(i) /\ claims[i].agent # a
  /\ agent' = [agent EXCEPT ![a].tried = @ \cup {Base[i].id}]
  /\ UNCHANGED claims

\* A refusal leads to the next candidate, no candidate to the end of the loop.
HookTry(a) ==
  /\ agent[a].pc = "hook" /\ agent[a].listed = Len(Base)
  /\ Unmarked(a) = {}
  /\ LET next == Pick(a)
     IN  \/ next = NoTask /\ End(a, "drained") /\ UNCHANGED claims
         \/ \E i \in Tasks : i = next /\ (HookClaim(a, i) \/ HookRefused(a, i))
  /\ UNCHANGED <<branch, stop, runs, history>>

----------------------------------------------------------------------------
(* The session and what the loop makes of it.                              *)

\* status: what the session leaves in its task's line; ok: it exited with 0
\* and produced a diff or the sentinel (never so after an adapter error);
\* green: verification did not fail.
Outcomes ==
  [status : {"same", "done", "blocked"}, ok : BOOLEAN, green : BOOLEAN, sentinel : BOOLEAN]

\* Mutant: one failure more.
TrippedLate(fails) == fails > Threshold

Tripped(fails) == fails >= Threshold

AfterWork(a, o) ==
  LET fails == IF o.ok /\ o.green THEN 0 ELSE agent[a].fails + 1
  IN  IF o.sentinel /\ o.green THEN End(a, "completed")
      ELSE IF Tripped(fails) THEN End(a, "circuit_breaker")
      ELSE agent' = [agent EXCEPT ![a].pc = "top", ![a].fails = fails, ![a].task = NoTask]

Work(a) ==
  LET i == agent[a].task
  IN  /\ agent[a].pc = "work"
      /\ \E o \in Outcomes :
           /\ branch' = [branch EXCEPT ![a][i] = IF o.status = "same" THEN @ ELSE o.status]
           /\ doneBy' = IF o.status = "done" THEN [doneBy EXCEPT ![i] = @ \cup {a}] ELSE doneBy
           /\ AfterWork(a, o)
      /\ UNCHANGED <<claims, stop, runs, lapsed>>

\* An exception leaves the run; run_fleet's worker records it.
Crash(a) ==
  /\ ~Ended(a)
  /\ End(a, "error")
  /\ UNCHANGED <<claims, branch, stop, runs, history>>

----------------------------------------------------------------------------
\* Nobody refreshes a claim while its task is worked on: heartbeat() has no
\* caller, so any claim may go stale at any time.
Expire(i) ==
  /\ ~Free(i)
  /\ claims' = [claims EXCEPT ![i].stale = TRUE]
  /\ lapsed' = lapsed \cup {i}
  /\ UNCHANGED <<branch, agent, stop, runs, doneBy>>

\* kelix stop.
Stop ==
  /\ ~stop
  /\ stop' = TRUE
  /\ UNCHANGED <<claims, branch, agent, runs, history>>

\* The next kelix fleet: new branches from the same HEAD, the old claim files.
Restart ==
  /\ runs < MaxRuns
  /\ \A a \in Agents : Ended(a)
  /\ runs' = runs + 1
  /\ stop' = FALSE
  /\ branch' = [a \in Agents |-> BaseStatus]
  /\ agent' = [a \in Agents |-> Fresh]
  /\ UNCHANGED <<claims, history>>

Loop(a) == Top(a) \/ HookList(a) \/ HookMark(a) \/ HookTry(a) \/ Work(a)

Next ==
  \/ \E a \in Agents : Loop(a) \/ Crash(a)
  \/ \E i \in Tasks : Expire(i)
  \/ Stop
  \/ Restart

Spec == Init /\ [][Next]_vars

\* Agents are threads, and the adapter's timeout ends every session.  This is
\* WF_vars(Loop(a)) written out: Loop(a) is enabled just until a has ended.
FairLoop(a) == []<>Ended(a) \/ []<><<Loop(a)>>_vars

FairSpec == Spec /\ \A a \in Agents : FairLoop(a)

----------------------------------------------------------------------------
(* Properties.                                                             *)

\* What the backlog says at the start, and what sessions make of it.
Statuses == {"done", "blocked"} \cup {Base[i].status : i \in Tasks}

ClaimRecord == [agent : Agents \cup {None}, done : BOOLEAN, stale : BOOLEAN]

AgentRecord ==
  [pc : {"top", "hook", "work"} \cup Endings, iter : 0..Cap, fails : 0..(Threshold - 1),
   view : [Tasks -> Statuses], listed : 0..Len(Base), tried : SUBSET {Base[i].id : i \in Tasks},
   task : Tasks \cup {NoTask}]

TypeOK ==
  /\ claims \in [Tasks -> ClaimRecord]
  /\ branch \in [Agents -> [Tasks -> Statuses]]
  /\ agent \in [Agents -> AgentRecord]
  /\ stop \in BOOLEAN
  /\ runs \in 1..MaxRuns
  /\ doneBy \in [Tasks -> SUBSET Agents]
  /\ lapsed \subseteq Tasks

Working(a, i) == agent[a].pc = "work" /\ agent[a].task = i

\* Two agents work the same task at the same time only after its claim went
\* stale (docs/fleet.md "Claims"; fleet.py, make_claim_hook).
NoDoubleWork ==
  \A a, b \in Agents, i \in Tasks :
    Working(a, i) /\ Working(b, i) /\ a # b => i \in lapsed

\* A task that one agent finished is not worked again by another, in this run
\* or a later one, unless its claim went stale: the claim file tells it even
\* when the finisher stopped before it could flag the claim (fleet.py:167-180).
NoRedo ==
  \A a \in Agents, i \in Tasks : Working(a, i) /\ doneBy[i] \ {a} # {} => i \in lapsed

\* Whoever works a task, some agent has finished each task it depends on,
\* however far the branches have diverged (fleet.py:167-182).
DepsFinished ==
  \A a \in Agents, i \in Tasks :
    Working(a, i) =>
      \A j \in Tasks : Base[j].id \in Base[i].deps =>
        Base[j].status = "done" \/ doneBy[j] # {}

\* A done-claim is backed by its owner's own work (fleet.py:177-180).
DoneClaimOwned == \A i \in Tasks : claims[i].done => claims[i].agent \in doneBy[i]

\* A done-claim stays one, whoever asks for the task with a view from before
\* it was set, unless it went stale (claims.py:78-79).
DoneClaimStays ==
  [][\A i \in Tasks : claims[i].done => claims'[i].done \/ i \in lapsed]_vars

\* Every agent of a fleet ends, whatever the others do (run_fleet's joins).
FleetEnds == []<>(\A a \in Agents : Ended(a))

\* The backlog as all branches together know it.
Merged ==
  Backlog([i \in Tasks |-> IF doneBy[i] # {} THEN "done"
                           ELSE IF \E a \in Agents : branch[a][i] = "blocked" THEN "blocked"
                           ELSE BaseStatus[i]])

\* When every agent has ended because it found no work, no task is left that
\* nobody ever claimed and that could run (docs/fleet.md:107).
NoWorkRemains ==
  (\A a \in Agents : agent[a].pc = "drained") =>
    ~ \E i \in Tasks : /\ claims[i].agent = None
                       /\ Candidate(Merged[i], DoneIds(Merged, Tasks), Autonomy)
=============================================================================
