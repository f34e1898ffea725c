------------------------------- MODULE Runner -------------------------------
(***************************************************************************)
(* The solo loop (loop.py, Runner.run): iterations with checkpoints before *)
(* and after the session, verification, the phase gate, the ledger, the    *)
(* circuit breaker, the kill switch and the end of the run.  The session   *)
(* and verification answer freely.  The loop is one thread; the owner's    *)
(* kill switch and the death of the process come between any two steps,    *)
(* and no file is written in one: it is cut first, and filled then.        *)
(***************************************************************************)
EXTENDS Backlog

CONSTANTS
  Base,         \* the backlog at the start
  Phases,       \* the roadmap: a sequence of [id, reqs]
  FirstPhase,   \* the phase in STATE.md at the start; "" is flat mode
  Cap,          \* max_iterations
  Threshold,    \* circuit_breaker_threshold
  Commands,     \* the number of [verify] commands
  MaxRuns       \* bound: how often kelix run is started

\* Flat mode: no phase is active.
NoPhase == ""

\* Nothing in the code rejects a second phase of one id; it is not modelled.
ASSUME RunnerAssumption ==
  /\ Base \in Seq(TaskRecord)
  /\ Phases \in Seq([id : STRING, reqs : SUBSET STRING])
  /\ \A m, n \in DOMAIN Phases : Phases[m].id = Phases[n].id => m = n
  /\ \A m \in DOMAIN Phases : Phases[m].id # NoPhase
  /\ {Cap, Threshold, MaxRuns} \subseteq Nat \ {0}
  /\ Commands \in Nat

VARIABLES
  pc,           \* the next step of run()
  result,       \* RunResult: status, and the iterations begun so far
  rows,         \* result.ledger_rows
  runJson,      \* run.json of this run
  fails,        \* consecutive_failures
  rec,          \* the current IterationRecord and its locals
  inPlace,      \* the run works in the owner's tree ([git] isolation "none" or
                \* "branch"), not in a worktree of its own ("worktree")
  tasks,        \* the backlog in the working tree
  dirty,        \* who left uncommitted changes in the working tree
  state,        \* the run state in memory
  disk,         \* STATE.md
  stop,         \* .kelix/STOP exists
  runs,         \* how often the loop was started
  idle,         \* sessions in a row that did nothing (history)
  late,         \* sessions begun since the kill switch was set (history)
  proven,       \* tasks that were done in a verified tree (history)
  strayed       \* where runs died whose worktree kept edits of the agent that
                \* no commit has (history)

loopVars == <<result, rows, runJson, fails, rec>>
treeVars == <<inPlace, tasks, dirty>>
history == <<idle, late, proven, strayed>>
vars == <<pc, loopVars, treeVars, state, disk, stop, runs, history>>

----------------------------------------------------------------------------
(* The roadmap and the phase gate (roadmap.py, loop.py:217-257).           *)

PhaseReqs(p) == UNION {Phases[n].reqs : n \in {m \in DOMAIN Phases : Phases[m].id = p}}

Covered(r) == \E i \in DOMAIN tasks : IsDone(tasks[i]) /\ r \in tasks[i].reqs

Uncovered(p) == {r \in PhaseReqs(p) : \A i \in DOMAIN tasks : r \notin tasks[i].reqs}

\* The phase after p, or p when there is none.
NextPhase(p) ==
  LET following == {n \in 2..Len(Phases) : Phases[n - 1].id = p}
  IN  IF following = {} THEN p ELSE Phases[CHOOSE n \in following : TRUE].id

\* Mutant: a requirement that some task references counts as covered.
ApplyLaxGate ==
  IF state.phase = NoPhase THEN state
  ELSE IF Uncovered(state.phase) = {}
  THEN [phase |-> NextPhase(state.phase), blockers |-> {}]
  ELSE [state EXCEPT !.blockers = Uncovered(state.phase)]

ApplyPhaseGate ==
  IF state.phase = NoPhase THEN state
  ELSE IF \A r \in PhaseReqs(state.phase) : Covered(r)
  THEN [phase |-> NextPhase(state.phase), blockers |-> {}]
  ELSE [state EXCEPT !.blockers = Uncovered(state.phase)]

\* Mid-run the gate waits until every task of the phase is done.
PhaseTasksDone ==
  LET T == {i \in DOMAIN tasks : tasks[i].phase = state.phase}
  IN  T # {} /\ \A i \in T : IsDone(tasks[i])

----------------------------------------------------------------------------
NoRec == [sentinel |-> FALSE, ok |-> FALSE, moved |-> FALSE, progress |-> FALSE,
          ran |-> 0, verified |-> "none", failed |-> FALSE]

\* What lies in the owner's tree is in the run's tree only when it is in place.
InTree(mark) == IF inPlace THEN {mark} ELSE {}

BaseState == [phase |-> FirstPhase, blockers |-> {}]

\* What a STATE.md without content is read as.
BlankState == [phase |-> NoPhase, blockers |-> {}]

\* The status and the rows in run.json; torn is a file cut for writing.
NoRunJson == [torn |-> FALSE, status |-> "none", rows |-> <<>>]

Init ==
  /\ pc = "start"
  /\ result = [status |-> "running", iterations |-> 0]
  /\ rows = <<>> /\ runJson = NoRunJson
  /\ fails = 0
  /\ rec = NoRec
  /\ inPlace \in BOOLEAN
  /\ tasks = Base
  /\ dirty = {}
  /\ state = BaseState /\ disk = BaseState
  /\ stop = FALSE
  /\ runs = 1
  /\ idle = 0 /\ late = 0
  /\ proven = {i \in DOMAIN Base : IsDone(Base[i])}
  /\ strayed = {}

\* Mutant: the runner's bookkeeping is committed as well.
CheckpointAll == dirty # {}

\* checkpoint: what the runner itself writes is never committed.
Checkpoint == dirty \ {"runner"} # {}

\* Mutant: run.json is not written at the end.
FinishUnsaved(status) ==
  /\ pc' = "end"
  /\ result' = [result EXCEPT !.status = status]

Finish(status) ==
  /\ pc' = "finish"
  /\ result' = [result EXCEPT !.status = status]

\* The spec gate refuses a backlog whose ready tasks fail the lint.
Start ==
  /\ pc = "start"
  /\ \/ /\ pc' = "top" /\ UNCHANGED loopVars
     \/ Finish("spec_gate") /\ UNCHANGED <<rows, runJson, fails, rec>>
  /\ UNCHANGED <<treeVars, state, disk, stop, runs, history>>

\* Mutant: the kill switch is checked before the first iteration only.
TopStopsEarly ==
  /\ pc = "top"
  /\ IF result.iterations = Cap THEN Finish("max_iterations")
     ELSE IF stop /\ result.iterations = 0 THEN Finish("killed")
     ELSE pc' = "begin" /\ UNCHANGED result
  /\ UNCHANGED <<rows, runJson, fails, rec, treeVars, state, disk, stop, runs, history>>

\* Mutant: the kill switch makes the loop wait for its removal.
TopWaits ==
  /\ pc = "top"
  /\ IF result.iterations = Cap THEN Finish("max_iterations")
     ELSE ~stop /\ pc' = "begin" /\ UNCHANGED result
  /\ UNCHANGED <<rows, runJson, fails, rec, treeVars, state, disk, stop, runs, history>>

\* The cap, the kill switch, and then the next iteration.
Top ==
  /\ pc = "top"
  /\ IF result.iterations = Cap THEN Finish("max_iterations")
     ELSE IF stop THEN Finish("killed")
     ELSE pc' = "begin" /\ UNCHANGED result
  /\ UNCHANGED <<rows, runJson, fails, rec, treeVars, state, disk, stop, runs, history>>

\* The pre-iteration checkpoint; the manifest and the heartbeat are written
\* after it.
Begin ==
  /\ pc = "begin"
  /\ pc' = "session"
  /\ result' = [result EXCEPT !.iterations = @ + 1]
  /\ rec' = NoRec
  /\ dirty' = (IF Checkpoint THEN {} ELSE dirty) \cup InTree("runner")
  /\ late' = IF stop THEN late + 1 ELSE late
  /\ UNCHANGED <<rows, runJson, fails, inPlace, tasks, state, disk, stop, runs, idle, proven, strayed>>

----------------------------------------------------------------------------
(* The session.                                                            *)

\* A session that is under way has left edits, which may finish or give up a task.
Edits(i, s) ==
  /\ dirty' = dirty \cup {"agent"}
  /\ tasks' = IF i \in DOMAIN tasks /\ tasks[i].status = "ready"
              THEN [tasks EXCEPT ![i].status = s] ELSE tasks

SessionEdits ==
  /\ pc = "session"
  /\ pc' = "editing"
  /\ \E i \in 0..Len(tasks), s \in {"done", "blocked"} : Edits(i, s)
  /\ UNCHANGED <<loopVars, inPlace, state, disk, stop, runs, history>>

\* At its end it has done nothing, or left edits, or committed them.
Session ==
  /\ pc \in {"session", "editing"}
  /\ pc' = "post"
  /\ \E committed \in BOOLEAN, ok \in BOOLEAN, sentinel \in BOOLEAN :
       /\ pc = "session" => ~committed
       /\ rec' = [rec EXCEPT !.ok = ok, !.sentinel = sentinel, !.moved = committed]
       /\ dirty' = IF committed THEN dirty \ {"agent"} ELSE dirty
       /\ idle' = IF pc = "session" /\ ~sentinel THEN idle + 1 ELSE 0
  /\ UNCHANGED <<result, rows, runJson, fails, inPlace, tasks, state, disk, stop, runs,
                 late, proven, strayed>>

Row == [failed |-> rec'.failed, red |-> rec'.verified = "red",
        adapter |-> rec'.verified = "error", cause |-> FALSE]

\* _trip_breaker marks the rows of the n failures it counted.
Marked(log, n) ==
  [k \in DOMAIN log |-> IF k > Len(log) - n THEN [log[k] EXCEPT !.cause = TRUE] ELSE log[k]]

\* The agent cannot be started: a ledger row, no verification, no episode, no
\* run.json.
AdapterError ==
  /\ pc = "session"
  /\ rec' = [rec EXCEPT !.failed = TRUE, !.verified = "error"]
  /\ fails' = fails + 1
  /\ IF fails' >= Threshold
     THEN Finish("circuit_breaker") /\ rows' = Marked(Append(rows, Row), fails')
     ELSE pc' = "top" /\ rows' = Append(rows, Row) /\ UNCHANGED result
  /\ idle' = idle + 1
  /\ UNCHANGED <<runJson, treeVars, state, disk, stop, runs, late, proven, strayed>>

----------------------------------------------------------------------------
(* After the session.                                                      *)

\* Mutant: progress is noticed but not committed.
PostWithoutCommit ==
  /\ pc = "post"
  /\ pc' = "verify"
  /\ rec' = [rec EXCEPT !.progress = Checkpoint \/ rec.moved]
  /\ UNCHANGED <<result, rows, runJson, fails, treeVars, state, disk, stop, runs, history>>

\* The post-iteration checkpoint decides whether there was progress.
Post ==
  /\ pc = "post"
  /\ pc' = "verify"
  /\ rec' = [rec EXCEPT !.progress = Checkpoint \/ rec.moved]
  /\ dirty' = IF Checkpoint THEN dirty \cap {"runner"} ELSE dirty
  /\ UNCHANGED <<result, rows, runJson, fails, inPlace, tasks, state, disk, stop, runs, history>>

\* The next command of run_verification, which may leave files of its own behind;
\* the first that fails, times out or is missing is the last.
VerifyCommand ==
  /\ pc = "verify" /\ rec.ran < Commands /\ rec.verified # "red"
  /\ \E v \in {"green", "red"}, litter \in {{}, {"verify"}} :
       /\ rec' = [rec EXCEPT !.ran = @ + 1, !.verified = v]
       /\ dirty' = dirty \cup litter
  /\ UNCHANGED <<pc, result, rows, runJson, fails, inPlace, tasks, state, disk, stop, runs, history>>

\* The verdict, and the phase gate.  No failure is recorded in rec yet when the
\* gate looks at it.
Verify ==
  /\ pc = "verify" /\ (rec.ran = Commands \/ rec.verified = "red")
  /\ pc' = "account"
  /\ proven' = IF rec.verified = "red" THEN proven
               ELSE proven \cup {i \in DOMAIN tasks : IsDone(tasks[i])}
  /\ state' = IF ~rec.failed /\ PhaseTasksDone THEN ApplyPhaseGate ELSE state
  /\ UNCHANGED <<loopVars, treeVars, disk, stop, runs, idle, late, strayed>>

\* Mutant: a success does not reset the count.
FailsWithoutReset == IF rec'.failed THEN fails + 1 ELSE fails

Fails == IF rec'.failed THEN fails + 1 ELSE 0

\* Failure and ledger row.
Account ==
  /\ pc = "account"
  /\ pc' = "save"
  /\ rec' = [rec EXCEPT !.failed = \/ ~rec.ok
                                   \/ ~rec.progress /\ ~rec.sentinel
                                   \/ rec.verified = "red"]
  /\ fails' = Fails
  /\ rows' = Append(rows, Row)
  /\ UNCHANGED <<result, runJson, treeVars, state, disk, stop, runs, history>>

\* _save_state, after an iteration and after the loop: write_text cuts run.json,
\* then fills it.
Truncate ==
  /\ \/ pc = "save" /\ pc' = "write"
     \/ pc = "finish" /\ pc' = "flush"
  /\ runJson' = [NoRunJson EXCEPT !.torn = TRUE]
  /\ UNCHANGED <<result, rows, fails, rec, treeVars, state, disk, stop, runs, history>>

Write ==
  /\ \/ pc = "write" /\ pc' = "decide"
     \/ pc = "flush" /\ pc' = "end"
  /\ runJson' = [torn |-> FALSE, status |-> result.status, rows |-> rows]
  /\ UNCHANGED <<result, rows, fails, rec, treeVars, state, disk, stop, runs, history>>

\* Mutant: the sentinel is believed.
SentinelTrusted == rec.sentinel

SentinelHonored == rec.sentinel /\ rec.verified # "red"

\* The sentinel, the breaker or the next iteration.
Decide ==
  /\ pc = "decide"
  /\ IF SentinelHonored THEN Finish("completed") /\ UNCHANGED rows
     ELSE IF fails >= Threshold THEN Finish("circuit_breaker") /\ rows' = Marked(rows, fails)
     ELSE pc' = "top" /\ UNCHANGED <<result, rows>>
  /\ UNCHANGED <<runJson, fails, rec, treeVars, state, disk, stop, runs, history>>

\* write_retrospective commits what is loose, unless there is no memory directory
\* or it raises, which is swallowed.
Retrospective ==
  \E kept \in BOOLEAN :
    LET loose == dirty \cup InTree("runner") \cup (IF disk' # disk THEN {"state"} ELSE {})
    IN  dirty' = IF kept THEN loose \cap {"runner"} ELSE loose

\* _finish: the phase gate once more, STATE.md, the retrospective.
End ==
  /\ pc = "end"
  /\ pc' = "over"
  /\ state' = ApplyPhaseGate
  /\ disk' = state'
  /\ Retrospective
  /\ UNCHANGED <<loopVars, inPlace, tasks, stop, runs, history>>

----------------------------------------------------------------------------
\* kelix stop writes its file into the owner's tree.
Stop ==
  /\ ~stop
  /\ stop' = TRUE
  /\ dirty' = dirty \cup InTree("stop")
  /\ UNCHANGED <<pc, loopVars, inPlace, tasks, state, disk, runs, history>>

\* The process dies, or is over, and kelix run is started again; the owner has
\* removed the kill switch.  run.json stays what it is, the new run writes one of
\* its own.
RunAgain ==
  /\ runs < MaxRuns
  /\ runs' = runs + 1
  /\ pc' = "start"
  /\ result' = [status |-> "running", iterations |-> 0]
  /\ rows' = <<>> /\ runJson' = NoRunJson
  /\ fails' = 0 /\ idle' = 0 /\ late' = 0
  /\ rec' = NoRec
  /\ stop' = FALSE
  /\ UNCHANGED inPlace

\* In place it finds what the last run left, which may be a STATE.md that was cut
\* and not filled.
RestartInPlace ==
  /\ inPlace
  /\ RunAgain
  /\ state' \in {disk} \cup (IF pc = "end" THEN {BlankState} ELSE {})
  /\ disk' = state'
  /\ dirty' = dirty \ {"stop"}
  /\ UNCHANGED <<tasks, proven, strayed>>

\* A worktree is made anew from the owner's HEAD; what is loose in the old one
\* stays there, and no run looks at it again.
RestartInWorktree ==
  /\ ~inPlace
  /\ RunAgain
  /\ state' = BaseState /\ disk' = BaseState
  /\ dirty' = {}
  /\ tasks' = Base
  /\ proven' = {i \in DOMAIN Base : IsDone(Base[i])}
  /\ strayed' = IF "agent" \in dirty THEN strayed \cup {pc} ELSE strayed

Restart == RestartInPlace \/ RestartInWorktree

Loop ==
  \/ Start \/ Top \/ Begin \/ SessionEdits \/ Session \/ AdapterError \/ Post
  \/ VerifyCommand \/ Verify \/ Account \/ Truncate \/ Write \/ Decide \/ End

Next == Loop \/ Stop \/ Restart

Spec == Init /\ [][Next]_vars

\* The adapter's timeout ends every session, [verify] has one of its own.
FairSpec == Spec /\ WF_vars(Loop)

----------------------------------------------------------------------------
(* Properties.                                                             *)

\* An iteration has its row, and what follows from it is not decided yet.
Deciding == {"save", "write", "decide"}

\* The failing rows at the end of the ledger.
Trailing == {n \in DOMAIN rows : \A m \in n..Len(rows) : rows[m].failed}

\* The loop never goes on after Threshold failures in a row, it is the breaker
\* that stops it there, and the cause is on the rows of exactly those failures
\* (loop.py, _trip_breaker).
BreakerIsExact ==
  /\ result.status = "circuit_breaker" =>
       /\ Trailing = (Len(rows) - Threshold + 1)..Len(rows)
       /\ \A n \in DOMAIN rows : rows[n].cause <=> n \in Trailing
  /\ result.status \notin {"circuit_breaker", "completed"} =>
       /\ pc \notin Deciding => Trailing \subseteq (Len(rows) - Threshold + 2)..Len(rows)
       /\ \A n \in DOMAIN rows : ~rows[n].cause

\* An agent that does nothing is stopped after Threshold iterations, whatever
\* the runner and verification leave in the working tree; the kill switch,
\* which does pass for progress in place, stops it too (gitutil.py:60-86,
\* DECISIONS.md:77-80).
IdleIsStopped == idle <= Threshold /\ (idle = Threshold /\ ~stop => pc # "top")

\* At most one session begins after the kill switch was set, the one that was
\* past its check ("runs halt before next iteration", cli.py, cmd_stop).
StopIsPrompt == late <= 1

\* A session's edits are not left uncommitted, but for a death between the first
\* of them and the checkpoint that follows the session.  In place the next run
\* commits them before its own first session; in a worktree they stay loose,
\* and only there, so that not every state is recoverable from git after a death
\* at that point (docs/SECURITY.md:93, loop.py, the two checkpoints).
EditsAreCommitted ==
  /\ "agent" \in dirty => \/ pc \in {"editing", "post"}
                         \/ (inPlace /\ runs > 1 /\ result.iterations = 0)
  /\ strayed \subseteq {"editing", "post"}

\* A death leaves a run.json without content only if it comes while _save_state
\* writes it, and then all of the run's rows are gone.  At any other moment it
\* lacks no rows but the adapter errors since the last save and, before it is
\* saved, the latest row; when the run is over it has a row for each iteration,
\* with the breaker's causes and the final status (loop.py:176-178 and its callers).
RunJsonIsCurrent ==
  /\ runJson.torn => pc \in {"write", "flush"}
  /\ ~runJson.torn =>
       \A n \in (Len(runJson.rows) + 1)..Len(rows) :
         rows[n].adapter \/ (n = Len(rows) /\ pc = "save")
  /\ pc \in {"end", "over"} =>
       /\ runJson = [torn |-> FALSE, status |-> result.status, rows |-> rows]
       /\ Len(rows) = result.iterations

\* The phases from the first one to the one before p.
Passed(p) ==
  {m \in DOMAIN Phases :
     \E f, n \in DOMAIN Phases :
       Phases[f].id = FirstPhase /\ Phases[n].id = p /\ f <= m /\ m < n}

\* Every phase that STATE.md, or the memory of the run, has left behind has all
\* its requirements covered by done tasks, over crashes and new runs
\* (loop.py:217-249; sessions do not reopen tasks).
PhasesBehindCovered ==
  \A s \in {state, disk} : \A m \in Passed(s.phase) : \A r \in Phases[m].reqs : Covered(r)

\* When the sentinel ends a run, every task that is done was verified as such
\* and nothing the session did is left out of the verified commit
\* (docs/concept.md:61, loop.py, the sentinel check).
CompletedIsVerified ==
  result.status = "completed" =>
    /\ {i \in DOMAIN tasks : IsDone(tasks[i])} \subseteq proven
    /\ "agent" \notin dirty

\* Every run ends (loop.py, the for loop over the cap).
RunEnds == []<>(pc = "over")

\* A phase is done when every requirement in it maps to a task that is done
\* after the [verify] commands passed (docs/planning.md:147).
PhaseIsVerified ==
  \A m \in Passed(state.phase) : \A r \in Phases[m].reqs : \E i \in proven : r \in tasks[i].reqs
=============================================================================
