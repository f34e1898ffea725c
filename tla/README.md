# A TLA+ model of kelix

kelix runs a coding agent in a loop: it picks a task from a markdown backlog,
starts one agent session on it, commits what the session left behind, runs the
project's verification commands, and goes on until the work is done, a limit is
reached or a breaker trips. `kelix fleet` runs several such loops at once, each
on a branch of its own, that share nothing but claim files. These modules model
the parts of kelix whose correctness depends on order, concurrency and failure;
the references `file.py:line` are to `src/src/kelix/`.

## The system

| component | state | operations | talks to |
|---|---|---|---|
| claims (`claims.py`) | one JSON file per task in `.kelix/fleet/claims` | claim_task, heartbeat, mark_claim_done, release_claim, list_claims | the fleet hook, through the file system only |
| backlog (`backlog.py`) | none: pure functions over the parsed file | select_next, waves, parse, serialize | hook, loop, lint |
| lint (`lint.py`) | none | lint_backlog, validate_plan | the spec gate of the loop, plan |
| fleet (`fleet.py`) | results and errors per agent; the hook's locals | claim hook, worker, run_fleet | one loop per thread; claims; metrics |
| loop (`loop.py`) | run result, failure count, run state, run.json | Runner.run, _apply_phase_gate, _trip_breaker, _finish | git, adapter, verify, roadmap, state, memory, metrics |
| roadmap, state | ROADMAP.md (read only), STATE.md | coverage, next_phase, load_state, write_state | the loop's phase gate |
| git rails (`gitutil.py`) | branches, working trees, worktrees | checkpoint, branch, worktree, changed paths | loop and the owner's commands |
| adapter (`adapters.py`) | the child process, two threads, a live log | _run_process | loop, watch |
| verify (`verify.py`) | none | run_verification | loop |
| metrics (`metrics.py`) | loop-metrics.json | append_run_metrics, record and grade a proposal | loop (from each fleet thread), fleet, propose |
| plan, diagnose, propose, distill | a run directory each; QUESTIONS.md, CONTEXT.md, sidecars | one session each, with a validator and a fence of paths | adapter, git, metrics |
| watch (`watch.py`) | heartbeat.json, live logs | write_heartbeat, find_active_runs, follow | loop (writer), `kelix watch` (reader) |
| memory, prompt, context | episodes.jsonl, skills; none | retrospective; digests under a budget | loop |
| security, config, cli, mcp, kiro, art | none worth modelling | | |

What is hard in it:

- *claims*: agents interleave between any two file operations; a file exists
  before it has contents; claims go stale while their owner works; processes die.
- *fleet*: every agent decides on a copy of the backlog that is out of date as
  soon as it is read; completion travels through claim files alone.
- *loop*: one thread, but the kill switch, a crash and a restart come between any
  two steps, sessions and verification may answer anything, and seven exits have to
  agree on what is counted, saved and committed.
- *metrics*: every agent of a fleet, the fleet and the owner load, change and save
  one file without a lock, a read that fails passes for an empty file, and a save
  truncates before it writes.
- *adapter*: a caller, a reader thread, a child and whatever the child leaves
  behind share two pipes; the child's exit races with two limits and two signals.
- *watch*: a reader follows files that another process rewrites and moves on from.
- *the owner's commands*: they run for an hour on branches of one repository, at
  once, die in the middle, and talk to the owner through a file.

What makes each component correct: a claim has one holder and is never lost for
good (claims); the choice respects authorship, status, priority and dependencies,
and lint sees what can never be chosen (backlog, lint); a finished task is not
redone and no task starts before its dependencies are finished (fleet); failures
are counted exactly, edits are committed, and no phase or run is closed on what is
not so (loop); what the ledger says is about whole runs (metrics); no output is lost,
success is the child's own, every session ends (adapter); what is followed is shown
to its end (watch); what is drafted was decided, what is published was fenced, and
what a session edits stays on its branch (plan, propose, diagnose, distill).

## Modules

| module | what it is |
|---|---|
| `ClaimLock` | the abstract lock that claims promise: an owner per task, taken only when free, and told only to the owner |
| `Claims` | `claims.py` at the grain of file operations |
| `ClaimsProofs` | theorems about `Claims` |
| `Backlog` | `select_next`, `waves` and the hook's narrower choice, as operators |
| `Lint` | the cycle search and the dangling dependencies of `lint.py`, as operators |
| `Drain` | one agent without competitors: does the hook's choice lose work? |
| `LintDrain` | lint beside such a drain: does it see what cannot drain? |
| `DrainProofs` | theorems about `Backlog`, `Lint` and `Drain` |
| `Fleet` | several loops with their hooks over shared claims; a call of `claims.py` is one step |
| `FleetProofs` | theorems about `Fleet` |
| `Runner` | the solo loop |
| `RunnerProofs` | theorems about `Runner` |
| `Ledger` | loop-metrics.json with its writers, and what is computed from its rows |
| `LedgerProofs` | theorems about `Ledger` |
| `Session` | one agent session: caller, reader thread, child and pipes |
| `Watch` | a run of several sessions, its heartbeat, and `kelix watch` |
| `WatchProofs` | theorems about `Session` and `Watch` |
| `Workspace` | branches and working trees of the owner's repository |
| `OwnerCommands` | plan, propose, diagnose and distillation over `Workspace` |
| `OwnerProofs` | theorems about `OwnerCommands` |
| `Inductions` | induction and recursion over the naturals in a form the provers can cite |
| `MCClaims`, `MCDrain`, `MCFleet`, `MCRunner`, `MCLedger`, `MCOwner` | instances for TLC; `Watch` is its own |

`Fleet` extends `Backlog` and uses claims as atomic calls, the view that
`Claims` and `ClaimLock` justify as long as no claim is stolen; in `Fleet` a claim
can go stale at any moment (`Expire`), and its properties say what a stale claim
excuses. `Runner` and `Fleet` are two views of `Runner.run`: `Fleet` keeps what
other agents can see of it (`Top`, the hook, `Work`), `Runner` opens up one
iteration. `Session` opens up the one step that both make of a session; `Watch`
extends it with the iterations around it. `Ledger` takes over where `Runner` ends,
with the rows a run ends with. `OwnerCommands` extends `Workspace`, which holds the
git operations that the commands share.

Definitions whose name says *Mutant* in their comment are deliberate mistakes, one
plausible bug each, and no specification uses them: replacing the definition they
stand before must break the property that `PROJECT.json` names.

### Claims

`file` is the directory: per task an absent, a *partial* (created, not yet written)
or a complete claim. `proc` is each agent's position inside a call with the call's
locals, `held` the agents that `claim_task` answered True to and that have not given
the task up, `since` the stamp of that claim. One action per file operation:
`ClaimStart` takes the time stamp, `ClaimRead` is `_read_claim` with the decision on
its result, then `ClaimExists`, `ClaimUnlink`, `ClaimCreate`, `ClaimWrite` or
`ClaimWriteFails`. `heartbeat`, `mark_claim_done` and `release_claim` are a read
with the owner check and a `Replace` or `ReleaseUnlink`; `_write_claim_atomic`
writes a temporary file nobody reads, so only its `os.replace` is a step.
`Crash` drops an agent's position and holdings at any point and leaves its files.

kelix itself calls `claim_task`, `mark_claim_done` and `list_claims` only; nothing
calls `heartbeat` or `release_claim`. The constant `Calls` says which are offered.
The caller of `release_claim` is assumed to have stopped working on the task before
it gives the claim back. An agent with a write pending on a file that was unlinked
meanwhile writes to a file without a name: `OwnFile` tells the two apart.

### Backlog, Lint and Drain

A task is the record the parser yields. `SelectFrom(tasks, S, ...)` is
`select_next` on the sublist `S`: dependencies are looked up among the tasks that
were passed in, which is exactly what makes the hook's filtering delicate.
`Waves` follows the placement loop round by round with a recursive function.
Nothing in the code rejects two tasks of one id; they would share a claim file.
The instances, and `Fleet` by an assumption, have unique ids.

`FindCycle` is the depth-first search of `_find_cycle`, with its recursion as a stack:
`stack` are the calls that have not returned (*visiting*), `left` the dependencies
that the loop of each node has not looked at, `visited` the nodes whose call has
returned. `SearchStep` is the next thing the code does: it starts at a node
(`Enter`), looks at a dependency (`Look`) or returns (`Leave`). Every node is entered
and left once and every dependency is looked at once, so 3 n² steps are enough for
n tasks. `Dangling` is the dependency rule of `lint_backlog` for each of its scopes.

`Drain` starts from every backlog in `Bases` and lets one agent finish or block
whatever its hook picks until the hook finds nothing; `HookIsSelectNext` says that
each choice is the one of `select_next` on the whole backlog, and that the hook ends
the loop only when nothing there could run. `LintFindsWhatSticks` ties lint to the
waves: lint complains exactly when `waves` sets a task aside, or done tasks name one
another in a circle, and the cycle it prints is one. The instance keeps to backlogs in
which done tasks have done dependencies. Elsewhere the hook can end a loop although a
task could run: a done task that waits for an open one hides it from the wave filter
(fleet.py:187), against the hook's docstring (158-159).

### Fleet

`branch[a]` is the status column of agent a's worktree, `agent[a]` its loop:
position (`pc` is *top*, *hook*, *work* or how the loop ended), iteration and
failure counts, and the hook's locals (`view`: the tasks as the hook has them so
far; `listed`: how many claims it has read; `tried`). `Top` is the cap and the kill
switch and enters the hook; `HookList` reads one claim file; `HookMark` is one
effective `mark_claim_done`; `HookTry` is `select_next` and `claim_task` on its
result, which ends the loop when there is no candidate; `Work` is the session, the
verification and the accounting of an iteration. `Crash` ends a loop with an
exception, which run_fleet's worker catches. `Expire` makes a claim stale, `Restart`
is another `kelix fleet` after all agents ended, with new branches from the same HEAD.
`Base` is sorted by id, the order in which `list_claims` reads the directory.
The session changes the status of its own task only, as its prompt demands.

### Runner

One iteration is `Begin` (record, pre-iteration checkpoint, manifest and heartbeat
files), `SessionEdits` (a session under way has left edits) and `Session`, or
`AdapterError`, then `Post` (post-iteration checkpoint, progress), `VerifyCommand`
(one [verify] command after the other, up to the first that is red), `Verify` (the
verdict, episode, phase gate, in the code's order), `Account` (failure, ledger row),
`_save_state` in its two halves `Truncate` and `Write`, and `Decide` (sentinel,
breaker or the next iteration). `Finish` sets the status; after the loop `Truncate`
and `Write` save once more, and `End` is `_finish`, whose retrospective commits what
is loose or fails without a word. `dirty` says *who* left uncommitted changes: the
session, the runner's own bookkeeping, verification, `kelix stop` (its file lies in
the tree when the loop runs in place) or `STATE.md`. `Checkpoint` excludes the
runner's paths and nothing else. `Restart` happens at any point, so that it covers the
death of the process between any two steps, within a session and in the middle of a
write, and a new run after a finished one; the ledger and counts of the new run start
from nothing. `inPlace` says whether runs work in the owner's tree (isolation *none*
and *branch*) or in a worktree of their own. `RestartInPlace` finds the tree, the
backlog and `STATE.md` of the run before it; a death at *end* may have left STATE.md
cut, and the new run then starts without a phase. `RestartInWorktree` starts clean
from the owner's HEAD: it finds neither the commits of the run before nor what was
loose in its worktree, and neither the kill switch nor the runner's files dirty the
tree the agent works in. `strayed` remembers at which steps runs died whose worktree
kept edits of the agent that no commit has.

`EditsAreCommitted` says where an edit can be loose at all: between the session's first edit
and the checkpoint that follows the session. A run that dies there in place is
followed by one that commits the edits before its own session; a run that dies there
in a worktree leaves them in that worktree, where nothing looks again. Hence
docs/SECURITY.md:93-94, that with checkpoints "no agent edit is ever lost and every
state is recoverable from git", holds of every death but those at *editing* and *post*
in a worktree, and the property says both. `RunJsonIsCurrent` says likewise that a
death leaves an empty run.json only while `_save_state` writes it (loop.py:178), with
all rows gone, and at other moments lacks the adapter errors since the last save
and, before it is saved, the latest row.

### Ledger

`ledger` is what `load_metrics` would yield: the document, or the empty one while the
file is truncated. A writer is a run, the fleet's main thread (`"main"`) or the owner;
`doc` is the changed copy that it holds between its load and its save. `RunLoads`,
`MainLoads` and `OwnerLoads` are `append_run_metrics` of a run's rows, that of the
fleet's summary, and `record_proposal_outcome` or `grade_proposal`; `Truncate` and
`Write` are the two halves of every save, `SaveFails` an error or a death in either.
`Reads` is what a load finds: the file, or, when the read raises an OSError, the empty
ledger (metrics.py:226), as if there were no file. `Efficacy`, `Windows`, `Stats` and
`Grade` are the figures that the code computes from the rows, with rates as fractions.

Rows do get lost: two agents of a fleet that end together load the same file, and the
later save drops the earlier rows (metrics.py:282), although
docs/memory-and-skills.md:140 has all agents append. Two other things lose them: a
save that is cut short, and a read that fails, after which the next save writes a
ledger with nothing else in it, though no one else touched the file. `LossHasACause`
says that these three are all, for the rows of runs and for the fleet's summary, and
the other properties say what may be trusted whatever was lost. The summary is
computed from the results in memory and so is right even when rows are missing.
Recording an outcome again without a run id moves its boundary to the run that is last
by then.

### Session and Watch

`main` is the calling thread in `_run_process`: *spawn*, *feed* (the prompt goes
to the pipe in units), *poll* and *clock* (the loop over `proc.poll` and the two
limits), *kill* and *term* (`_terminate_process`), *join*. `reader` is the reader
thread: it takes a chunk off the pipe, stores it under the lock and copies it to
the live log. The child reads, writes, forks a process that keeps the output pipe
open (*heir*), exits with any status at any time and may ignore SIGTERM. A limit
passes between any two steps of the caller (`HardPasses`, `IdlePasses`);
output takes back an idle limit that nobody has looked at yet.

`Join` assumes that five seconds are enough for the reader to drain a pipe that all
writers have closed; if somebody still holds it, the join may give up at any moment.
Before the reader exists nobody takes the child's output, so a child that fills its
output pipe before it reads a prompt larger than the input pipe blocks `Feed` for
good; no limit runs yet. `SessionEnds` therefore starts when the prompt is
delivered. A child that leaves before it has read the prompt makes the write fail
with a BrokenPipeError, which is no `AdapterError` and ends the run (*raised*).

`Watch` runs such sessions, one per iteration, with the heartbeat before each
(`Iterate`) and at the end (`Finish`); `Exit` ends the process at any moment.
`follow` is the loop of `ReadBeat`, `Open`, `Read` and `Decide`; each reads files that
have moved on since the step before. When the process is gone without a finished
heartbeat, the last bytes of the log may stay unread, because the follower looks
the process up after it has read the log; `FollowedIsComplete` does not claim them.

### Workspace and OwnerCommands

A tree maps each path, or class of paths that the code treats alike, to who wrote
it: nobody, the owner, or a command. `commits` has the tip of main and of each
command's branch. `Prepare` is `_prepare_workdir` under the three values of
`[git] isolation`, `Checkpointed` what a checkpoint leaves at the tip, `CheckoutMain`
the owner's `git checkout` with git's refusal to overwrite.

Each command is a chain of steps: `Begin`, a checkpoint and the tip to compare with
(`Rebase`), `Session`, and the verdict (`Draft`, `Publish`, `Diagnosis`, `Distilled`).
`Plan` first looks for QUESTIONS.md: completely answered it is drafted from, otherwise
it is shown at the terminal or waited for, absent it is asked for in an interview.
Four paths follow what happens to it: `"questions"` holds the command whose interview
wrote the file, `"partial"` that command again when some of its answers are filled in,
`"answers"` when all are, and `"context"` the interview whose decisions CONTEXT.md
lists. The first three are parts of one file, QUESTIONS.md, so `CheckoutMain` is told
to refuse when git would have to overwrite one of them while another is loose.
`Answer` is the owner who fills in some of the file or the rest of it. The interview's
agent may do so as well: `answer:` lines in its own block are parsed and written out
like any other (plan.py:225-228, 257), so `Asked` writes the file with none, some or
all of them filled in. Like every write of a file, this one empties it first (`Cut`),
and a QUESTIONS.md without content counts as absent. `Terminal` asks every question,
whatever answers the file has (plan.py:285-320), and `Recorded` keeps only what it was
told there. `answered` records who left no question of an interview open, the owner or
the agent. `Die` ends a command between any two steps; what it left in trees and
branches stays.

Some properties have exceptions that the code makes necessary:

- An interview may edit files, and the checkpoint before the draft commits them before
  the tip to compare with is taken: a completed plan whose interview was held by the
  same command may carry code, though docs/planning.md:47 says that `kelix plan`
  never implements code (`CompletedIsFenced`).
- The distillation after a fleet works in the root, on the owner's branch, under every
  isolation, and commits whatever is loose there; docs/SECURITY.md:83-87 keeps
  sessions off it (`SessionsStayOffMain`). `assert_not_protected` has no caller.
- Two plan commands at once can overwrite answers that were given after one of them
  read the file. A plan at the terminal that finds the file partly filled in asks every
  question again, with the recommended option as default, and overwrites what the
  owner had answered (plan.py:406-416); if it dies in that write, no answers are
  left at all. Answers that a checkpoint committed leave the root with their branch
  (`AnswersAreKept`).
- The agent of an interview without a terminal may fill in every `answer:` line
  itself; the next `kelix plan` takes the file for answered and drafts, though
  docs/planning.md:48-49 has it wait for the owner (`DraftIsDecided`). The interview's
  own command never drafts on them.
- With isolation *none*, propose makes a branch and stays on the owner's: the sidecar
  names a branch without the edits (`SidecarNamesItsBranch`).
- The fence of distillation compares commits, so loose edits outside it are committed
  by its own checkpoint; the cap counts every candidate of every run and drops the
  last by name.
- diagnose has no fence and no checkpoint.

## Runs

| run | instance | shows |
|---|---|---|
| claims | 3 agents, 2 tasks, all calls, faults, nothing stale | `MutualExclusion`, `HeldIsOwned` and the refinement of `ClaimLock` |
| claims_stale | 2 agents, 1 task, limit 1, time to 3, no faults | `ClaimNamesAHolder`: when all calls have returned, the claim names an agent that knows it, whatever was stolen; `StaleIsReplaced` |
| claims_steal | as before with 3 agents | **violated**: `SingleStealWinner`, the comment at claims.py:80 |
| claims_crash | 2 agents, faults | **violated**: `StaleIsReclaimable`, docs/fleet.md:163 |
| drain | all backlogs of 3 tasks in which done tasks have done dependencies | the hook picks what `select_next` picks; waves are levels; order of choice; lint sees what sticks |
| fleet | 2 agents, a chain of 2 tasks, 2 fleets | double work and redone work only after a claim went stale; dependencies finished first; done-claims belong to their finisher and stay; every fleet ends |
| fleet_lost | 2 agents, C after A and B | **violated**: `NoWorkRemains`, docs/fleet.md:107 |
| runner | 2 tasks, 2 phases, cap 3, threshold 2, 2 commands, 2 runs, deaths within sessions and writes | breaker, kill switch, checkpoints, run.json, gate, sentinel, termination |
| runner_gate | as runner, 1 run | **violated**: `PhaseIsVerified`, docs/planning.md:147 |
| ledger | a solo run, 2 agents of a fleet, its summary, 2 commands of the owner, 1 fault (a death, a read or a save) | rows whole, and lost only to overlap, a failing read or a cut save; efficacy, summary and windows |
| live | 2 iterations of 2 chunks each, pipes of 1, both limits, a follower | output complete, success the child's own, follower complete; sessions and follower end |
| owner | 2 commands of any kind, each isolation, 1 edit per session, 2 candidates with a cap of 1 | decisions before drafts, answers kept, fences, branches, sidecars |

Four runs find what a document or comment promises and the code does not do; each
trace is a legal sequence of the code's own steps, and `findings` in
`PROJECT.json` quotes both sides.

Why the bounds are enough. Claims are per task and an agent is in one call at a time,
so two tasks only serve to let an agent hold one while it asks for another, and three
agents are a stealer, a victim and a bystander. Time has the three values that matter
around a limit of 1: before, at and after it; the run `claims` stops the clock at the
limit, since exclusion is promised for live claims only, and `claims_stale` goes two
ticks beyond. Three tasks are the least in which a task waits for two others, in which
a cycle leaves a third task out and in which two sort keys can disagree. Two agents
are the least that compete; a chain makes one wait for the other, and a second fleet
finds what the first left. `Cap = 2` lets each agent work, publish and work again.
`fleet` has a breaker `Threshold` of 1, so that a failure ends an agent in the middle;
the proofs cover every other value. In `runner` a threshold of 2 separates "a failure"
from "in a row", a cap of 3 leaves one iteration before or after two failures, two
commands make a green one before a red one, and a second run is what a restart needs.
In `ledger` a run ends with one or two rows or raises, and the one fault falls on a
run, a read or a save, where one failing read or save is enough to lose all rows;
three runs make windows on both sides of a boundary, and two commands record a
proposal again or regrade it. In `live` a pipe of one makes every second write wait,
the second chunk is the one a careless end would lose, and the second iteration is the
one a follower moves on to; the prompt is larger than its pipe. In `owner` two
commands are the least that overlap, or follow one another over what the first left;
one edit puts a session inside or outside its fence, and one candidate more than the
cap makes it drop one. Commands overlap only in worktrees of their own, since in one
tree they would overwrite one another file by file; a session commits all its edits or
none. The symmetry used is that of agents, which nothing compares; it is left out
where liveness is checked.

`CHECK_DEADLOCK FALSE`: in every module the system really stops, when all agents,
commands or the run are over, or when time, bounded by `MaxTime`, has run out.

## Fairness

- `Claims!FairSpec`: time passes; an agent inside a call goes on (threads are
  scheduled); and for each task *some* agent goes on asking while any can. The last
  is what the loop does: every hook asks for its candidate each time round.
- `Fleet!FairSpec`: each agent's loop goes on until it has ended. Sessions end
  because the adapter's timeout kills them. It is written without WF, as
  `FairLoop`: `Loop(a)` is enabled just until `a` has ended, and TLC evaluates
  ENABLED of the hook's choice very slowly.
- `Runner!FairSpec`: the loop goes on. Sessions and verification commands have
  timeouts (`[agent] timeout_seconds`, `[verify] timeout_seconds`).
- `Watch!FairSpec`: the caller and the reader are scheduled while their process
  lives, the clock reaches the hard limit, and the follower goes on. The child and
  what it leaves behind owe nothing, and the run need not begin another iteration.
- Crashes, deaths, stale claims, failing saves, the kill switch, restarts and
  everything the owner does are never forced.

## Proofs

`ClaimsProofs`, for any sets of agents and tasks, any limit and any bound on time:

- `TypeCorrect`: `Spec => []TypeOK`, with every fault and call.
- `HeldIsOwnedWhileFresh` and `ExclusionWhileFresh`: while no claim outlives the
  limit (`[]NoneStale`), `HeldIsOwned` and `MutualExclusion` are invariants.
- `ImplementsLock`: under the same condition `Spec => LockSpec`, under the mapping
  owner[t] = the author of the file at t's path.
- `StealLosesNoTask`: claims may go stale and be stolen, by many agents at once; as long
  as no process dies, no write fails and nobody calls `release_claim` (nothing in
  kelix does), `ClaimNamesAHolder` is an invariant.

Exclusion is not inductive: that `claim_task` may answer True after its write
depends on the file still being the one it created. The inductive invariant `IInv`
therefore says, for each agent, what its position in a call entails (`CallInv`):
at `write` the path holds its own partial file, and it does not hold the task yet;
at `replace` it owns the claim it is about to replace; at `release` it owns the claim
and no longer relies on it; nobody is ever at `unlink`. Together with the author of
a complete claim being its agent (`AuthorInv`) and `HeldIsOwned` this is
preserved by every step; TLC checked it before it was proved. The condition on stale
claims is needed: `claims_steal` is the counterexample without it.

`StealLosesNoTask` has an invariant of its own, `NamesInv`. `PathInv` follows the path
of a task: the author of a partial file is about to write it, the author of a complete
claim holds the task, and where the path is empty although somebody holds the task or
is about to write a claim to a file that is gone, somebody is about to create it: each
agent that unlinks a claim goes on to create. `ReplaceInv` says that who marks a claim
done holds it. With deaths this fails (`claims_crash`), and `release_claim` can unlink
a claim that another agent took over in between.

`DrainProofs`, for backlogs of any length with any ids, statuses, authors and
dependencies:

- `WavesAreDependencyLevels`: `WavesAreLevels`, if no two tasks share an id. What no
  round places is shown to be the largest set of tasks that wait within it
  (`StuckIsLargest`), whatever the ids.
- `HookChoosesLikeSelectNext` and `NothingIsPassedOver`: `HookIsSelectNext` and
  `NeverPassedOver`, if done tasks wait for no open ones (`DoneClosed`), which every
  step of a drain preserves. All candidates are then in the first open wave
  (`HookCandidates`); that there is a first one in the order of the sort key is shown by
  induction over the number of candidates looked at (`SomeoneIsFirst`).
- `LintNamesWhatSticks`: `LintFindsWhatSticks`, under both conditions. `SearchInv` is the
  invariant of the search: the stack is a path without repetition, what is visited has
  no circle in it and depends on visited nodes only, and what a node on the stack has
  looked at is visited or next on the stack. The search ends within its bound because
  each step makes something happen that did not before (`SomethingHappens`), and no
  more can happen than there are pairs of ids, three times over (`SearchEnds`).

Both conditions are needed, and the code enforces neither: nothing rejects two tasks
of one id, and a done task can be edited to wait for an open one (the wave filter then
hides the open task) or for a missing one (the scope *active* then leaves it out).

`FleetProofs`, for any agents, any backlog with unique ids, any cap and breaker, any
number of fleets, with crashes, the kill switch and claims that go stale at
any moment:

- `TypeCorrect`: `Spec => []TypeOK`, in which counts stay within cap and breaker.
- `DoubleWorkNeedsAStaleClaim` and `FinishedIsNotRedone`: `NoDoubleWork` and `NoRedo`.
- `DependenciesComeFirst`: `DepsFinished`, whatever went stale.
- `DoneClaimsAreEarned` and `DoneClaimsStay`: `DoneClaimOwned` and the action
  property `DoneClaimStays`.

None of these is inductive alone. `DepsFinished` follows from what the hook's copy
of the backlog says, and that copy is old when it is used; so `ViewInv` says of each
copy that what it calls done was done by its agent, by another whose claim was
read, or before the fleet. That claims are a sound source rests on
`DoneClaimOwned`, which rests on `BranchInv`: a done line in a branch is its agent's own
work or was in the base. `ClaimInv` ties work and completion to the claim: as long as a
task's claim never went stale, it names everybody who works on the task or finished
it, hence at most one agent; `NoDoubleWork` and `NoRedo` follow at once. `BaseInv` keeps
tasks that were done at the start out of everybody's hands. `IInv` is their
conjunction with the types. That the choice of `select_next` is the first in its order
is not needed, only that it is eligible (`PickIsReady`).

`RunnerProofs`, for any backlog, any roadmap with unique phase ids, any cap,
breaker, verification commands and number of runs, with the kill switch and the
death of the process between any two steps:

- `StopTakesOneSession`: `StopIsPrompt`; `StopInv` adds that a session begun late leaves
  the loop past its check only once.
- `RunJsonKeepsUp`: `RunJsonIsCurrent`, from `CountInv` (each iteration that is not under
  way has its row) and `FileInv`: run.json is torn between the two halves of a save only,
  and the rows after the last save are adapter errors or not saved yet.
- `BreakerCountsExactly`: `BreakerIsExact`. `TailInv` says that the failure count is the
  number of failing rows at the end of the ledger, exactly; `TripInv` relates it to
  the status of the run and to the rows that carry its cause.
- `IdlersAreStopped`: `IdleIsStopped`. `IdleInv` follows an idle session through
  the steps of its iteration: what could make the checkpoint take it for progress is
  never in the tree, unless `kelix stop` left its file there.
- `EditsAreKept`, `CompletedMeansVerified` and `PhasesAreCovered`:
  `EditsAreCommitted`, `CompletedIsVerified` and `PhasesBehindCovered`. `EditsInv`
  adds that a run that has begun an iteration has committed what it found. `DoneInv`
  carries what verification has seen to the sentinel; `PhaseInv` says of both STATE.md
  and the run's copy that the phases before theirs are covered, which no later session
  can undo.

`WatchProofs`, for any prompt, pipe sizes, limits, number of iterations and whatever
the child does:

- `OutputIsWhole` and `SuccessIsOwnExit`: `OutputIsComplete` and `OkIsOwnExit`.
  `OutputInv` splits what the child wrote, in order, into what the reader stored, what is
  in its hand and what is in the pipe; the reader is done only when the last two are
  empty.
- `FollowedToTheEnd`: `FollowedIsComplete`. What the follower knows is old when it acts
  on it; `FollowInv` says what an old heartbeat still implies: the logs of the
  iterations before it are final (`LeftInv`), and so is the last one once it says
  finished (`LastInv`).

`OwnerProofs`, for any number of commands of every kind, any paths, candidates, cap
and edits, the three isolations, the owner at work in the root and deaths at any step:

- `DraftsAreDecided` and `AnswersStay`: `DraftIsDecided` and `AnswersAreKept`. The
  answers reach a plan through files. `AnswerInv` says of every tree and commit that
  the answers in it are to the questions beside them and, when complete, were given by
  the owner or by the interview's agent. `DecidedInv` says what the position of a plan
  entails: until it has written its questions it found no answers to overwrite, at the
  terminal not all of them, and from the draft on its decisions were made by the owner
  or found in the file of an earlier interview.
- `MainIsOffLimits`: `SessionsStayOffMain`. `MainInv` adds the root's tree, from which a
  fleet's distillation commits.
- `CompletedStaysFenced`: `CompletedIsFenced`. The verdict compares two tips of one
  branch; that this is enough takes `FenceInv`: before its session nothing of a
  command's is anywhere, at the session's start its base has nothing of it, and at the
  verdict all of it is in the command's own tree and branch.
- `SidecarsNameTheirBranch`: `SidecarNamesItsBranch`, with `PolicyInv`: a policy file in
  the tree of a proposal is the session's or as in its base.

All of them rest on `OrderInv`: in one tree commands take turns and the head is theirs;
with worktrees the root stays on main.

`LedgerProofs`, for any runs, fleet, rows, proposals, commands and failing saves:

- `EfficacyFollowsRows`: `EfficacyIsCurrent`. `DocInv` says it of the copies that writers
  hold as well, since any of them may be saved last.
- `NothingElseLosesRows`: `LossHasACause`. `LossInv`: as long as no writers overlapped, no
  read failed and no save was cut short there is one writer at a time, and its copy is
  the file and its own run. `SummaryKept` says the same of the fleet's summary.

- `NoHalfRun`: `RowsComeWhole`. `WholeInv` says of the file and of every copy that the
  rows of each run in it are one block (`IsBlock`), which the loss of a save undoes
  only as a whole.
- `SummaryWaitsForAgents`: `SummaryIsFinal`. By `SummaryInv` the main thread computes the
  summary when all agents have ended, the rows of an agent that has ended never change,
  and every copy has no summary or that one.
- `WindowsDoNotMeet`: `WindowsAreApart`. The run ids that the windows are cut from are in
  the order of their first rows (`RunIdsInOrder`, by induction over the rows), and with
  `WholeInv` so are all rows of those runs.

What the efficacy and the summary are of a given sequence of rows does not matter for
this; they stay operators that the proofs only expand for no rows at all.

`Inductions` is what makes the recursions of `Backlog`, `Lint` and `Ledger` accessible.
The library's induction theorems take a predicate as a parameter; here it is a set of
naturals (`SetInduction`, `BoundedInduction`), and that a recursively defined function
has the value its definition suggests follows from `RecursionExists`. All of it rests on
the well-foundedness of < on the naturals.

Assumptions: `None` is neither an agent nor a task, phase ids are unique, a session
edits neither the runner's bookkeeping nor the questions file, the bounds are
natural numbers, and what else the modules' named ASSUMEs say; TLC evaluates them in
every run.

Out of the prover's reach, and left to TLC: liveness (`StaleIsReplaced`, `FleetEnds`,
`RunEnds`, `SessionEnds`, `WatchEnds`), which needs ENABLED, and what a fold of the
community modules computes (the numbers in an efficacy, a grade or a summary), since
the definition of a fold is recursive with an operator as its parameter. Every
invariant and every other action property that a passing run checks is a theorem,
under the hypotheses named above.

## Not modelled, and why

`PROJECT.json` lists every component. Text formats (backlog, STATE.md, roadmap,
QUESTIONS.md, prompts, receipts, transcripts) are abstracted to the values they
carry; regular expressions (`security.py`, the wording rules of `lint.py`) and
floating point scores (`context.py`) are out of TLC's reach; `config.py`,
`mcp_server.py`, `kiro.py` and `art.py` keep no state, and of `cli.py` only what sets
the kill switch, starts a run or records a proposal does. Two agents with the same
id, two runs with the same run id, and task ids that are not unique are not modelled.
A git command that fails is not modelled; it raises and ends the command, as `Die` and
`Restart` do between any two steps.

Known of the code, from modelling it, and covered by no property or excepted from one:

- A claim is marked done as soon as its agent's backlog line says so, whether or not
  verification was green (fleet.py:179, the comment at 168-169).
- The episode is recorded before the iteration's failure is computed (loop.py:659,
  663-677), so that episodes never carry a failure.
- `lint_backlog_edits` lints only the edited tasks: a dependency on a task that was
  not edited is reported as dangling, and a cycle through one is missed.
- With worktrees, a run that dies during a session leaves the agent's edits in a
  worktree that nothing looks at again, against docs/SECURITY.md:93-94
  (`EditsAreCommitted` excepts it).
- A death while run.json is written leaves it empty (loop.py:178); `kelix status`
  shows no status for the run (fleet.py:597-600), and every row is gone
  (`RunJsonIsCurrent` excepts it).
- A ledger that cannot be read is overwritten by the next append (metrics.py:226;
  `LossHasACause` excepts it).
- QUESTIONS.md may come answered from the agent, and the terminal overwrites partial
  answers (see the exceptions under *Workspace and OwnerCommands*).
- A breaker threshold of 0 trips after a successful iteration and marks every row
  (loop.py:739); `Runner` assumes a positive one, as nothing else makes sense.

## Plan

Done, in this order: claims with their abstract lock and proofs; selection, waves
and lint; the fleet and its proofs; the solo loop; the ledger; sessions and watch;
the owner's commands; the theorems about each.

Next: what `ClaimNamesAHolder` becomes when processes die; the refinement of `Claims`'
atomic view in `Fleet`; the composition of `OwnerCommands` with a `Runner` that works in the
same tree; `find_active_runs` over several runs.
