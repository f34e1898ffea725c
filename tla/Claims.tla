------------------------------- MODULE Claims -------------------------------
(***************************************************************************)
(* The claim files of claims.py at the grain of file operations.  The      *)
(* agents of a fleet share one directory with a file per task and no lock; *)
(* every read, unlink, exclusive create, write and rename below is one     *)
(* step, and agents interleave between any two of them.                    *)
(*                                                                         *)
(* A file that was created and not yet written is "partial".  The writer   *)
(* holds a descriptor, so a write reaches the file it created even when    *)
(* the path has been unlinked or replaced meanwhile: it is then lost.      *)
(***************************************************************************)
EXTENDS Integers

CONSTANTS
  Agents,       \* fleet agents, each one thread
  Tasks,        \* task ids
  None,         \* neither an agent nor a task
  StaleAfter,   \* stale_after_s
  MaxTime,      \* bound: the clock stops here
  Faults,       \* whether processes crash and writes fail
  Calls         \* the calls agents make besides claim_task; kelix itself only
                \* makes "done" (fleet.py:180), the rest is offered by claims.py

ASSUME ClaimsAssumption ==
  /\ None \notin Agents \cup Tasks
  /\ StaleAfter \in Nat
  /\ MaxTime \in Nat
  /\ Faults \in BOOLEAN
  /\ Calls \subseteq {"done", "heartbeat", "release"}

VARIABLES
  file,         \* task -> what is at the claim path
  clock,        \* time.time()
  proc,         \* agent -> where it is in a call and the call's locals
  held,         \* task -> agents that claim_task told they hold it (history)
  since         \* task -> agent -> when the claim it was told of was stamped

vars == <<file, clock, proc, held, since>>

----------------------------------------------------------------------------
Absent == [st |-> "absent", agent |-> None, hb |-> 0, done |-> FALSE]

\* Created by a with O_EXCL and still empty; hb is the time of creation, which
\* no reader can see.
Partial(a) == [st |-> "partial", agent |-> a, hb |-> clock, done |-> FALSE]

\* Mutant: the stamp lies a tick in the past.
ClaimBackdated(a, now) == [st |-> "claim", agent |-> a, hb |-> now - 1, done |-> FALSE]

Claim(a, now) == [st |-> "claim", agent |-> a, hb |-> now, done |-> FALSE]

\* Mutant: stale one tick early.
IsStaleAtLimit(f) == clock - f.hb >= StaleAfter

IsStale(f) == clock - f.hb > StaleAfter

\* seen: the record a replace is about to write.
Idle == [pc |-> "idle", task |-> None, now |-> 0, seen |-> Absent]

Goto(a, pc) == proc' = [proc EXCEPT ![a].pc = pc]

Return(a) == proc' = [proc EXCEPT ![a] = Idle]

Init ==
  /\ file = [t \in Tasks |-> Absent]
  /\ clock = 0
  /\ proc = [a \in Agents |-> Idle]
  /\ held = [t \in Tasks |-> {}]
  /\ since = [t \in Tasks |-> [a \in Agents |-> 0]]

----------------------------------------------------------------------------
(* claim_task.  The time stamp of the new claim is taken on entry.         *)

ReturnTrue(a, t, stamp) ==
  /\ Return(a)
  /\ held' = [held EXCEPT ![t] = @ \cup {a}]
  /\ since' = [since EXCEPT ![t][a] = stamp]

ReturnFalse(a) == Return(a) /\ UNCHANGED <<held, since>>

ClaimStart(a, t) ==
  /\ proc[a].pc = "idle"
  /\ proc' = [proc EXCEPT ![a] = [Idle EXCEPT !.pc = "read", !.task = t, !.now = clock]]
  /\ UNCHANGED <<file, clock, held, since>>

\* Mutant: a stale claim is refused like a live one.
ClaimReadNoSteal(a) ==
  LET t == proc[a].task
      f == file[t]
  IN  /\ proc[a].pc = "read"
      /\ IF f.st # "claim" THEN Goto(a, "exists") /\ UNCHANGED <<held, since>>
         ELSE IF f.agent = a THEN ReturnTrue(a, t, f.hb) ELSE ReturnFalse(a)
      /\ UNCHANGED <<file, clock>>

\* A live claim is an answer; a stale one is stolen; what cannot be parsed is
\* looked at again.
ClaimRead(a) ==
  LET t == proc[a].task
      f == file[t]
  IN  /\ proc[a].pc = "read"
      /\ \/ /\ f.st = "claim" /\ ~IsStale(f)
            /\ IF f.agent = a THEN ReturnTrue(a, t, f.hb) ELSE ReturnFalse(a)
         \/ /\ f.st = "claim" /\ IsStale(f)
            /\ Goto(a, "unlink")
            /\ UNCHANGED <<held, since>>
         \/ /\ f.st # "claim"
            /\ Goto(a, "exists")
            /\ UNCHANGED <<held, since>>
      /\ UNCHANGED <<file, clock>>

\* path.exists(): a file that cannot be read belongs to somebody.
ClaimExists(a) ==
  /\ proc[a].pc = "exists"
  /\ IF file[proc[a].task].st = "absent"
     THEN Goto(a, "create") /\ UNCHANGED <<held, since>>
     ELSE ReturnFalse(a)
  /\ UNCHANGED <<file, clock>>

\* Mutant: the stealer leaves the create to the next call.
ClaimUnlinkAndLeave(a) ==
  /\ proc[a].pc = "unlink"
  /\ file' = [file EXCEPT ![proc[a].task] = Absent]
  /\ ReturnFalse(a)
  /\ UNCHANGED clock

\* The stealer removes whatever is at the path by now.
ClaimUnlink(a) ==
  /\ proc[a].pc = "unlink"
  /\ file' = [file EXCEPT ![proc[a].task] = Absent]
  /\ Goto(a, "create")
  /\ UNCHANGED <<clock, held, since>>

\* Mutant: the file is opened without O_EXCL.
ClaimOpen(a) ==
  /\ proc[a].pc = "create"
  /\ file' = [file EXCEPT ![proc[a].task] = Partial(a)]
  /\ Goto(a, "write")
  /\ UNCHANGED <<clock, held, since>>

ClaimCreate(a) ==
  LET t == proc[a].task
  IN  /\ proc[a].pc = "create"
      /\ IF file[t].st = "absent"
         THEN /\ file' = [file EXCEPT ![t] = Partial(a)]
              /\ Goto(a, "write")
              /\ UNCHANGED <<held, since>>
         ELSE ReturnFalse(a) /\ UNCHANGED file
      /\ UNCHANGED clock

\* The path still names the file that a created.
OwnFile(a, t) == file[t].st = "partial" /\ file[t].agent = a

ClaimWrite(a) ==
  LET t == proc[a].task
  IN  /\ proc[a].pc = "write"
      /\ file' = IF OwnFile(a, t)
                 THEN [file EXCEPT ![t] = Claim(a, proc[a].now)] ELSE file
      /\ ReturnTrue(a, t, proc[a].now)
      /\ UNCHANGED clock

\* The write raises (a full disk): the path is unlinked and the error leaves
\* claim_task.
ClaimWriteFails(a) ==
  /\ Faults
  /\ proc[a].pc = "write"
  /\ file' = [file EXCEPT ![proc[a].task] = Absent]
  /\ ReturnFalse(a)
  /\ UNCHANGED clock

----------------------------------------------------------------------------
(* heartbeat, mark_claim_done and release_claim: read, check the owner,    *)
(* then replace or unlink the path.                                        *)

Owns(a, t) == file[t].st = "claim" /\ file[t].agent = a

StartReplace(a, t, record) ==
  proc' = [proc EXCEPT ![a] = [Idle EXCEPT !.pc = "replace", !.task = t, !.seen = record]]

Heartbeat(a, t) ==
  /\ "heartbeat" \in Calls
  /\ proc[a].pc = "idle"
  /\ Owns(a, t)
  /\ StartReplace(a, t, [file[t] EXCEPT !.hb = clock])
  /\ UNCHANGED <<file, clock, held, since>>

MarkClaimDone(a, t) ==
  /\ "done" \in Calls
  /\ proc[a].pc = "idle"
  /\ Owns(a, t)
  /\ ~file[t].done
  /\ StartReplace(a, t, [file[t] EXCEPT !.done = TRUE, !.hb = clock])
  /\ UNCHANGED <<file, clock, held, since>>

\* os.replace of the temporary file.
Replace(a) ==
  /\ proc[a].pc = "replace"
  /\ file' = [file EXCEPT ![proc[a].task] = proc[a].seen]
  /\ Return(a)
  /\ UNCHANGED <<clock, held, since>>

Forget(a, t) ==
  /\ held' = [held EXCEPT ![t] = @ \ {a}]
  /\ since' = [since EXCEPT ![t][a] = 0]

\* Mutant: the owner is not checked.
ReleaseAnyClaim(a, t) ==
  /\ "release" \in Calls
  /\ proc[a].pc = "idle"
  /\ file[t].st = "claim"
  /\ proc' = [proc EXCEPT ![a] = [Idle EXCEPT !.pc = "release", !.task = t]]
  /\ Forget(a, t)
  /\ UNCHANGED <<file, clock>>

\* The caller has stopped working on t before it gives t back.
ReleaseClaim(a, t) ==
  /\ "release" \in Calls
  /\ proc[a].pc = "idle"
  /\ Owns(a, t)
  /\ proc' = [proc EXCEPT ![a] = [Idle EXCEPT !.pc = "release", !.task = t]]
  /\ Forget(a, t)
  /\ UNCHANGED <<file, clock>>

ReleaseUnlink(a) ==
  /\ proc[a].pc = "release"
  /\ file' = [file EXCEPT ![proc[a].task] = Absent]
  /\ Return(a)
  /\ UNCHANGED <<clock, held, since>>

----------------------------------------------------------------------------
\* The agent's process dies at any point and comes back with no memory of
\* what it held; its files stay.
Crash(a) ==
  /\ Faults
  /\ Return(a)
  /\ held' = [t \in Tasks |-> held[t] \ {a}]
  /\ since' = [t \in Tasks |-> [since[t] EXCEPT ![a] = 0]]
  /\ UNCHANGED <<file, clock>>

Tick ==
  /\ clock < MaxTime
  /\ clock' = clock + 1
  /\ UNCHANGED <<file, proc, held, since>>

Step(a) ==
  \/ ClaimRead(a) \/ ClaimExists(a) \/ ClaimUnlink(a) \/ ClaimCreate(a)
  \/ ClaimWrite(a) \/ ClaimWriteFails(a) \/ Replace(a) \/ ReleaseUnlink(a)

Call(a, t) ==
  ClaimStart(a, t) \/ Heartbeat(a, t) \/ MarkClaimDone(a, t) \/ ReleaseClaim(a, t)

Next ==
  \/ Tick
  \/ \E a \in Agents : Step(a) \/ Crash(a) \/ \E t \in Tasks : Call(a, t)

Spec == Init /\ [][Next]_vars

\* Threads are scheduled, and some agent goes on asking for each task.
FairSpec ==
  /\ Spec
  /\ WF_vars(Tick)
  /\ \A a \in Agents : WF_vars(Step(a))
  /\ \A t \in Tasks : WF_vars(\E a \in Agents : ClaimStart(a, t))

----------------------------------------------------------------------------
(* Properties.                                                             *)

FileRecord ==
  [st : {"absent", "partial", "claim"}, agent : Agents \cup {None},
   hb : Nat, done : BOOLEAN]

ProcRecord ==
  [pc : {"idle", "read", "exists", "unlink", "create", "write", "replace", "release"},
   task : Tasks \cup {None}, now : Nat, seen : FileRecord]

TypeOK ==
  /\ file \in [Tasks -> FileRecord]
  /\ clock \in 0..MaxTime
  /\ proc \in [Agents -> ProcRecord]
  /\ held \in [Tasks -> SUBSET Agents]
  /\ since \in [Tasks -> [Agents -> Nat]]

\* An agent that was told it holds a task finds its own claim in the file for
\* as long as it relies on it (claims.py, claim_task and release_claim).
HeldIsOwned == \A t \in Tasks : \A a \in held[t] : Owns(a, t)

\* No claim in the directory has outlived stale_after_s.
NoneStale == \A t \in Tasks : file[t].st = "claim" => ~IsStale(file[t])

\* Two agents never work the same task (docs/fleet.md, "Claims").
MutualExclusion == \A t \in Tasks : \A a, b \in held[t] : a = b

\* The claim a was told of has not outlived stale_after_s.
LeaseRuns(a, t) == a \in held[t] /\ clock - since[t][a] <= StaleAfter

\* Among agents that steal a stale claim at the same time one wins: no two
\* agents were both told that they hold the task by claims that are still
\* young (claims.py:81, the comment on unlink + O_EXCL).
SingleStealWinner ==
  \A t \in Tasks : \A a, b \in Agents : LeaseRuns(a, t) /\ LeaseRuns(b, t) => a = b

\* The file at t's path is older than stale_after_s and its author neither
\* relies on it nor is still writing it.
Abandoned(t) ==
  /\ file[t].st # "absent"
  /\ IsStale(file[t])
  /\ file[t].agent \notin held[t]
  /\ proc[file[t].agent].task # t

\* claim_task returns False to a.
Refused(a) ==
  /\ ClaimRead(a) \/ ClaimExists(a) \/ ClaimCreate(a)
  /\ proc'[a].pc = "idle"
  /\ a \notin held'[proc[a].task]

\* A crashed agent's claim goes stale and becomes reclaimable: nobody is told
\* that a task is taken when its author has abandoned the claim for more than
\* stale_after_s (docs/fleet.md, "Failure modes").
StaleIsReclaimable ==
  [][\A a \in Agents : Refused(a) => ~Abandoned(proc[a].task)]_vars

\* Stealing never loses a task: once every call has returned, a task that
\* somebody was told of has a readable claim, and the agent that the claim
\* names knows that it holds it; otherwise the task would stay blocked for
\* everybody (claims.py, claim_task, the steal path).
ClaimNamesAHolder ==
  (\A a \in Agents : proc[a].pc = "idle") =>
     \A t \in Tasks :
       IF held[t] = {} THEN file[t].st = "absent"
       ELSE file[t].st = "claim" /\ file[t].agent \in held[t]

\* As long as somebody asks for it, a task does not stay under a claim that
\* has gone stale: when time stops every claim is renewed (claims.py:80).
StaleIsReplaced ==
  \A t \in Tasks :
    clock = MaxTime ~> (file[t].st = "claim" /\ ~IsStale(file[t]))

\* The claims implement the abstract lock: a file, even one still empty,
\* makes its author the owner.
Lock == INSTANCE ClaimLock
          WITH NoAgent <- None, owner <- [t \in Tasks |-> file[t].agent]

LockSpec == Lock!Spec
=============================================================================
