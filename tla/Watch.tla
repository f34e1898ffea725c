------------------------------- MODULE Watch -------------------------------
(***************************************************************************)
(* A run with its sessions, the heartbeat file, and kelix watch, a process *)
(* that follows both from the outside (watch.py, follow).                  *)
(***************************************************************************)
EXTENDS Session

CONSTANT MaxIter        \* bound: iterations of the run

ASSUME WatchAssumption == MaxIter \in Nat \ {0}

VARIABLES
  iter,         \* the run's iteration
  beat,         \* heartbeat.json: iteration and status
  alive,        \* the run's process exists
  logs,         \* live logs of the iterations before this one; <<0>>: no file
  watcher       \* follow: position and locals

runVars == <<iter, beat, alive, logs>>
vars == <<sessionVars, runVars, watcher>>

NoFile == <<0>>

\* shown: how much of each log was emitted; -1 for a log that was never opened.
Init ==
  /\ Ready("none")
  /\ iter = 0
  /\ beat = [iter |-> 0, status |-> "none"]
  /\ alive = TRUE
  /\ logs = [n \in 1..MaxIter |-> NoFile]
  /\ watcher = [pc |-> "beat", iter |-> 0, beat |-> beat, got |-> FALSE,
                shown |-> [n \in 1..MaxIter |-> -1]]

----------------------------------------------------------------------------
(* The run.                                                                *)

\* The file exists from the moment the reader is about to start.
Log(n) == IF n = iter /\ reader # "none" THEN live ELSE logs[n]

Kept == IF iter = 0 THEN logs ELSE [logs EXCEPT ![iter] = Log(iter)]

\* The next iteration: heartbeat, then the session.
Iterate ==
  /\ alive /\ beat.status # "finished"
  /\ main \in {"none", "over", "error"} /\ iter < MaxIter
  /\ iter' = iter + 1
  /\ beat' = [iter |-> iter', status |-> "running"]
  /\ logs' = Kept
  /\ Renew
  /\ UNCHANGED <<alive, watcher>>

\* _finish
Finish ==
  /\ alive /\ beat.status = "running"
  /\ main \in {"over", "error"}
  /\ beat' = [beat EXCEPT !.status = "finished"]
  /\ UNCHANGED <<sessionVars, iter, alive, logs, watcher>>

\* The process ends: after _finish, by an exception, or killed.
Exit ==
  /\ alive
  /\ alive' = FALSE
  /\ UNCHANGED <<sessionVars, iter, beat, logs, watcher>>

Session == alive /\ Step /\ UNCHANGED <<runVars, watcher>>

----------------------------------------------------------------------------
(* follow.                                                                 *)

Ends(how) == watcher' = [watcher EXCEPT !.pc = how]

\* A run without a heartbeat is not followed.
ReadBeat ==
  /\ watcher.pc = "beat"
  /\ IF beat.status = "none" THEN Ends("unknown")
     ELSE watcher' = [watcher EXCEPT !.pc = "open", !.beat = beat]
  /\ UNCHANGED <<sessionVars, runVars>>

Opened(shown, n) ==
  IF shown[n] = -1 /\ Log(n) # NoFile THEN [shown EXCEPT ![n] = 0] ELSE shown

ReadAll(shown, n) ==
  IF n > 0 /\ shown[n] >= 0 THEN [shown EXCEPT ![n] = Len(Log(n))] ELSE shown

\* Mutant: the old log is closed without another read.
OpenUndrained ==
  /\ watcher.pc = "open"
  /\ watcher' = [watcher EXCEPT !.pc = "read", !.iter = watcher.beat.iter,
                                !.shown = Opened(@, watcher.beat.iter)]
  /\ UNCHANGED <<sessionVars, runVars>>

\* When the heartbeat has moved on, what is left of the old log is read first; a
\* log that is not there yet is tried again in the next round.
Open ==
  /\ watcher.pc = "open"
  /\ LET drained == IF watcher.beat.iter = watcher.iter THEN watcher.shown
                    ELSE ReadAll(watcher.shown, watcher.iter)
     IN  watcher' = [watcher EXCEPT !.pc = "read", !.iter = watcher.beat.iter,
                                    !.shown = Opened(drained, watcher.beat.iter)]
  /\ UNCHANGED <<sessionVars, runVars>>

Read ==
  /\ watcher.pc = "read"
  /\ LET all == ReadAll(watcher.shown, watcher.iter)
     IN  watcher' = [watcher EXCEPT !.pc = "decide", !.got = all # watcher.shown, !.shown = all]
  /\ UNCHANGED <<sessionVars, runVars>>

\* Mutant: only a finished run ends the follower.
DecideFinished ==
  /\ watcher.pc = "decide"
  /\ IF ~watcher.got /\ watcher.beat.status = "finished" THEN Ends("finished") ELSE Ends("beat")
  /\ UNCHANGED <<sessionVars, runVars>>

\* The status is that of the heartbeat read before; the process is looked up now.
Decide ==
  /\ watcher.pc = "decide"
  /\ IF watcher.got THEN Ends("beat")
     ELSE IF watcher.beat.status = "finished" THEN Ends("finished")
     ELSE IF alive THEN Ends("beat")
     ELSE Ends("gone")
  /\ UNCHANGED <<sessionVars, runVars>>

Follow == ReadBeat \/ Open \/ Read \/ Decide

Next == Iterate \/ Finish \/ Exit \/ Session \/ Follow

Spec == Init /\ [][Next]_vars

\* The threads of the run are scheduled and its clock goes on; so is the
\* follower.  The child owes nobody anything, and the run need not go on.
FairSpec ==
  /\ Spec
  /\ WF_vars(alive /\ ~Over /\ Caller /\ UNCHANGED <<runVars, watcher>>)
  /\ WF_vars(alive /\ ~Over /\ Reader /\ UNCHANGED <<runVars, watcher>>)
  /\ WF_vars(alive /\ HardPasses /\ UNCHANGED <<runVars, watcher>>)
  /\ WF_vars(Follow)

----------------------------------------------------------------------------
(* Properties.                                                             *)

\* A log that the follower has opened is shown to its end before it goes on to a
\* later iteration; and when it says that the run is finished, it has shown the
\* last log to its end (watch.py, the comment in open_iter).
FollowedIsComplete ==
  \A n \in 1..MaxIter :
    \/ watcher.shown[n] >= 0 /\ n < watcher.iter
    \/ watcher.pc = "finished" /\ n = iter /\ Log(n) # NoFile
    => watcher.shown[n] = Len(Log(n))

\* Once the prompt is delivered the session ends, unless the whole process does: a
\* child that hangs, ignores SIGTERM or leaves its pipe open is waited for no
\* longer than the limits allow (adapters.py:117-143).
SessionEnds == main = "poll" ~> Over \/ ~alive

\* The follower ends after the run, however the run ended.
WatchEnds == ~alive ~> watcher.pc \in {"unknown", "finished", "gone"}
=============================================================================
