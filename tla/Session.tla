------------------------------ MODULE Session ------------------------------
(***************************************************************************)
(* One agent session (adapters.py, _run_process): the calling thread feeds *)
(* the prompt, then polls the child and its two time limits; a reader      *)
(* thread collects the output and streams it to the live log.  The child,  *)
(* and a process it leaves behind with the output pipe still open, do      *)
(* whatever they like.                                                     *)
(***************************************************************************)
EXTENDS Integers, Sequences

CONSTANTS
  PromptLen,    \* prompt in units of the pipe; 0: not given on stdin
  InRoom,       \* what the pipe to the child holds
  OutRoom,      \* chunks that the pipe from the child holds
  MaxOut,       \* bound: chunks written in a session
  HardLimit,    \* [agent] timeout_seconds is positive
  IdleLimit     \* [agent] inactivity_timeout_seconds is positive

ASSUME SessionAssumption ==
  /\ {PromptLen, MaxOut} \subseteq Nat
  /\ {InRoom, OutRoom} \subseteq Nat \ {0}
  /\ {HardLimit, IdleLimit} \subseteq BOOLEAN

VARIABLES
  main,         \* the caller's position in _run_process
  fed,          \* units of the prompt written
  due,          \* limits that have passed: "hard", "idle"
  cause,        \* the limit that ended the session: timed_out, hard_timeout
  taken,        \* units of the prompt the child has read
  exit,         \* proc.returncode; "running" while there is none
  holders,      \* processes that hold the write end of the output pipe
  wrote,        \* chunks written so far; the n-th chunk is n
  pipe,         \* chunks in the output pipe
  reader,       \* the reader thread's position
  hand,         \* the chunk it has read
  chunks,       \* output_chunks
  live,         \* the live log
  result        \* AgentResult

callerVars == <<main, fed, due, cause, result>>
childVars == <<taken, exit, holders, wrote, pipe>>
readerVars == <<reader, hand, chunks, live>>
sessionVars == <<callerVars, childVars, readerVars>>

----------------------------------------------------------------------------
NoResult == [exit |-> "running", output |-> <<>>, timedOut |-> FALSE]

\* result.ok
Ok(r) == r.exit = "ok" /\ ~r.timedOut

\* Returned, or left by an exception.
Over == main \in {"over", "error", "raised"}

Ready(at) ==
  /\ main = at
  /\ fed = 0 /\ due = {} /\ cause = "none"
  /\ taken = 0 /\ exit = "running" /\ holders = {} /\ wrote = 0 /\ pipe = <<>>
  /\ reader = "none" /\ hand = 0 /\ chunks = <<>> /\ live = <<>>
  /\ result = NoResult

\* A session as it begins, in the next state.
Renew ==
  /\ main' = "spawn"
  /\ fed' = 0 /\ due' = {} /\ cause' = "none"
  /\ taken' = 0 /\ exit' = "running" /\ holders' = {} /\ wrote' = 0 /\ pipe' = <<>>
  /\ reader' = "none" /\ hand' = 0 /\ chunks' = <<>> /\ live' = <<>>
  /\ result' = NoResult

----------------------------------------------------------------------------
(* The calling thread.                                                     *)

\* Popen, or the AdapterError of a command that does not exist.
Spawn ==
  /\ main = "spawn"
  /\ \/ main' = "feed" /\ holders' = {"child"}
     \/ main' = "error" /\ UNCHANGED holders
  /\ UNCHANGED <<fed, due, cause, result, taken, exit, wrote, pipe, readerVars>>

\* Part of the prompt goes into the pipe when there is room; a child that is
\* gone makes it a BrokenPipeError, which nobody catches.
Feed ==
  /\ main = "feed" /\ fed < PromptLen
  /\ IF exit # "running" THEN main' = "raised" /\ UNCHANGED fed
     ELSE fed - taken < InRoom /\ fed' = fed + 1 /\ UNCHANGED main
  /\ UNCHANGED <<due, cause, result, childVars, readerVars>>

\* stdin is closed, the live log opened and the reader started; the clock starts
\* here.
StartReader ==
  /\ main = "feed" /\ fed = PromptLen
  /\ main' = "poll"
  /\ reader' = "read"
  /\ fed' = 0 /\ taken' = 0
  /\ UNCHANGED <<due, cause, result, exit, holders, wrote, pipe, hand, chunks, live>>

Poll ==
  /\ main = "poll"
  /\ main' = IF exit = "running" THEN "clock" ELSE "join"
  /\ UNCHANGED <<fed, due, cause, result, childVars, readerVars>>

\* A limit passes, by the clock alone.
Passes(limit) ==
  /\ main \in {"poll", "clock"} /\ limit \notin due
  /\ due' = due \cup {limit}
  /\ UNCHANGED <<main, fed, cause, result, childVars, readerVars>>

HardPasses == HardLimit /\ Passes("hard")

IdlePasses == IdleLimit /\ Passes("idle")

\* Mutant: the hard limit is looked at only when the child is idle as well.
ClockIdleFirst ==
  /\ main = "clock"
  /\ IF "idle" \notin due THEN main' = "poll" /\ UNCHANGED cause
     ELSE main' = "kill" /\ cause' = IF "hard" \in due THEN "hard" ELSE "idle"
  /\ UNCHANGED <<fed, due, result, childVars, readerVars>>

\* The limits are looked at after a poll that found the child running.
Clock ==
  /\ main = "clock"
  /\ IF due = {} THEN main' = "poll" /\ UNCHANGED cause
     ELSE main' = "kill" /\ cause' = IF "hard" \in due THEN "hard" ELSE "idle"
  /\ UNCHANGED <<fed, due, result, childVars, readerVars>>

\* _terminate_process: SIGTERM, two seconds, SIGKILL.
Terminate ==
  /\ \/ main = "kill" /\ main' = IF exit = "running" THEN "term" ELSE "join"
     \/ main = "term" /\ exit # "running" /\ main' = "join"
  /\ UNCHANGED <<fed, due, cause, result, childVars, readerVars>>

Kill ==
  /\ main = "term" /\ exit = "running"
  /\ exit' = "signal" /\ holders' = holders \ {"child"}
  /\ main' = "join"
  /\ UNCHANGED <<fed, due, cause, result, taken, wrote, pipe, readerVars>>

\* Mutant: an exit code is all there is to a session.
ReturnExit ==
  /\ main' = "over"
  /\ result' = [exit |-> exit, output |-> chunks, timedOut |-> FALSE]
  /\ UNCHANGED <<fed, due, cause, childVars, readerVars>>

Return ==
  /\ main' = "over"
  /\ result' = [exit |-> IF cause = "hard" THEN "124" ELSE exit, output |-> chunks,
                timedOut |-> cause # "none"]
  /\ UNCHANGED <<fed, due, cause, childVars, readerVars>>

\* Mutant: the caller does not wait for the reader.
JoinNot == main = "join" /\ Return

\* join(timeout=5): a reader whose pipe is closed is done by then, one whose
\* pipe somebody else holds open may not be.
Join ==
  /\ main = "join"
  /\ reader = "done" \/ holders # {}
  /\ Return

Caller == Spawn \/ Feed \/ StartReader \/ Poll \/ Clock \/ Terminate \/ Kill \/ Join

----------------------------------------------------------------------------
(* The reader thread.                                                      *)

\* read1 returns what is there, and nothing when all writers have closed.
ReaderReads ==
  /\ reader = "read"
  /\ \/ pipe # <<>> /\ hand' = Head(pipe) /\ pipe' = Tail(pipe) /\ reader' = "store"
     \/ pipe = <<>> /\ holders = {} /\ reader' = "done" /\ UNCHANGED <<hand, pipe>>
  /\ UNCHANGED <<callerVars, taken, exit, holders, wrote, chunks, live>>

\* Under the activity lock.
ReaderStores ==
  /\ reader = "store"
  /\ chunks' = Append(chunks, hand)
  /\ due' = due \ {"idle"}
  /\ reader' = "log"
  /\ UNCHANGED <<main, fed, cause, result, childVars, hand, live>>

ReaderLogs ==
  /\ reader = "log"
  /\ live' = Append(live, hand)
  /\ reader' = "read"
  /\ UNCHANGED <<callerVars, childVars, hand, chunks>>

Reader == ReaderReads \/ ReaderStores \/ ReaderLogs

----------------------------------------------------------------------------
(* The child and what it leaves behind.                                    *)

\* What it reads after the prompt is delivered is nobody's concern.
ChildTakes ==
  /\ main = "feed" /\ exit = "running" /\ taken < fed
  /\ taken' = taken + 1
  /\ UNCHANGED <<callerVars, exit, holders, wrote, pipe, readerVars>>

\* A full pipe blocks the writer.
Writes ==
  /\ holders # {} /\ wrote < MaxOut /\ Len(pipe) < OutRoom
  /\ wrote' = wrote + 1
  /\ pipe' = Append(pipe, wrote')
  /\ UNCHANGED <<callerVars, taken, exit, holders, readerVars>>

ChildForks ==
  /\ "child" \in holders
  /\ holders' = holders \cup {"heir"}
  /\ UNCHANGED <<callerVars, taken, exit, wrote, pipe, readerVars>>

\* By itself, or in answer to SIGTERM.
ChildExits ==
  /\ "child" \in holders
  /\ exit' \in {"ok", "failed"} \cup IF main = "term" THEN {"signal"} ELSE {}
  /\ holders' = holders \ {"child"}
  /\ UNCHANGED <<callerVars, taken, wrote, pipe, readerVars>>

HeirExits ==
  /\ "heir" \in holders
  /\ holders' = holders \ {"heir"}
  /\ UNCHANGED <<callerVars, taken, exit, wrote, pipe, readerVars>>

Child == ChildTakes \/ Writes \/ ChildForks \/ ChildExits \/ HeirExits

\* What is left of a session that has returned changes nothing of the run: its
\* log is closed and its output is taken.
Step == ~Over /\ (Caller \/ HardPasses \/ IdlePasses \/ Reader \/ Child)

----------------------------------------------------------------------------
(* Properties.                                                             *)

Written(n) == [k \in 1..n |-> k]

\* No output is lost or reordered: when no other process keeps the pipe open, the
\* session's output is everything the child wrote, to its last chunk, where the
\* sentinel is; else it is what was written up to some moment (adapters.py, the
\* join before the output is put together).
OutputIsComplete ==
  main = "over" =>
    /\ result.output = Written(Len(result.output))
    /\ holders = {} => Len(result.output) = wrote

\* A session counts as successful only when the child left of its own accord
\* with status 0 before a limit was seen to have passed, however its exit races
\* with the limits and the signals (loop.py:634, adapters.py:117).
OkIsOwnExit ==
  main = "over" /\ Ok(result) => cause = "none" /\ exit = "ok"
=============================================================================
