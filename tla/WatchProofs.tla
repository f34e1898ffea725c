----------------------------- MODULE WatchProofs -----------------------------
(***************************************************************************)
(* Theorems about Watch and the sessions in it, for any prompt, pipes,     *)
(* limits and number of iterations.                                        *)
(***************************************************************************)
EXTENDS Watch, TLAPS

----------------------------------------------------------------------------
(* Output.                                                                 *)

SessionType ==
  /\ wrote \in Nat /\ hand \in Nat
  /\ pipe \in Seq(Nat) /\ chunks \in Seq(Nat) /\ live \in Seq(Nat)

\* Chunks that the reader has taken off the pipe.
Taken == IF reader = "store" THEN Len(chunks) + 1 ELSE Len(chunks)

\* What was written is in the list, in the reader's hand or in the pipe, in order.
OrderInv ==
  /\ \A k \in 1..Len(chunks) : chunks[k] = k
  /\ reader = "store" => hand = Taken
  /\ \A k \in 1..Len(pipe) : pipe[k] = Taken + k
  /\ wrote = Taken + Len(pipe)

\* A reader that is done has seen the end of the pipe.
DoneInv ==
  /\ main \in {"none", "spawn", "feed"} => reader = "none"
  /\ reader = "done" => pipe = <<>> /\ holders = {}

ResultInv ==
  main = "over" => result.output = chunks /\ (reader = "done" \/ holders # {})

OutputInv == SessionType /\ OrderInv /\ DoneInv /\ ResultInv

LEMMA OutputInit == Init => OutputInv
BY DEF Init, Ready, OutputInv, SessionType, OrderInv, Taken, DoneInv, ResultInv

LEMMA OutputCaller ==
  ASSUME OutputInv, ~Over, Caller
  PROVE  OutputInv'
<1> USE DEF OutputInv, callerVars, childVars, readerVars
<1>1. SessionType'
  BY DEF SessionType, Caller, Spawn, Feed, StartReader, Poll, Clock, Terminate, Kill,
         Join, Return
<1>2. OrderInv'
  <2>1. /\ UNCHANGED <<wrote, pipe, hand, chunks>>
        /\ reader' = "store" <=> reader = "store"
    BY DEF DoneInv, Caller, Spawn, Feed, StartReader, Poll, Clock, Terminate, Kill, Join, Return
  <2> QED
    BY <2>1 DEF OrderInv, Taken
<1>3. DoneInv'
  BY DEF DoneInv, Caller, Spawn, Feed, StartReader, Poll, Clock, Terminate, Kill, Join, Return
<1>4. ResultInv'
  BY DEF ResultInv, Over, Caller, Spawn, Feed, StartReader, Poll, Clock, Terminate, Kill,
         Join, Return
<1> QED
  BY <1>1, <1>2, <1>3, <1>4

LEMMA OutputReader ==
  ASSUME OutputInv, ~Over, Reader
  PROVE  OutputInv'
<1> USE DEF OutputInv, callerVars, childVars
<1>1. CASE ReaderReads
  <2>1. CASE pipe # <<>> /\ hand' = Head(pipe) /\ pipe' = Tail(pipe) /\ reader' = "store"
    BY <1>1, <2>1 DEF ReaderReads, SessionType, OrderInv, Taken, DoneInv, ResultInv, Over
  <2>2. CASE pipe = <<>> /\ holders = {} /\ reader' = "done" /\ UNCHANGED <<hand, pipe>>
    BY <1>1, <2>2 DEF ReaderReads, SessionType, OrderInv, Taken, DoneInv, ResultInv, Over
  <2> QED
    BY <1>1, <2>1, <2>2 DEF ReaderReads
<1>2. CASE ReaderStores
  BY <1>2 DEF ReaderStores, SessionType, OrderInv, Taken, DoneInv, ResultInv, Over
<1>3. CASE ReaderLogs
  BY <1>3 DEF ReaderLogs, SessionType, OrderInv, Taken, DoneInv, ResultInv, Over
<1> QED
  BY <1>1, <1>2, <1>3 DEF Reader

LEMMA OutputChild ==
  ASSUME OutputInv, ~Over, Child
  PROVE  OutputInv'
<1> USE DEF OutputInv, callerVars, readerVars
<1>1. CASE Writes
  <2>1. /\ wrote' = wrote + 1 /\ pipe' = Append(pipe, wrote + 1)
        /\ UNCHANGED <<main, result, reader, hand, chunks, live, holders>>
        /\ holders # {}
    BY <1>1 DEF Writes
  <2>2. SessionType'
    BY <2>1 DEF SessionType
  <2>3. /\ Taken' = Taken /\ Taken \in Nat
        /\ Len(pipe') = Len(pipe) + 1
        /\ \A k \in 1..Len(pipe) : pipe'[k] = pipe[k]
        /\ pipe'[Len(pipe) + 1] = wrote + 1
    BY <2>1 DEF SessionType, Taken
  <2>4. ASSUME NEW k \in 1..Len(pipe') PROVE pipe'[k] = Taken' + k
    <3>1. /\ Len(pipe) \in Nat /\ wrote = Taken + Len(pipe)
          /\ k \in 1..Len(pipe) => pipe[k] = Taken + k
      BY DEF SessionType, OrderInv
    <3>2. k \in 1..Len(pipe) \/ k = Len(pipe) + 1
      BY <2>3, <3>1
    <3> QED
      BY <2>3, <3>1, <3>2
  <2>5. OrderInv'
    BY <2>1, <2>3, <2>4 DEF SessionType, OrderInv
  <2> QED
    BY <2>1, <2>2, <2>5 DEF DoneInv, ResultInv, Over
<1>2. CASE ChildTakes \/ ChildForks \/ ChildExits \/ HeirExits
  <2>1. UNCHANGED <<wrote, pipe, hand, chunks, live, reader, main, result>>
    BY <1>2 DEF ChildTakes, ChildForks, ChildExits, HeirExits
  <2>2. holders = {} => holders' = {}
    BY <1>2 DEF ChildTakes, ChildForks, ChildExits, HeirExits
  <2> QED
    BY <2>1, <2>2 DEF SessionType, OrderInv, Taken, DoneInv, ResultInv, Over
<1> QED
  BY <1>1, <1>2 DEF Child

LEMMA OutputStep == OutputInv /\ [Next]_vars => OutputInv'
<1> SUFFICES ASSUME OutputInv, [Next]_vars PROVE OutputInv'
  OBVIOUS
<1>1. CASE Iterate
  BY <1>1 DEF Iterate, Renew, OutputInv, SessionType, OrderInv, Taken, DoneInv, ResultInv
<1>2. CASE Session
  <2>1. CASE HardPasses \/ IdlePasses
    BY <2>1 DEF HardPasses, IdlePasses, Passes, childVars, readerVars, OutputInv,
                SessionType, OrderInv, Taken, DoneInv, ResultInv
  <2> QED
    BY <1>2, <2>1, OutputCaller, OutputReader, OutputChild DEF Session, Step
<1>3. CASE UNCHANGED sessionVars
  BY <1>3 DEF sessionVars, callerVars, childVars, readerVars, OutputInv, SessionType,
              OrderInv, Taken, DoneInv, ResultInv
<1> QED
  BY <1>1, <1>2, <1>3 DEF Next, Finish, Exit, Follow, ReadBeat, Open, Read, Decide, vars

\* No output is lost or reordered, whatever the child and the process it leaves
\* behind do to the pipe (adapters.py, _run_process).
THEOREM OutputIsWhole == Spec => []OutputIsComplete
<1>1. ASSUME OutputInv, main = "over" PROVE result.output = Written(Len(result.output))
  <2>1. result.output = chunks /\ chunks \in [1..Len(chunks) -> Nat]
    BY <1>1 DEF OutputInv, SessionType, ResultInv
  <2>2. chunks = [k \in 1..Len(chunks) |-> k]
    BY <1>1, <2>1 DEF OutputInv, OrderInv
  <2> QED
    BY <2>1, <2>2 DEF Written
<1>2. ASSUME OutputInv, main = "over", holders = {} PROVE Len(result.output) = wrote
  BY <1>2 DEF OutputInv, SessionType, OrderInv, Taken, DoneInv, ResultInv
<1>3. OutputInv => OutputIsComplete
  BY <1>1, <1>2 DEF OutputIsComplete
<1> QED
  BY OutputInit, OutputStep, <1>3, PTL DEF Spec

----------------------------------------------------------------------------
(* Success.                                                                *)

\* A session is reported as successful only when its child left of its own accord
\* with status 0 and no limit ended it (loop.py:634, adapters.py:117).
THEOREM SuccessIsOwnExit == Spec => []OkIsOwnExit
<1>1. Init => OkIsOwnExit
  BY DEF Init, Ready, OkIsOwnExit
<1>2. ASSUME OkIsOwnExit, [Next]_vars PROVE OkIsOwnExit'
  <2>1. CASE Iterate
    BY <2>1 DEF Iterate, Renew, OkIsOwnExit
  <2>2. CASE Session
    <3>1. main # "over"
      BY <2>2 DEF Session, Step, Over
    <3>2. CASE Join
      BY <3>2 DEF Join, Return, childVars, OkIsOwnExit, Ok
    <3>3. CASE ~Join
      <4>1. main' # "over"
        BY <2>2, <3>1, <3>3
        DEF Session, Step, Over, Caller, Spawn, Feed, StartReader, Poll, Clock, Terminate,
            Kill, HardPasses, IdlePasses, Passes, Reader, ReaderReads, ReaderStores,
            ReaderLogs, Child, ChildTakes, Writes, ChildForks, ChildExits, HeirExits, callerVars
      <4> QED
        BY <4>1 DEF OkIsOwnExit
    <3> QED
      BY <3>2, <3>3
  <2>3. CASE UNCHANGED sessionVars
    BY <1>2, <2>3 DEF sessionVars, callerVars, childVars, OkIsOwnExit, Ok
  <2> QED
    BY <1>2, <2>1, <2>2, <2>3
    DEF Next, Finish, Exit, Follow, ReadBeat, Open, Read, Decide, vars
<1> QED
  BY <1>1, <1>2, PTL DEF Spec

----------------------------------------------------------------------------
(* The follower.                                                           *)

Beats == [iter : 0..MaxIter, status : {"none", "running", "finished"}]

WatchType ==
  /\ iter \in 0..MaxIter
  /\ beat \in Beats
  /\ logs \in [1..MaxIter -> Seq(Nat)]
  /\ watcher \in [pc : {"beat", "open", "read", "decide", "unknown", "finished", "gone"},
                  iter : 0..MaxIter, beat : Beats, got : BOOLEAN,
                  shown : [1..MaxIter -> Int]]
  /\ \A n \in 1..MaxIter : watcher.shown[n] >= -1

\* The heartbeat is of the iteration that runs, and is finished when it is over.
BeatInv ==
  /\ beat.iter = iter
  /\ beat.status = "none" <=> iter = 0
  /\ beat.status = "finished" => Over

\* The follower's copy may be old, but not once it is finished.
CopyInv ==
  /\ watcher.beat.iter <= iter
  /\ watcher.iter <= watcher.beat.iter
  /\ watcher.beat.status = "finished" => watcher.beat = beat
  /\ watcher.pc \in {"open", "read", "decide"} => watcher.beat.iter >= 1
  /\ watcher.pc \in {"read", "decide", "finished"} => watcher.iter = watcher.beat.iter
  /\ watcher.pc = "finished" => watcher.beat.status = "finished"

\* Logs that it has left behind are shown to their end ...
LeftInv ==
  \A n \in 1..MaxIter :
    watcher.shown[n] >= 0 =>
      /\ n <= watcher.iter
      /\ n < watcher.iter => watcher.shown[n] = Len(Log(n))

\* ... and so is the last one, in the two steps after a finished heartbeat.
LastInv ==
  watcher.beat.status = "finished" =>
    /\ watcher.pc \in {"read", "decide", "finished"} /\ Log(iter) # NoFile =>
         watcher.shown[iter] >= 0
    /\ watcher.pc \in {"decide", "finished"} /\ watcher.shown[iter] >= 0 =>
         watcher.shown[iter] = Len(Log(iter))

FollowInv == WatchType /\ BeatInv /\ CopyInv /\ LeftInv /\ LastInv

LEMMA FollowInit == Init => FollowInv
BY WatchAssumption
DEF Init, Ready, FollowInv, WatchType, Beats, BeatInv, CopyInv, LeftInv, LastInv, NoFile

LEMMA LogType ==
  ASSUME SessionType, WatchType
  PROVE  \A n \in 1..MaxIter : Log(n) \in Seq(Nat) /\ Len(Log(n)) \in Nat
<1>1. ASSUME NEW n \in 1..MaxIter PROVE Log(n) \in Seq(Nat)
  BY DEF SessionType, WatchType, Log
<1> QED
  BY <1>1

\* The next iteration leaves every log there is as it was.
LEMMA FollowIterate ==
  ASSUME SessionType, FollowInv, Iterate
  PROVE  FollowInv'
<1> USE DEF FollowInv
<1>1. /\ iter' = iter + 1 /\ beat' = [iter |-> iter + 1, status |-> "running"]
      /\ logs' = Kept /\ reader' = "none" /\ main' = "spawn" /\ watcher' = watcher
      /\ beat.status # "finished" /\ iter < MaxIter
  BY DEF Iterate, Renew
<1>2. WatchType'
  <2>1. iter' \in 0..MaxIter /\ beat' \in Beats
    BY <1>1, WatchAssumption DEF WatchType, Beats
  <2>2. logs' \in [1..MaxIter -> Seq(Nat)]
    BY <1>1, LogType DEF WatchType, Kept
  <2> QED
    BY <1>1, <2>1, <2>2 DEF WatchType
<1>3. BeatInv' /\ CopyInv'
  BY <1>1, WatchAssumption DEF WatchType, Beats, BeatInv, CopyInv
<1>4. ASSUME NEW n \in 1..MaxIter, n <= iter PROVE Log(n)' = Log(n)
  BY <1>1, <1>4 DEF WatchType, Kept, Log
<1>5. LeftInv'
  BY <1>1, <1>4 DEF WatchType, Beats, CopyInv, LeftInv
<1>6. LastInv'
  BY <1>1 DEF CopyInv, LastInv
<1> QED
  BY <1>2, <1>3, <1>5, <1>6

\* A session changes no log but its own, and none once the run is finished.
LEMMA FollowSession ==
  ASSUME FollowInv, Session
  PROVE  FollowInv'
<1> USE DEF FollowInv
<1>1. UNCHANGED <<iter, beat, alive, logs, watcher>> /\ beat.status # "finished"
  BY DEF Session, Step, runVars, BeatInv
<1>2. WatchType' /\ BeatInv' /\ CopyInv' /\ LastInv'
  BY <1>1 DEF WatchType, BeatInv, CopyInv, LastInv
<1>3. LeftInv'
  BY <1>1 DEF WatchType, Beats, CopyInv, LeftInv, Log
<1> QED
  BY <1>2, <1>3

LEMMA FollowRun ==
  ASSUME FollowInv, Finish \/ Exit
  PROVE  FollowInv'
<1> USE DEF FollowInv
<1>1. /\ UNCHANGED <<sessionVars, iter, logs, watcher>>
      /\ beat' = beat \/ (beat' = [beat EXCEPT !.status = "finished"] /\ Over
                          /\ beat.status = "running")
  BY DEF Finish, Exit, Over
<1>2. Over' = Over /\ \A n \in 1..MaxIter : Log(n)' = Log(n)
  BY <1>1 DEF sessionVars, callerVars, readerVars, Over, Log
<1>3. Log(iter)' = Log(iter)
  BY <1>1 DEF sessionVars, readerVars, Log
<1>4. WatchType' /\ BeatInv' /\ CopyInv'
  BY <1>1, <1>2 DEF WatchType, Beats, BeatInv, CopyInv
<1>5. LeftInv' /\ LastInv'
  BY <1>1, <1>2, <1>3 DEF LeftInv, LastInv
<1> QED
  BY <1>4, <1>5

----------------------------------------------------------------------------
\* The follower's own steps.
Still == UNCHANGED <<sessionVars, runVars>>

LEMMA StillLogs ==
  ASSUME Still
  PROVE  /\ \A n : Log(n)' = Log(n)
         /\ Over' = Over /\ UNCHANGED <<iter, beat, logs>>
BY DEF Still, sessionVars, runVars, callerVars, readerVars, Log, Over

\* What reading does to what is shown.
LEMMA ReadAllShows ==
  ASSUME SessionType, WatchType, NEW shown \in [1..MaxIter -> Int], NEW n \in 0..MaxIter
  PROVE  /\ ReadAll(shown, n) \in [1..MaxIter -> Int]
         /\ \A m \in 1..MaxIter :
              ReadAll(shown, n)[m] = IF m = n /\ shown[m] >= 0 THEN Len(Log(m)) ELSE shown[m]
BY LogType DEF ReadAll

LEMMA OpenedShows ==
  ASSUME SessionType, WatchType, NEW shown \in [1..MaxIter -> Int], NEW n \in 1..MaxIter
  PROVE  /\ Opened(shown, n) \in [1..MaxIter -> Int]
         /\ \A m \in 1..MaxIter :
              Opened(shown, n)[m] =
                IF m = n /\ shown[m] = -1 /\ Log(m) # NoFile THEN 0 ELSE shown[m]
BY DEF Opened

LEMMA FollowReadBeat ==
  ASSUME FollowInv, ReadBeat
  PROVE  FollowInv'
<1> USE DEF FollowInv
<1>1. Still
  BY DEF ReadBeat, Still
<1>2. WatchType'
  BY <1>1, StillLogs DEF ReadBeat, Ends, WatchType
<1>3. BeatInv'
  BY <1>1, StillLogs DEF BeatInv
<1>4. CopyInv'
  <2>1. CASE beat.status = "none"
    BY <1>1, <2>1, StillLogs DEF ReadBeat, Ends, WatchType, CopyInv
  <2>2. CASE beat.status # "none"
    <3>1. watcher' = [watcher EXCEPT !.pc = "open", !.beat = beat]
      BY <2>2 DEF ReadBeat
    <3>2. /\ watcher'.pc = "open" /\ watcher'.beat = beat /\ watcher'.iter = watcher.iter
          /\ beat' = beat /\ iter' = iter
      BY <1>1, <3>1, StillLogs DEF WatchType
    <3>3. iter \in Nat /\ beat.iter = iter /\ iter >= 1 /\ watcher.iter <= iter
      BY <2>2 DEF WatchType, Beats, BeatInv, CopyInv
    <3> QED
      BY <3>2, <3>3 DEF CopyInv
  <2> QED
    BY <2>1, <2>2
<1>5. LastInv'
  BY <1>1, StillLogs DEF ReadBeat, Ends, WatchType, LastInv
<1>6. LeftInv'
  BY <1>1, StillLogs DEF ReadBeat, Ends, WatchType, LeftInv
<1> QED
  BY <1>2, <1>3, <1>4, <1>6, <1>5

LEMMA FollowOpen ==
  ASSUME SessionType, FollowInv, Open
  PROVE  FollowInv'
<1> USE DEF FollowInv
<1> DEFINE n == watcher.beat.iter
           drained == IF n = watcher.iter THEN watcher.shown
                      ELSE ReadAll(watcher.shown, watcher.iter)
           opened == Opened(drained, n)
<1>1. Still
  BY DEF Open, Still
<1>2. /\ n \in 1..MaxIter /\ watcher.iter \in 0..MaxIter /\ watcher.iter <= n /\ n <= iter
      /\ watcher.shown \in [1..MaxIter -> Int] /\ iter \in 0..MaxIter
      /\ watcher.beat \in Beats
  BY DEF Open, WatchType, Beats, CopyInv
<1>3. drained \in [1..MaxIter -> Int]
  BY <1>2, ReadAllShows
<1>4. opened \in [1..MaxIter -> Int]
  BY <1>2, <1>3, OpenedShows
<1>5. watcher' = [watcher EXCEPT !.pc = "read", !.iter = n, !.shown = opened]
  BY DEF Open
<1>6. /\ watcher'.pc = "read" /\ watcher'.iter = n /\ watcher'.beat = watcher.beat
      /\ watcher'.shown = opened /\ watcher'.got = watcher.got
  BY <1>5 DEF WatchType
<1>7. ASSUME NEW m \in 1..MaxIter
       PROVE  drained[m] = IF n # watcher.iter /\ m = watcher.iter /\ watcher.shown[m] >= 0
                           THEN Len(Log(m)) ELSE watcher.shown[m]
  <2>1. CASE n = watcher.iter
    BY <2>1
  <2>2. CASE n # watcher.iter
    <3>1. drained[m] = ReadAll(watcher.shown, watcher.iter)[m]
      BY <2>2
    <3> QED
      BY <1>2, <2>2, <3>1, ReadAllShows
  <2> QED
    BY <2>1, <2>2
<1>8. ASSUME NEW m \in 1..MaxIter
       PROVE  opened[m] = IF m = n /\ drained[m] = -1 /\ Log(m) # NoFile THEN 0 ELSE drained[m]
  BY <1>2, <1>3, OpenedShows
<1>9. \A m \in 1..MaxIter : drained[m] \in Int /\ drained[m] >= -1
  <2>1. ASSUME NEW m \in 1..MaxIter PROVE drained[m] \in Int /\ drained[m] >= -1
    <3>1. /\ watcher.shown[m] \in Int /\ watcher.shown[m] >= -1
          /\ Len(Log(m)) \in Nat
      BY <1>2, LogType DEF WatchType
    <3> HIDE DEF drained
    <3> QED
      BY <1>7, <3>1
  <2> QED
    BY <2>1
<1> HIDE DEF opened, drained
<1>10. WatchType'
  <2>1. ASSUME NEW m \in 1..MaxIter PROVE opened[m] >= -1
    BY <1>8, <1>9
  <2>2. watcher' \in [pc : {"beat", "open", "read", "decide", "unknown", "finished", "gone"},
                     iter : 0..MaxIter, beat : Beats, got : BOOLEAN,
                     shown : [1..MaxIter -> Int]]
    <3>1. n \in 0..MaxIter
      BY <1>2
    <3> HIDE DEF n
    <3> QED
      BY <1>4, <1>5, <3>1 DEF WatchType
  <2> QED
    BY <1>1, <1>6, <2>1, <2>2, StillLogs DEF WatchType
<1>11. BeatInv'
  BY <1>1, StillLogs DEF BeatInv
<1>12. CopyInv'
  BY <1>1, <1>2, <1>6, StillLogs DEF CopyInv, Beats
<1>13. LeftInv'
  <2>1. SUFFICES ASSUME NEW m \in 1..MaxIter, opened[m] >= 0
                 PROVE  m <= n /\ (m < n => opened[m] = Len(Log(m)))
    BY <1>1, <1>6, StillLogs DEF LeftInv
  <2>2. CASE m # n
    <3>1. opened[m] = drained[m]
      BY <1>8, <2>2
    <3> QED
      BY <1>2, <1>7, <2>1, <2>2, <3>1 DEF LeftInv
  <2> QED
    BY <1>2, <2>2
<1>14. LastInv'
  <2>1. SUFFICES ASSUME watcher.beat.status = "finished", Log(iter) # NoFile
                 PROVE  opened[iter] >= 0
    BY <1>1, <1>6, StillLogs DEF LastInv
  <2>2. n = iter
    BY <2>1 DEF BeatInv, CopyInv
  <2> QED
    BY <1>2, <1>8, <1>9, <2>1, <2>2
<1> QED
  BY <1>10, <1>11, <1>12, <1>13, <1>14

LEMMA FollowRead ==
  ASSUME SessionType, FollowInv, Read
  PROVE  FollowInv'
<1> USE DEF FollowInv
<1> DEFINE all == ReadAll(watcher.shown, watcher.iter)
<1>1. Still
  BY DEF Read, Still
<1>2. /\ watcher.iter \in 1..MaxIter /\ watcher.iter <= iter /\ iter \in 0..MaxIter
      /\ watcher.iter = watcher.beat.iter
      /\ watcher.shown \in [1..MaxIter -> Int]
  BY DEF Read, WatchType, Beats, CopyInv
<1>3. all \in [1..MaxIter -> Int]
  BY <1>2, ReadAllShows
<1>4. ASSUME NEW m \in 1..MaxIter
      PROVE  /\ all[m] = IF m = watcher.iter /\ watcher.shown[m] >= 0 THEN Len(Log(m))
                         ELSE watcher.shown[m]
             /\ watcher.shown[m] \in Int /\ watcher.shown[m] >= -1 /\ Len(Log(m)) \in Nat
  <2>1. all[m] = IF m = watcher.iter /\ watcher.shown[m] >= 0 THEN Len(Log(m))
                 ELSE watcher.shown[m]
    <3>1. watcher.iter \in 0..MaxIter
      BY <1>2
    <3>2. \A k \in 1..MaxIter :
            ReadAll(watcher.shown, watcher.iter)[k] =
              IF k = watcher.iter /\ watcher.shown[k] >= 0 THEN Len(Log(k)) ELSE watcher.shown[k]
      BY <1>2, <3>1, ReadAllShows
    <3> QED
      BY <3>2
  <2>2. watcher.shown[m] \in Int /\ watcher.shown[m] >= -1 /\ Len(Log(m)) \in Nat
    BY <1>2, LogType DEF WatchType
  <2> HIDE DEF all
  <2> QED
    BY <2>1, <2>2
<1>5. watcher' = [watcher EXCEPT !.pc = "decide", !.got = all # watcher.shown, !.shown = all]
  BY DEF Read
<1> HIDE DEF all
<1>6. /\ watcher'.pc = "decide" /\ watcher'.iter = watcher.iter
      /\ watcher'.beat = watcher.beat /\ watcher'.shown = all
  BY <1>5 DEF WatchType
<1>7. WatchType'
  <2>1. watcher' \in [pc : {"beat", "open", "read", "decide", "unknown", "finished", "gone"},
                     iter : 0..MaxIter, beat : Beats, got : BOOLEAN,
                     shown : [1..MaxIter -> Int]]
    BY <1>3, <1>5 DEF WatchType
  <2>2. ASSUME NEW m \in 1..MaxIter PROVE all[m] >= -1
    BY <1>4
  <2> QED
    BY <1>1, <1>6, <2>1, <2>2, StillLogs DEF WatchType
<1>8. BeatInv'
  BY <1>1, StillLogs DEF BeatInv
<1>9. CopyInv'
  BY <1>1, <1>2, <1>6, StillLogs DEF CopyInv, Read
<1>10. LeftInv'
  BY <1>1, <1>2, <1>4, <1>6, StillLogs DEF LeftInv
<1>11. LastInv'
  <2>1. SUFFICES ASSUME watcher.beat.status = "finished"
                 PROVE  /\ Log(iter) # NoFile => all[iter] >= 0
                        /\ all[iter] >= 0 => all[iter] = Len(Log(iter))
    BY <1>1, <1>6, StillLogs DEF LastInv
  <2>2. watcher.iter = iter /\ iter \in 1..MaxIter
    BY <1>2, <2>1 DEF BeatInv, CopyInv
  <2>3. Log(iter) # NoFile => watcher.shown[iter] >= 0
    BY <2>1 DEF LastInv, Read
  <2> QED
    BY <1>4, <2>2, <2>3
<1> QED
  BY <1>7, <1>8, <1>9, <1>10, <1>11

LEMMA FollowDecide ==
  ASSUME FollowInv, Decide
  PROVE  FollowInv'
<1> USE DEF FollowInv
<1>1. Still
  BY DEF Decide, Still
<1>2. /\ \E how \in {"beat", "finished", "gone"} : watcher' = [watcher EXCEPT !.pc = how]
      /\ UNCHANGED <<watcher.iter, watcher.beat, watcher.shown>>
      /\ watcher'.pc \in {"beat", "finished", "gone"}
      /\ watcher'.pc = "finished" => watcher.beat.status = "finished"
  BY DEF Decide, Ends, WatchType
<1>3. WatchType'
  BY <1>1, <1>2, StillLogs DEF WatchType
<1>4. BeatInv' /\ CopyInv'
  BY <1>1, <1>2, StillLogs DEF BeatInv, CopyInv, Decide
<1>5. LeftInv'
  BY <1>1, <1>2, StillLogs DEF LeftInv
<1>6. LastInv'
  BY <1>1, <1>2, StillLogs DEF LastInv, Decide
<1> QED
  BY <1>3, <1>4, <1>5, <1>6

LEMMA FollowStep == OutputInv /\ FollowInv /\ [Next]_vars => FollowInv'
<1> SUFFICES ASSUME OutputInv, FollowInv, [Next]_vars PROVE FollowInv'
  OBVIOUS
<1>1. SessionType
  BY DEF OutputInv
<1>2. CASE UNCHANGED vars
  BY <1>2 DEF vars, sessionVars, runVars, callerVars, readerVars, FollowInv, WatchType,
              BeatInv, CopyInv, LeftInv, LastInv, Log, Over
<1> QED
  BY <1>1, <1>2, FollowIterate, FollowSession, FollowRun, FollowReadBeat, FollowOpen,
     FollowRead, FollowDecide
  DEF Next, Follow

\* kelix watch shows each log it has opened to its end before it goes on, and
\* the last one before it says that the run is finished, however the run and
\* the follower interleave (watch.py, follow).
THEOREM FollowedToTheEnd == Spec => []FollowedIsComplete
<1>1. FollowInv => FollowedIsComplete
  BY DEF FollowInv, WatchType, Beats, BeatInv, CopyInv, LeftInv, LastInv, FollowedIsComplete
<1> QED
  BY OutputInit, OutputStep, FollowInit, FollowStep, <1>1, PTL DEF Spec
=============================================================================
