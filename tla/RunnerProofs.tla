---------------------------- MODULE RunnerProofs ----------------------------
(***************************************************************************)
(* Theorems about the solo loop, for any backlog and roadmap, any cap,     *)
(* breaker, verification commands and number of runs, with the kill switch *)
(* and the death of the process between any two steps.                     *)
(***************************************************************************)
EXTENDS Runner, TLAPS

----------------------------------------------------------------------------
(* Types.                                                                  *)

Working == {"session", "editing", "post", "verify", "account"}

Ending == {"finish", "flush", "end", "over"}

RowType == [failed : BOOLEAN, red : BOOLEAN, adapter : BOOLEAN, cause : BOOLEAN]

RecType ==
  [sentinel : BOOLEAN, ok : BOOLEAN, moved : BOOLEAN, progress : BOOLEAN, ran : Nat,
   verified : {"none", "green", "red", "error"}, failed : BOOLEAN]

Verdicts == {"running", "spec_gate", "max_iterations", "killed", "circuit_breaker", "completed"}

FileType == [torn : BOOLEAN, status : Verdicts \cup {"none"}, rows : Seq(RowType)]

TypeInv ==
  /\ pc \in {"start", "top", "begin"} \cup Working \cup Deciding \cup Ending
  /\ result \in [status : Verdicts, iterations : Nat]
  /\ rows \in Seq(RowType)
  /\ rec \in RecType
  /\ runJson \in FileType
  /\ fails \in Nat /\ idle \in Nat /\ late \in Nat
  /\ runs \in Nat \ {0}
  /\ stop \in BOOLEAN

\* A step adds at most one row, and this is what it is.
RowAdded ==
  /\ rows' \in Seq(RowType)
  /\ Len(rows') = Len(rows) + 1
  /\ \A n \in 1..Len(rows) : /\ rows'[n].failed = rows[n].failed
                             /\ rows'[n].adapter = rows[n].adapter
  /\ rows'[Len(rows) + 1].failed = rec'.failed
  /\ rows'[Len(rows) + 1].adapter = (rec'.verified = "error")

NoNewCause ==
  \A n \in 1..Len(rows') : rows'[n].cause => n <= Len(rows) /\ rows[n].cause

NewCauses ==
  \A n \in 1..Len(rows') :
    rows'[n].cause <=> n > Len(rows') - fails' \/ (n <= Len(rows) /\ rows[n].cause)

LEMMA RowIsTyped ==
  ASSUME rec' \in RecType
  PROVE  /\ Row \in RowType /\ Row.failed = rec'.failed
         /\ Row.adapter = (rec'.verified = "error") /\ ~Row.cause
BY DEF Row, RowType, RecType

LEMMA AppendAdds ==
  ASSUME TypeInv, rec' \in RecType, rows' = Append(rows, Row)
  PROVE  RowAdded /\ NoNewCause
<1>1. /\ rows' \in Seq(RowType) /\ Len(rows') = Len(rows) + 1 /\ Len(rows) \in Nat
      /\ \A n \in 1..Len(rows) : rows'[n] = rows[n]
      /\ rows'[Len(rows) + 1] = Row
  BY RowIsTyped DEF TypeInv
<1>2. RowAdded
  BY <1>1, RowIsTyped DEF RowAdded
<1>3. NoNewCause
  <2>1. ASSUME NEW n \in 1..Len(rows') PROVE n \in 1..Len(rows) \/ n = Len(rows) + 1
    BY <1>1
  <2> QED
    BY <1>1, <2>1, RowIsTyped DEF NoNewCause
<1> QED
  BY <1>2, <1>3

\* The breaker changes the causes and nothing else.
LEMMA MarkedMeans ==
  ASSUME NEW log \in Seq(RowType), NEW n \in Nat
  PROVE  /\ Marked(log, n) \in Seq(RowType) /\ Len(Marked(log, n)) = Len(log)
         /\ \A k \in 1..Len(log) :
              /\ Marked(log, n)[k].failed = log[k].failed
              /\ Marked(log, n)[k].adapter = log[k].adapter
              /\ Marked(log, n)[k].cause <=> k > Len(log) - n \/ log[k].cause
<1>1. /\ Len(log) \in Nat /\ DOMAIN log = 1..Len(log)
      /\ \A k \in 1..Len(log) : log[k] \in RowType
  OBVIOUS
<1>2. Marked(log, n) = [k \in 1..Len(log) |->
        IF k > Len(log) - n THEN [log[k] EXCEPT !.cause = TRUE] ELSE log[k]]
  BY <1>1 DEF Marked
<1>3. ASSUME NEW k \in 1..Len(log)
      PROVE  /\ Marked(log, n)[k] \in RowType
             /\ Marked(log, n)[k].failed = log[k].failed
             /\ Marked(log, n)[k].adapter = log[k].adapter
             /\ Marked(log, n)[k].cause <=> k > Len(log) - n \/ log[k].cause
  BY <1>1, <1>2 DEF RowType
<1>4. Marked(log, n) \in Seq(RowType) /\ Len(Marked(log, n)) = Len(log)
  BY <1>1, <1>2, <1>3
<1> QED
  BY <1>3, <1>4

\* How each step treats the record, the rows and the counts.
LEMMA AccountMeans ==
  ASSUME TypeInv, Account
  PROVE  /\ rec' \in RecType /\ fails' \in Nat
         /\ rec'.verified = rec.verified
         /\ rec'.failed = (~rec.ok \/ (~rec.progress /\ ~rec.sentinel) \/ rec.verified = "red")
         /\ fails' = IF rec'.failed THEN fails + 1 ELSE 0
         /\ RowAdded /\ NoNewCause
<1>1. /\ rec' \in RecType /\ rec'.verified = rec.verified
      /\ rec'.failed = (~rec.ok \/ (~rec.progress /\ ~rec.sentinel) \/ rec.verified = "red")
  BY DEF TypeInv, RecType, Account
<1>2. fails' = IF rec'.failed THEN fails + 1 ELSE 0
  BY DEF Account, Fails
<1>3. rows' = Append(rows, Row)
  BY DEF Account
<1> QED
  BY <1>1, <1>2, <1>3, AppendAdds DEF TypeInv

LEMMA AdapterRows ==
  ASSUME TypeInv, AdapterError
  PROVE  /\ rec' \in RecType /\ rec'.failed /\ rec'.verified = "error"
         /\ fails' = fails + 1 /\ fails' \in Nat /\ RowAdded
         /\ \/ /\ pc' = "finish" /\ result' = [result EXCEPT !.status = "circuit_breaker"]
               /\ fails' >= Threshold /\ NewCauses
            \/ pc' = "top" /\ result' = result /\ ~(fails' >= Threshold) /\ NoNewCause
<1>1. /\ rec' \in RecType /\ rec'.failed /\ rec'.verified = "error"
      /\ fails' = fails + 1 /\ fails' \in Nat
  <2>1. rec \in RecType /\ rec' = [rec EXCEPT !.failed = TRUE, !.verified = "error"]
    BY DEF TypeInv, AdapterError
  <2>2. rec' \in RecType /\ rec'.failed /\ rec'.verified = "error"
    BY <2>1 DEF RecType
  <2> QED
    BY <2>2 DEF TypeInv, AdapterError
<1>2. CASE fails' >= Threshold
  <2> DEFINE log == Append(rows, Row)
  <2>1. /\ pc' = "finish" /\ result' = [result EXCEPT !.status = "circuit_breaker"]
        /\ rows' = Marked(log, fails')
    BY <1>2 DEF AdapterError, Finish
  <2>2. /\ log \in Seq(RowType) /\ Len(log) = Len(rows) + 1 /\ Len(rows) \in Nat
        /\ \A n \in 1..Len(rows) : log[n] = rows[n]
        /\ log[Len(rows) + 1] = Row
    BY <1>1, RowIsTyped DEF TypeInv
  <2> HIDE DEF log
  <2>3. /\ rows' \in Seq(RowType) /\ Len(rows') = Len(log)
        /\ \A k \in 1..Len(log) :
             /\ rows'[k].failed = log[k].failed
             /\ rows'[k].adapter = log[k].adapter
             /\ rows'[k].cause <=> k > Len(log) - fails' \/ log[k].cause
    BY <1>1, <2>1, <2>2, MarkedMeans
  <2>4. RowAdded
    <3>1. /\ Row.failed = rec'.failed /\ Row.adapter = (rec'.verified = "error")
      BY <1>1, RowIsTyped
    <3>3. Len(rows) + 1 \in 1..Len(log)
      BY <2>2
    <3>2. /\ rows'[Len(rows) + 1].failed = rec'.failed
          /\ rows'[Len(rows) + 1].adapter = (rec'.verified = "error")
      BY <2>2, <2>3, <3>1, <3>3
    <3> QED
      BY <2>2, <2>3, <3>2 DEF RowAdded
  <2>5. NewCauses
    <3>1. ASSUME NEW n \in 1..Len(rows')
          PROVE  log[n].cause <=> n <= Len(rows) /\ rows[n].cause
      <4>1. n \in 1..Len(rows) \/ n = Len(rows) + 1
        BY <2>2, <2>3
      <4> QED
        BY <1>1, <2>2, <4>1, RowIsTyped
    <3> QED
      BY <2>2, <2>3, <3>1 DEF NewCauses
  <2> QED
    BY <1>1, <1>2, <2>1, <2>4, <2>5
<1>3. CASE ~(fails' >= Threshold)
  <2>1. pc' = "top" /\ result' = result /\ rows' = Append(rows, Row)
    BY <1>3 DEF AdapterError
  <2> QED
    BY <1>1, <1>3, <2>1, AppendAdds
<1> QED
  BY <1>2, <1>3

LEMMA DecideMeans ==
  ASSUME Decide
  PROVE  \/ /\ pc' = "finish" /\ result' = [result EXCEPT !.status = "completed"]
            /\ rec.sentinel /\ rec.verified # "red" /\ rows' = rows
         \/ /\ pc' = "finish" /\ result' = [result EXCEPT !.status = "circuit_breaker"]
            /\ fails >= Threshold /\ rows' = Marked(rows, fails)
         \/ pc' = "top" /\ UNCHANGED <<result, rows>> /\ ~(fails >= Threshold)
BY Zenon DEF Decide, Finish, SentinelHonored

LEMMA NoRecTyped == NoRec \in RecType
BY DEF NoRec, RecType

LEMMA InitTypes == Init => TypeInv
<1> SUFFICES ASSUME Init PROVE TypeInv
  OBVIOUS
<1>1. rows \in Seq(RowType)
  BY DEF Init
<1>2. result \in [status : Verdicts, iterations : Nat]
  BY DEF Init, Verdicts
<1>3. /\ pc = "start" /\ rec = NoRec /\ stop \in BOOLEAN /\ runs = 1
      /\ runJson = NoRunJson /\ fails = 0 /\ idle = 0 /\ late = 0
  BY Zenon DEF Init
<1> QED
  BY <1>1, <1>2, <1>3, NoRecTyped DEF TypeInv, NoRunJson, FileType

\* What a session leaves behind; an idle one leaves nothing.
LEMMA SessionMeans ==
  ASSUME TypeInv, Session
  PROVE  /\ rec' \in RecType /\ idle' \in Nat
         /\ \/ idle' = 0
            \/ /\ pc = "session" /\ idle' = idle + 1 /\ dirty' = dirty
               /\ ~rec'.sentinel /\ ~rec'.moved
<1>1. PICK committed \in BOOLEAN, ok \in BOOLEAN, sentinel \in BOOLEAN :
        /\ pc = "session" => ~committed
        /\ rec' = [rec EXCEPT !.ok = ok, !.sentinel = sentinel, !.moved = committed]
        /\ dirty' = IF committed THEN dirty \ {"agent"} ELSE dirty
        /\ idle' = IF pc = "session" /\ ~sentinel THEN idle + 1 ELSE 0
  BY DEF Session
<1>2. rec' \in RecType /\ rec'.sentinel = sentinel /\ rec'.moved = committed
  BY <1>1 DEF TypeInv, RecType
<1>3. idle' \in Nat
  BY <1>1 DEF TypeInv
<1>4. CASE pc = "session" /\ ~sentinel
  BY <1>1, <1>2, <1>3, <1>4
<1>5. CASE ~(pc = "session" /\ ~sentinel)
  BY <1>1, <1>2, <1>3, <1>5
<1> QED
  BY <1>4, <1>5

\* The counts, the verdict and the history after a restart, and at the start.
LEMMA RestartMeans ==
  ASSUME Restart
  PROVE  /\ pc' = "start" /\ result' = [status |-> "running", iterations |-> 0]
         /\ rows' = <<>> /\ runJson' = NoRunJson /\ fails' = 0 /\ idle' = 0 /\ late' = 0
         /\ rec' = NoRec /\ stop' = FALSE /\ runs' = runs + 1 /\ inPlace' = inPlace
BY Zenon DEF Restart, RestartInPlace, RestartInWorktree, RunAgain

LEMMA NextTypes == TypeInv /\ [Next]_vars => TypeInv'
<1> SUFFICES ASSUME TypeInv, [Next]_vars PROVE TypeInv'
  OBVIOUS
<1> USE DEF TypeInv
<1>1. CASE Start \/ Top
  BY <1>1 DEF Start, Top, Finish, Verdicts, Ending, loopVars, treeVars, history
<1>2. CASE Begin
  BY <1>2, NoRecTyped DEF Begin, Working
<1>3. CASE Session
  BY <1>3, SessionMeans DEF Session, Working
<1>4. CASE AdapterError
  <2>1. idle' \in Nat /\ UNCHANGED <<runJson, stop, runs, late>>
    BY <1>4 DEF AdapterError
  <2>2. result' \in [status : Verdicts, iterations : Nat]
    BY <1>4, AdapterRows DEF Verdicts
  <2> QED
    BY <1>4, <2>1, <2>2, AdapterRows DEF RowAdded, Ending
<1>5. CASE Post
  <2>1. rec' \in RecType
    BY <1>5 DEF Post, RecType, Checkpoint
  <2> QED
    BY <1>5, <2>1 DEF Post, Working, history
<1>6. CASE VerifyCommand
  <2>1. rec' \in RecType
    <3>1. PICK v \in {"green", "red"} : rec' = [rec EXCEPT !.ran = @ + 1, !.verified = v]
      BY <1>6 DEF VerifyCommand
    <3>2. v \in {"none", "green", "red", "error"} /\ rec.ran + 1 \in Nat
      BY DEF RecType
    <3> QED
      BY <3>1, <3>2 DEF RecType
  <2> QED
    BY <1>6, <2>1 DEF VerifyCommand, history
<1>7. CASE Verify
  BY <1>7 DEF Verify, Working, loopVars
<1>8. CASE Account
  <2>1. pc' = "save" /\ UNCHANGED <<result, runJson, stop, runs, idle, late>>
    BY <1>8 DEF Account, history
  <2> QED
    BY <1>8, <2>1, AccountMeans DEF RowAdded, Deciding
<1>9. CASE SessionEdits \/ End
  BY <1>9 DEF SessionEdits, End, Working, Ending, loopVars, history
<1>10. CASE Stop
  BY <1>10 DEF Stop, loopVars, history
<1>11. CASE Restart
  <2>1. rows' \in Seq(RowType)
    BY <1>11, RestartMeans
  <2>2. result' \in [status : Verdicts, iterations : Nat]
    BY <1>11, RestartMeans DEF Verdicts
  <2>3. /\ pc' = "start" /\ rec' = NoRec /\ stop' \in BOOLEAN /\ runs' = runs + 1
        /\ runJson' = NoRunJson /\ fails' = 0 /\ idle' = 0 /\ late' = 0
    BY <1>11, RestartMeans
  <2> QED
    BY <2>1, <2>2, <2>3, NoRecTyped DEF NoRunJson, FileType
<1>13. CASE Truncate
  <2>1. runJson' = [torn |-> TRUE, status |-> "none", rows |-> <<>>]
    BY <1>13 DEF Truncate, NoRunJson
  <2>4. runJson' \in FileType
    BY <2>1 DEF FileType
  <2>2. pc' \in Deciding \cup Ending
    BY <1>13 DEF Truncate, Deciding, Ending
  <2> QED
    BY <1>13, <2>4, <2>2 DEF Truncate, history
<1>14. CASE Write
  <2>1. runJson' \in FileType
    BY <1>14 DEF Write, FileType
  <2>2. pc' \in Deciding \cup Ending
    BY <1>14 DEF Write, Deciding, Ending
  <2> QED
    BY <1>14, <2>1, <2>2 DEF Write, history
<1>15. CASE Decide
  <2>1. UNCHANGED <<runJson, fails, rec, stop, runs, idle, late>>
    BY <1>15 DEF Decide, history
  <2>2. result' \in [status : Verdicts, iterations : Nat] /\ pc' \in {"finish", "top"}
    BY <1>15, DecideMeans DEF Verdicts
  <2>3. rows' \in Seq(RowType)
    BY <1>15, DecideMeans, MarkedMeans
  <2> QED
    BY <2>1, <2>2, <2>3 DEF Ending
<1>12. CASE UNCHANGED vars
  BY <1>12 DEF vars, loopVars, history
<1> QED
  BY <1>1, <1>2, <1>3, <1>4, <1>5, <1>6, <1>7, <1>8, <1>9, <1>10, <1>11, <1>12, <1>13, <1>14, <1>15
  DEF Next, Loop

LEMMA InitMeans ==
  ASSUME Init
  PROVE  /\ pc = "start" /\ result = [status |-> "running", iterations |-> 0]
         /\ rows = <<>> /\ runJson = NoRunJson /\ fails = 0 /\ idle = 0 /\ late = 0
         /\ stop = FALSE /\ dirty = {} /\ runs = 1 /\ strayed = {}
BY Zenon DEF Init

----------------------------------------------------------------------------
(* The kill switch.                                                        *)

StopInv ==
  /\ late >= 1 => stop /\ pc # "begin"
  /\ late <= 1

\* After kelix stop at most the session begins that was past its check, however
\* the two interleave (loop.py, the check at the top of run; cli.py, cmd_stop).
THEOREM StopTakesOneSession == Spec => []StopIsPrompt
<1>1. Init => StopInv
  BY InitMeans DEF StopInv
<1>2. TypeInv /\ StopInv /\ [Next]_vars => StopInv'
  <2> SUFFICES ASSUME TypeInv, StopInv, [Next]_vars PROVE StopInv'
    OBVIOUS
  <2>1. CASE Top
    BY <2>1 DEF Top, Finish, TypeInv, StopInv, history
  <2>2. CASE Begin
    BY <2>2 DEF Begin, TypeInv, StopInv
  <2>3. CASE Restart
    BY <2>3, RestartMeans DEF StopInv
  <2>4. CASE \/ Start \/ SessionEdits \/ Session \/ AdapterError \/ Post \/ VerifyCommand
             \/ Verify \/ Account \/ Truncate \/ Write \/ Decide \/ End
    <3>1. pc' # "begin" /\ UNCHANGED <<stop, late>>
      BY <2>4 DEF Start, SessionEdits, Session, AdapterError, Post, VerifyCommand, Verify,
                  Account, Truncate, Write, Decide, End, Finish, history
    <3> QED
      BY <3>1 DEF StopInv
  <2>5. CASE Stop
    BY <2>5 DEF Stop, StopInv, history
  <2>6. CASE UNCHANGED vars
    BY <2>6 DEF vars, StopInv, history
  <2> QED
    BY <2>1, <2>2, <2>3, <2>4, <2>5, <2>6 DEF Next, Loop
<1>3. TypeInv /\ StopInv => StopIsPrompt
  BY DEF StopInv, StopIsPrompt
<1> QED
  BY InitTypes, NextTypes, <1>1, <1>2, <1>3, PTL DEF Spec

----------------------------------------------------------------------------
(* run.json.                                                               *)

\* Each iteration that is not under way has its row.
CountInv == result.iterations = IF pc \in Working THEN Len(rows) + 1 ELSE Len(rows)

FileInv ==
  /\ runJson.torn => pc \in {"write", "flush"}
  /\ ~runJson.torn =>
       \A n \in 1..Len(rows) : n > Len(runJson.rows) =>
         rows[n].adapter \/ (n = Len(rows) /\ pc = "save")
  /\ pc \in {"end", "over"} =>
       runJson = [torn |-> FALSE, status |-> result.status, rows |-> rows]

LEMMA CountStep == TypeInv /\ CountInv /\ [Next]_vars => CountInv'
<1> SUFFICES ASSUME TypeInv, CountInv, [Next]_vars PROVE CountInv'
  OBVIOUS
<1>0. Len(rows) \in Nat /\ rows \in Seq(RowType) /\ fails \in Nat
      /\ result \in [status : Verdicts, iterations : Nat]
  BY DEF TypeInv
<1>1. CASE Start \/ Top
  <2>1. /\ UNCHANGED rows /\ result'.iterations = result.iterations
        /\ pc \notin Working /\ pc' \notin Working
    BY <1>0, <1>1 DEF Start, Top, Finish, Working, loopVars
  <2> QED
    BY <2>1 DEF CountInv
<1>2. CASE Begin
  BY <1>0, <1>2 DEF Begin, CountInv, Working
<1>3. CASE SessionEdits \/ Session \/ Post \/ VerifyCommand \/ Verify
  <2>1. UNCHANGED <<rows, result>> /\ pc \in Working /\ pc' \in Working
    BY <1>3 DEF SessionEdits, Session, Post, VerifyCommand, Verify, Working, loopVars
  <2> QED
    BY <2>1 DEF CountInv
<1>4. CASE AdapterError
  <2>1. /\ result'.iterations = result.iterations /\ pc \in Working
        /\ pc' \notin Working /\ RowAdded
    BY <1>0, <1>4, AdapterRows DEF AdapterError, Working
  <2> QED
    BY <1>0, <2>1 DEF CountInv, RowAdded
<1>5. CASE Account
  <2>1. /\ result' = result /\ pc \in Working /\ pc' \notin Working /\ RowAdded
    BY <1>5, AccountMeans DEF Account, Working
  <2> QED
    BY <1>0, <2>1 DEF CountInv, RowAdded
<1>6. CASE Truncate \/ Write \/ End
  <2>1. UNCHANGED <<rows, result>> /\ pc \notin Working /\ pc' \notin Working
    BY <1>6 DEF Truncate, Write, End, Working, loopVars
  <2> QED
    BY <2>1 DEF CountInv
<1>7. CASE Decide
  <2>1. Len(rows') = Len(rows) /\ result'.iterations = result.iterations
    BY <1>0, <1>7, DecideMeans, MarkedMeans
  <2>2. pc \notin Working /\ pc' \notin Working
    BY <1>7, DecideMeans DEF Decide, Working
  <2> QED
    BY <2>1, <2>2 DEF CountInv
<1>8. CASE Stop
  BY <1>8 DEF Stop, CountInv, loopVars
<1>9. CASE Restart
  BY <1>9, RestartMeans DEF CountInv, Working
<1>10. CASE UNCHANGED vars
  BY <1>10 DEF vars, CountInv, loopVars
<1> QED
  BY <1>1, <1>2, <1>3, <1>4, <1>5, <1>6, <1>7, <1>8, <1>9, <1>10 DEF Next, Loop

LEMMA FileStep == TypeInv /\ FileInv /\ [Next]_vars => FileInv'
<1> SUFFICES ASSUME TypeInv, FileInv, [Next]_vars PROVE FileInv'
  OBVIOUS
<1>0. /\ Len(rows) \in Nat /\ rows \in Seq(RowType) /\ fails \in Nat
      /\ runJson \in FileType /\ Len(runJson.rows) \in Nat
  BY DEF TypeInv, FileType
<1>1. CASE \/ Start \/ Top \/ Begin \/ SessionEdits \/ Session \/ Post \/ VerifyCommand
           \/ Verify
  <2>1. /\ UNCHANGED <<rows, runJson>> /\ pc \notin {"save", "write", "flush"}
        /\ pc' \notin {"end", "over"}
    BY <1>1 DEF Start, Top, Begin, SessionEdits, Session, Post, VerifyCommand, Verify, Finish,
                loopVars
  <2> QED
    BY <2>1 DEF FileInv
<1>2. CASE AdapterError
  <2>1. /\ runJson' = runJson /\ pc = "session" /\ pc' \in {"finish", "top"} /\ RowAdded
        /\ rec'.verified = "error"
    BY <1>2, AdapterRows DEF AdapterError
  <2>2. ASSUME NEW n \in 1..Len(rows'), n > Len(runJson.rows), ~runJson.torn
        PROVE  rows'[n].adapter
    <3>1. n \in 1..Len(rows) \/ n = Len(rows) + 1
      BY <1>0, <2>1 DEF RowAdded
    <3> QED
      BY <1>0, <2>1, <2>2, <3>1 DEF RowAdded, FileInv
  <2> QED
    BY <2>1, <2>2 DEF FileInv
<1>3. CASE Account
  <2>1. runJson' = runJson /\ pc = "account" /\ pc' = "save" /\ RowAdded
    BY <1>3, AccountMeans DEF Account
  <2>2. ASSUME NEW n \in 1..Len(rows'), n > Len(runJson.rows), ~runJson.torn
        PROVE  rows'[n].adapter \/ n = Len(rows')
    <3>1. n \in 1..Len(rows) \/ n = Len(rows) + 1
      BY <1>0, <2>1 DEF RowAdded
    <3> QED
      BY <1>0, <2>1, <2>2, <3>1 DEF RowAdded, FileInv
  <2> QED
    BY <2>1, <2>2 DEF FileInv
<1>4. CASE Truncate
  <2>1. runJson'.torn /\ pc' \in {"write", "flush"}
    BY <1>4 DEF Truncate, NoRunJson
  <2> QED
    BY <2>1 DEF FileInv
<1>5. CASE Write
  <2>1. /\ runJson' = [torn |-> FALSE, status |-> result.status, rows |-> rows]
        /\ UNCHANGED <<rows, result>> /\ pc' \in {"decide", "end"}
    BY <1>5 DEF Write
  <2> QED
    BY <1>0, <2>1 DEF FileInv
<1>6. CASE Decide
  <2>1. /\ pc = "decide" /\ pc' \in {"finish", "top"} /\ runJson' = runJson
    BY <1>6, DecideMeans DEF Decide
  <2>2. Len(rows') = Len(rows) /\ \A n \in 1..Len(rows) : rows'[n].adapter = rows[n].adapter
    BY <1>0, <1>6, DecideMeans, MarkedMeans
  <2> QED
    BY <2>1, <2>2 DEF FileInv
<1>7. CASE End
  BY <1>7 DEF End, FileInv, loopVars
<1>8. CASE Restart
  BY <1>8, RestartMeans DEF FileInv, NoRunJson
<1>9. CASE Stop \/ UNCHANGED vars
  BY <1>9 DEF Stop, vars, FileInv, loopVars
<1> QED
  BY <1>1, <1>2, <1>3, <1>4, <1>5, <1>6, <1>7, <1>8, <1>9 DEF Next, Loop

\* Whenever the process dies, run.json is without content only when the death
\* comes inside a save, and lacks otherwise only the rows of adapter errors and
\* the row about to be saved; a run that is over has them all there, with the
\* causes (loop.py, _save_state and its callers).
THEOREM RunJsonKeepsUp == Spec => []RunJsonIsCurrent
<1>1. Init => CountInv /\ FileInv
  BY InitMeans DEF CountInv, FileInv, Working, NoRunJson
<1>2. TypeInv /\ CountInv /\ FileInv => RunJsonIsCurrent
  BY DEF TypeInv, FileType, CountInv, FileInv, RunJsonIsCurrent, Working
<1> QED
  BY InitTypes, NextTypes, <1>1, CountStep, FileStep, <1>2, PTL DEF Spec

----------------------------------------------------------------------------
(* The circuit breaker.                                                    *)

\* consecutive_failures is the number of failed rows at the end of the ledger ...
TailInv ==
  /\ fails <= Len(rows)
  /\ \A n \in 1..Len(rows) : n > Len(rows) - fails => rows[n].failed
  /\ fails < Len(rows) => ~rows[Len(rows) - fails].failed

\* ... which stays below the threshold until the breaker ends the run.
TripInv ==
  /\ result.status = "running" <=> pc \notin Ending
  /\ result.status = "circuit_breaker" =>
       /\ fails = Threshold
       /\ \A n \in 1..Len(rows) : rows[n].cause <=> n > Len(rows) - fails
  /\ result.status # "circuit_breaker" => \A n \in 1..Len(rows) : ~rows[n].cause
  /\ result.status \notin {"circuit_breaker", "completed"} =>
       /\ fails <= Threshold
       /\ pc \notin Deciding => fails < Threshold

LEMMA TailAdded ==
  ASSUME TypeInv, TailInv, RowAdded, rec' \in RecType,
         fails' = IF rec'.failed THEN fails + 1 ELSE 0
  PROVE  TailInv'
<1>1. Len(rows) \in Nat /\ fails \in Nat /\ Len(rows') = Len(rows) + 1
  BY DEF TypeInv, RowAdded
<1>2. CASE rec'.failed
  <2>1. fails' = fails + 1 /\ Len(rows') - fails' = Len(rows) - fails
    BY <1>1, <1>2
  <2>2. ASSUME NEW n \in 1..Len(rows'), n > Len(rows') - fails' PROVE rows'[n].failed
    <3>1. n \in 1..Len(rows) \/ n = Len(rows) + 1
      BY <1>1
    <3> QED
      BY <1>1, <1>2, <2>1, <2>2, <3>1 DEF TailInv, RowAdded
  <2>3. fails < Len(rows) => Len(rows) - fails \in 1..Len(rows)
    BY <1>1
  <2> QED
    BY <1>1, <2>1, <2>2, <2>3 DEF TailInv, RowAdded
<1>3. CASE ~rec'.failed
  BY <1>1, <1>3 DEF TailInv, RowAdded
<1> QED
  BY <1>2, <1>3

LEMMA AdapterTrips ==
  ASSUME TypeInv, TripInv, AdapterError
  PROVE  TripInv'
<1>1. /\ result.status = "running" /\ fails < Threshold /\ Threshold \in Nat \ {0}
      /\ \A n \in 1..Len(rows) : ~rows[n].cause
      /\ Len(rows) \in Nat /\ fails \in Nat /\ fails' = fails + 1
      /\ RowAdded /\ Len(rows') = Len(rows) + 1
  <2>1. pc \notin Ending /\ pc \notin Deciding
    BY DEF AdapterError, Ending, Deciding
  <2>2. Len(rows) \in Nat /\ fails \in Nat /\ Threshold \in Nat \ {0}
    BY RunnerAssumption DEF TypeInv
  <2>3. fails' = fails + 1 /\ RowAdded /\ Len(rows') = Len(rows) + 1
    BY AdapterRows DEF RowAdded
  <2> QED
    BY <2>1, <2>2, <2>3 DEF TripInv
<1>2. CASE /\ pc' = "finish" /\ result' = [result EXCEPT !.status = "circuit_breaker"]
           /\ fails' >= Threshold /\ NewCauses
  <2>1. result'.status = "circuit_breaker"
    BY <1>2 DEF TypeInv
  <2>2. fails' = Threshold
    BY <1>1, <1>2
  <2>3. ASSUME NEW n \in 1..Len(rows')
        PROVE  rows'[n].cause <=> n > Len(rows') - fails'
    <3>1. ~(n <= Len(rows) /\ rows[n].cause)
      BY <1>1
    <3> QED
      BY <1>2, <3>1, Zenon DEF NewCauses
  <2> QED
    BY <1>2, <2>1, <2>2, <2>3 DEF TripInv, Ending
<1>3. CASE pc' = "top" /\ result' = result /\ ~(fails' >= Threshold) /\ NoNewCause
  <2>1. fails' < Threshold
    BY <1>1, <1>3
  <2> QED
    BY <1>1, <1>3, <2>1 DEF TripInv, NoNewCause, Ending
<1> QED
  BY <1>2, <1>3, AdapterRows

LEMMA AccountTrips ==
  ASSUME TypeInv, TripInv, Account
  PROVE  TripInv'
<1>1. /\ result.status = "running" /\ fails < Threshold /\ Threshold \in Nat \ {0}
      /\ \A n \in 1..Len(rows) : ~rows[n].cause
      /\ Len(rows) \in Nat /\ Len(rows') = Len(rows) + 1
  BY RunnerAssumption, AccountMeans DEF TypeInv, TripInv, RowAdded, Account, Ending, Deciding
<1>2. fails' <= Threshold
  BY <1>1, AccountMeans DEF TypeInv
<1>3. pc' = "save" /\ result' = result
  BY DEF Account
<1> QED
  BY <1>1, <1>2, <1>3, AccountMeans DEF TripInv, NoNewCause, Ending, Deciding

LEMMA DecideTrips ==
  ASSUME TypeInv, TripInv, TailInv, Decide
  PROVE  TripInv' /\ TailInv'
<1>1. /\ result.status = "running" /\ fails <= Threshold /\ Threshold \in Nat \ {0}
      /\ \A n \in 1..Len(rows) : ~rows[n].cause
      /\ Len(rows) \in Nat /\ rows \in Seq(RowType) /\ fails' = fails /\ fails \in Nat
  BY RunnerAssumption DEF TypeInv, TripInv, Decide, Ending, Deciding
<1>2. CASE /\ pc' = "finish" /\ result' = [result EXCEPT !.status = "completed"] /\ rows' = rows
  <2>1. result'.status = "completed"
    BY <1>2 DEF TypeInv
  <2> QED
    BY <1>1, <1>2, <2>1 DEF TripInv, TailInv, Ending
<1>3. CASE /\ pc' = "finish" /\ result' = [result EXCEPT !.status = "circuit_breaker"]
           /\ fails >= Threshold /\ rows' = Marked(rows, fails)
  <2>1. result'.status = "circuit_breaker"
    BY <1>3 DEF TypeInv
  <2>2. /\ Len(rows') = Len(rows)
        /\ \A n \in 1..Len(rows) : /\ rows'[n].failed = rows[n].failed
                                   /\ rows'[n].cause <=> n > Len(rows) - fails
    BY <1>1, <1>3, MarkedMeans
  <2>3. TailInv'
    <3>1. fails < Len(rows) => Len(rows) - fails \in 1..Len(rows)
      BY <1>1
    <3> QED
      BY <1>1, <2>2, <3>1 DEF TailInv
  <2>4. fails' = Threshold
    BY <1>1, <1>3
  <2> QED
    BY <1>1, <1>3, <2>1, <2>2, <2>3, <2>4 DEF TripInv, Ending
<1>4. CASE pc' = "top" /\ UNCHANGED <<result, rows>> /\ ~(fails >= Threshold)
  <2>1. fails < Threshold
    BY <1>1, <1>4
  <2> QED
    BY <1>1, <1>4, <2>1 DEF TripInv, TailInv, Ending
<1> QED
  BY <1>2, <1>3, <1>4, DecideMeans

FailInv == TailInv /\ TripInv

LEMMA FailStep == TypeInv /\ FailInv /\ [Next]_vars => FailInv'
<1> SUFFICES ASSUME TypeInv, FailInv, [Next]_vars PROVE FailInv'
  OBVIOUS
<1> USE DEF FailInv
<1>1. CASE AdapterError
  BY <1>1, AdapterRows, TailAdded, AdapterTrips
<1>2. CASE Account
  BY <1>2, AccountMeans, TailAdded, AccountTrips
<1>3. CASE Start \/ Top
  <2>1. /\ UNCHANGED <<rows, fails>> /\ result.status = "running"
        /\ \/ pc' \in {"top", "begin"} /\ result' = result
           \/ /\ pc' = "finish"
              /\ result'.status \in {"spec_gate", "max_iterations", "killed"}
    BY <1>3 DEF Start, Top, Finish, TypeInv, TripInv, Ending, loopVars
  <2>2. pc \notin Deciding \cup Ending
    BY <1>3 DEF Start, Top, Deciding, Ending
  <2>3. TailInv'
    BY <2>1 DEF TailInv
  <2>4. TripInv'
    BY <2>1, <2>2 DEF TripInv, Ending
  <2> QED
    BY <2>3, <2>4
<1>4. CASE \/ Begin \/ SessionEdits \/ Session \/ Post \/ VerifyCommand \/ Verify
           \/ Truncate \/ Write \/ End \/ Stop
  <2>1. UNCHANGED <<rows, fails>> /\ result'.status = result.status
    BY <1>4 DEF Begin, SessionEdits, Session, Post, VerifyCommand, Verify, Truncate, Write, End,
                Stop, TypeInv, loopVars
  <2>2. pc' \in Ending <=> pc \in Ending
    BY <1>4 DEF Begin, SessionEdits, Session, Post, VerifyCommand, Verify, Truncate, Write, End,
                Stop, Ending
  <2>3. pc' \in Deciding <=> pc \in Deciding
    BY <1>4 DEF Begin, SessionEdits, Session, Post, VerifyCommand, Verify, Truncate, Write, End,
                Stop, Deciding
  <2> QED
    BY <2>1, <2>2, <2>3 DEF TailInv, TripInv
<1>5. CASE Restart
  <2>1. Threshold \in Nat \ {0}
    BY RunnerAssumption
  <2> QED
    BY <1>5, <2>1, RestartMeans DEF TailInv, TripInv, Ending
<1>6. CASE UNCHANGED vars
  BY <1>6 DEF vars, loopVars, TailInv, TripInv
<1>7. CASE Decide
  BY <1>7, DecideTrips
<1> QED
  BY <1>1, <1>2, <1>3, <1>4, <1>5, <1>6, <1>7 DEF Next, Loop

LEMMA FailInit == Init => FailInv
<1>1. Threshold \in Nat \ {0}
  BY RunnerAssumption
<1> QED
  BY <1>1, InitMeans DEF FailInv, TailInv, TripInv, Ending

\* The loop stops at exactly Threshold failures in a row, and the rows of those
\* failures carry the cause, whatever order of successes, failures, adapter
\* errors and restarts led there (loop.py, _trip_breaker).
THEOREM BreakerCountsExactly == Spec => []BreakerIsExact
<1>1. ASSUME TypeInv, FailInv PROVE BreakerIsExact
  <2>1. Len(rows) \in Nat /\ DOMAIN rows = 1..Len(rows) /\ fails \in Nat
        /\ Threshold \in Nat \ {0} /\ fails <= Len(rows)
    BY <1>1, RunnerAssumption DEF TypeInv, FailInv, TailInv
  <2>2. Trailing = (Len(rows) - fails + 1)..Len(rows)
    <3>1. ASSUME NEW n \in Trailing PROVE n \in (Len(rows) - fails + 1)..Len(rows)
      <4>1. n \in 1..Len(rows) /\ \A m \in n..Len(rows) : rows[m].failed
        BY <2>1 DEF Trailing
      <4> QED
        BY <1>1, <2>1, <4>1 DEF FailInv, TailInv
    <3>2. ASSUME NEW n \in (Len(rows) - fails + 1)..Len(rows) PROVE n \in Trailing
      BY <1>1, <2>1 DEF FailInv, TailInv, Trailing
    <3> QED
      BY <3>1, <3>2
  <2> QED
    BY <1>1, <2>1, <2>2 DEF BreakerIsExact, FailInv, TripInv
<1>2. TypeInv /\ FailInv => BreakerIsExact
  BY <1>1
<1> QED
  BY InitTypes, NextTypes, FailInit, FailStep, <1>2, PTL DEF Spec

----------------------------------------------------------------------------
(* Idle sessions.                                                          *)

\* An idle session counts as a failure unless kelix stop has left its file in the
\* tree: nothing else is in it that the checkpoint would take for progress.
IdleInv ==
  /\ pc \in {"start", "begin", "session", "editing"} => idle <= fails
  /\ pc = "top" => (stop \/ idle <= fails) /\ idle <= Threshold
  /\ pc \in {"post", "verify", "account"} => idle <= fails + 1
  /\ pc \in Deciding => (stop \/ idle <= fails) /\ idle <= Threshold
  /\ pc \in Ending => idle <= Threshold
  /\ pc = "session" => stop \/ dirty \subseteq {"runner"}
  /\ pc = "post" /\ idle >= 1 =>
       ~rec.sentinel /\ ~rec.moved /\ (stop \/ dirty \subseteq {"runner"})
  /\ pc \in {"verify", "account"} /\ idle >= 1 => stop \/ (~rec.sentinel /\ ~rec.progress)

LEMMA IdleStep == TypeInv /\ FailInv /\ IdleInv /\ [Next]_vars => IdleInv'
<1> SUFFICES ASSUME TypeInv, FailInv, IdleInv, [Next]_vars PROVE IdleInv'
  OBVIOUS
<1>0. /\ Threshold \in Nat \ {0} /\ fails \in Nat /\ idle \in Nat
      /\ pc \notin Deciding \cup Ending => fails < Threshold
  BY RunnerAssumption DEF TypeInv, FailInv, TripInv
<1> USE DEF Deciding, Ending
<1>1. CASE Start \/ Top
  BY <1>0, <1>1 DEF Start, Top, Finish, IdleInv, loopVars, treeVars, history
<1>2. CASE Begin
  <2>1. /\ pc' = "session" /\ idle' = idle /\ fails' = fails /\ pc = "begin"
        /\ dirty' = (IF Checkpoint THEN {} ELSE dirty) \cup InTree("runner")
    BY <1>2 DEF Begin
  <2>2. dirty' \subseteq {"runner"}
    BY <2>1 DEF Checkpoint, InTree
  <2> QED
    BY <2>1, <2>2 DEF IdleInv
<1>3. CASE Session
  <2>1. pc' = "post" /\ UNCHANGED <<stop, fails>> /\ pc \in {"session", "editing"}
    BY <1>3 DEF Session
  <2> QED
    BY <1>0, <1>3, <2>1, SessionMeans DEF IdleInv
<1>4. CASE AdapterError
  <2>1. idle' = idle + 1 /\ pc = "session" /\ fails' = fails + 1 /\ pc' \in {"top", "finish"}
    BY <1>4, AdapterRows DEF AdapterError
  <2> QED
    BY <1>0, <2>1 DEF IdleInv
<1>5. CASE Post
  <2>1. /\ pc = "post" /\ pc' = "verify" /\ UNCHANGED <<idle, fails, stop>>
        /\ rec'.sentinel = rec.sentinel
        /\ rec'.progress = (Checkpoint \/ rec.moved)
    BY <1>5 DEF Post, TypeInv, RecType, history
  <2>2. dirty \subseteq {"runner"} => ~Checkpoint
    BY DEF Checkpoint
  <2> QED
    BY <1>0, <2>1, <2>2 DEF IdleInv
<1>6. CASE VerifyCommand
  <2>1. /\ pc' = pc /\ pc = "verify" /\ UNCHANGED <<idle, fails, stop>>
        /\ rec'.sentinel = rec.sentinel /\ rec'.progress = rec.progress
    BY <1>6 DEF VerifyCommand, TypeInv, RecType, history
  <2> QED
    BY <2>1 DEF IdleInv
<1>7. CASE Verify
  <2>1. pc = "verify" /\ pc' = "account" /\ UNCHANGED <<idle, fails, stop, rec>>
    BY <1>7 DEF Verify, loopVars
  <2> QED
    BY <2>1 DEF IdleInv
<1>8. CASE Account
  <2>1. pc = "account" /\ pc' = "save" /\ UNCHANGED <<idle, stop>>
    BY <1>8 DEF Account, history
  <2>2. idle >= 1 /\ ~stop => fails' = fails + 1
    BY <1>8, <2>1, AccountMeans DEF IdleInv
  <2>3. fails' \in Nat
    BY <1>8, AccountMeans
  <2> QED
    BY <1>0, <2>1, <2>2, <2>3 DEF IdleInv
<1>9. CASE Truncate \/ Write \/ End
  BY <1>9 DEF Truncate, Write, End, IdleInv, loopVars, history
<1>13. CASE SessionEdits
  BY <1>13 DEF SessionEdits, IdleInv, loopVars, history
<1>14. CASE Decide
  <2>1. pc = "decide" /\ pc' \in {"top", "finish"} /\ UNCHANGED <<idle, stop, fails>>
    BY <1>14, DecideMeans DEF Decide, history
  <2> QED
    BY <1>0, <2>1 DEF IdleInv
<1>10. CASE Stop
  BY <1>10 DEF Stop, IdleInv, loopVars, history
<1>11. CASE Restart
  BY <1>11, RestartMeans DEF IdleInv
<1>12. CASE UNCHANGED vars
  BY <1>12 DEF vars, loopVars, treeVars, history, IdleInv
<1> QED
  BY <1>1, <1>2, <1>3, <1>4, <1>5, <1>6, <1>7, <1>8, <1>9, <1>10, <1>11, <1>12, <1>13, <1>14
  DEF Next, Loop

\* An agent that does nothing is stopped after Threshold iterations: neither the
\* runner's own files nor what verification leaves behind passes for progress
\* (gitutil.py:60-86, loop.py).
THEOREM IdlersAreStopped == Spec => []IdleIsStopped
<1>1. Init => IdleInv
  BY InitMeans DEF IdleInv, Deciding, Ending
<1>2. TypeInv /\ FailInv /\ IdleInv => IdleIsStopped
  BY RunnerAssumption DEF TypeInv, FailInv, TripInv, IdleInv, IdleIsStopped, Working, Deciding,
                            Ending
<1> QED
  BY InitTypes, NextTypes, FailInit, FailStep, <1>1, IdleStep, <1>2, PTL DEF Spec

----------------------------------------------------------------------------
(* Edits, and the end of a completed run.                                  *)

EditsInv ==
  /\ EditsAreCommitted
  /\ pc \in Working => result.iterations >= 1

\* A checkpoint leaves no edits of the agent.
LEMMA EditsStep == TypeInv /\ EditsInv /\ [Next]_vars => EditsInv'
<1> SUFFICES ASSUME TypeInv, EditsInv, [Next]_vars PROVE EditsInv'
  OBVIOUS
<1> USE DEF EditsInv, EditsAreCommitted
<1>0. result \in [status : Verdicts, iterations : Nat] /\ runs \in Nat \ {0}
  BY DEF TypeInv
<1>1. CASE Start \/ Top
  BY <1>0, <1>1 DEF Start, Top, Finish, Working, loopVars, treeVars, history
<1>2. CASE Begin
  <2>1. "agent" \notin dirty'
    BY <1>2 DEF Begin, Checkpoint, InTree
  <2> QED
    BY <1>0, <1>2, <2>1 DEF Begin
<1>3. CASE SessionEdits
  <2>1. pc' = "editing" /\ UNCHANGED <<result, strayed>> /\ pc = "session"
    BY <1>3 DEF SessionEdits, loopVars, history
  <2> QED
    BY <2>1 DEF Working
<1>12. CASE Session
  <2>1. pc' = "post" /\ UNCHANGED <<result, strayed>> /\ pc \in Working
    BY <1>12 DEF Session, Working
  <2> QED
    BY <2>1
<1>4. CASE AdapterError \/ Account
  <2>1. /\ UNCHANGED <<dirty, runs, inPlace, strayed>>
        /\ result'.iterations = result.iterations
        /\ pc \in {"session", "account"} /\ pc' \notin Working
    BY <1>0, <1>4, AdapterRows DEF AdapterError, Account, Working, treeVars, history
  <2> QED
    BY <2>1 DEF Working
<1>13. CASE Truncate \/ Write \/ Decide
  <2>1. UNCHANGED <<dirty, runs, inPlace, strayed>> /\ result'.iterations = result.iterations
    BY <1>0, <1>13, DecideMeans DEF Truncate, Write, Decide, treeVars, history
  <2>2. pc \notin Working /\ pc' \notin Working
    BY <1>13, DecideMeans DEF Truncate, Write, Decide, Working
  <2> QED
    BY <2>1, <2>2 DEF Working
<1>5. CASE Post
  <2>1. "agent" \notin dirty'
    BY <1>5 DEF Post, Checkpoint
  <2> QED
    BY <1>5, <2>1 DEF Post, Working, history
<1>6. CASE VerifyCommand
  <2>1. "agent" \in dirty' => "agent" \in dirty
    BY <1>6 DEF VerifyCommand
  <2> QED
    BY <1>6, <2>1 DEF VerifyCommand, history
<1>7. CASE Verify
  BY <1>7 DEF Verify, Working, loopVars, treeVars
<1>8. CASE End
  <2>1. "agent" \in dirty' => "agent" \in dirty
    BY <1>8 DEF End, Retrospective, InTree
  <2> QED
    BY <1>8, <2>1 DEF End, Working, loopVars, history
<1>9. CASE Stop
  <2>1. "agent" \in dirty' => "agent" \in dirty
    BY <1>9 DEF Stop, InTree
  <2> QED
    BY <1>9, <2>1 DEF Stop, loopVars, history
<1>10. CASE Restart
  <2>1. CASE RestartInPlace
    <3>1. inPlace' /\ runs' > 1 /\ result'.iterations = 0 /\ strayed' = strayed
      BY <1>0, <1>10, <2>1, RestartMeans DEF RestartInPlace
    <3> QED
      BY <1>10, <3>1, RestartMeans DEF Working
  <2>2. CASE RestartInWorktree
    <3>1. /\ ~inPlace /\ dirty' = {}
          /\ strayed' = IF "agent" \in dirty THEN strayed \cup {pc} ELSE strayed
      BY <2>2 DEF RestartInWorktree
    <3> QED
      BY <1>10, <3>1, RestartMeans DEF Working
  <2> QED
    BY <1>10, <2>1, <2>2 DEF Restart
<1>11. CASE UNCHANGED vars
  BY <1>11 DEF vars, loopVars, treeVars, history
<1> QED
  BY <1>1, <1>2, <1>3, <1>4, <1>5, <1>6, <1>7, <1>8, <1>9, <1>10, <1>11, <1>12, <1>13
  DEF Next, Loop

LEMMA EditsInit == Init => EditsInv
BY InitMeans DEF EditsInv, EditsAreCommitted, Working

\* Wherever the process dies, edits of a session are uncommitted only between the
\* first of them and the checkpoint after the session, or in place until the next
\* run's first session; a worktree keeps uncommitted edits only of a run that died
\* in that window (loop.py, the checkpoints).
THEOREM EditsAreKept == Spec => []EditsAreCommitted
<1>1. EditsInv => EditsAreCommitted
  BY DEF EditsInv
<1> QED
  BY InitTypes, NextTypes, EditsInit, EditsStep, <1>1, PTL DEF Spec

Done == {i \in DOMAIN tasks : IsDone(tasks[i])}

\* What verification has seen is what the backlog says until the next session.
DoneInv ==
  /\ pc \in {"account"} \cup Deciding /\ rec.verified # "red" => Done \subseteq proven
  /\ result.status = "completed" => Done \subseteq proven

LEMMA DoneStep == TypeInv /\ FailInv /\ DoneInv /\ [Next]_vars => DoneInv'
<1> SUFFICES ASSUME TypeInv, FailInv, DoneInv, [Next]_vars PROVE DoneInv'
  OBVIOUS
<1>0. /\ result \in [status : Verdicts, iterations : Nat]
      /\ result.status = "completed" => pc \in Ending
  BY DEF TypeInv, FailInv, TripInv
<1>1. CASE \/ Start \/ Top \/ Begin \/ SessionEdits \/ Session \/ AdapterError \/ Post
           \/ VerifyCommand
  <2>1. result'.status # "completed"
    BY <1>0, <1>1, AdapterRows DEF Start, Top, Begin, SessionEdits, Session, AdapterError, Post,
       VerifyCommand, Finish, Ending, loopVars
  <2>2. pc' \notin {"account"} \cup Deciding
    BY <1>1, AdapterRows DEF Start, Top, Begin, SessionEdits, Session, AdapterError, Post,
       VerifyCommand, Finish, Deciding
  <2> QED
    BY <2>1, <2>2 DEF DoneInv
<1>2. CASE Verify
  <2>1. /\ proven' = IF rec.verified = "red" THEN proven ELSE proven \cup Done
        /\ UNCHANGED <<rec, result, tasks>> /\ pc = "verify"
    BY <1>2, Zenon DEF Verify, Done, loopVars, treeVars
  <2>2. Done' = Done
    BY <2>1 DEF Done
  <2> QED
    BY <1>0, <2>1, <2>2 DEF DoneInv, Ending
<1>3. CASE Account
  <2>1. UNCHANGED <<tasks, proven, result>> /\ pc = "account" /\ rec'.verified = rec.verified
    BY <1>3, AccountMeans DEF Account, treeVars, history
  <2>2. Done' = Done
    BY <2>1 DEF Done
  <2> QED
    BY <2>1, <2>2 DEF DoneInv
<1>4. CASE Decide
  <2>1. UNCHANGED <<tasks, proven, rec>> /\ pc = "decide" /\ pc' \in {"finish", "top"}
    BY <1>4, DecideMeans DEF Decide, treeVars, history
  <2>2. Done' = Done
    BY <2>1 DEF Done
  <2>3. result'.status = "completed" => rec.verified # "red" \/ result.status = "completed"
    BY <1>0, <1>4, DecideMeans
  <2> QED
    BY <2>1, <2>2, <2>3 DEF DoneInv, Deciding
<1>5. CASE Truncate \/ Write \/ End \/ Stop \/ UNCHANGED vars
  <2>1. UNCHANGED <<tasks, proven, rec, result>>
    BY <1>5 DEF Truncate, Write, End, Stop, vars, loopVars, treeVars, history
  <2>2. pc' \in {"account"} \cup Deciding => pc \in {"account"} \cup Deciding
    BY <1>5 DEF Truncate, Write, End, Stop, vars, Deciding
  <2>3. Done' = Done
    BY <2>1 DEF Done
  <2> QED
    BY <2>1, <2>2, <2>3 DEF DoneInv
<1>6. CASE Restart
  BY <1>6, RestartMeans DEF DoneInv, Deciding
<1> QED
  BY <1>1, <1>2, <1>3, <1>4, <1>5, <1>6 DEF Next, Loop

\* A run whose outcome is to be decided, or is completed, has begun an iteration.
BegunInv ==
  /\ pc \in Deciding => result.iterations >= 1
  /\ result.status = "completed" => result.iterations >= 1

LEMMA BegunStep == TypeInv /\ FailInv /\ EditsInv /\ BegunInv /\ [Next]_vars => BegunInv'
<1> SUFFICES ASSUME TypeInv, FailInv, EditsInv, BegunInv, [Next]_vars PROVE BegunInv'
  OBVIOUS
<1>0. /\ result \in [status : Verdicts, iterations : Nat]
      /\ result.status = "completed" => pc \in Ending
  BY DEF TypeInv, FailInv, TripInv
<1>1. CASE \/ Start \/ Top \/ Begin \/ SessionEdits \/ Session \/ AdapterError \/ Post
           \/ VerifyCommand \/ Verify
  <2>1. result'.status # "completed"
    BY <1>0, <1>1, AdapterRows DEF Start, Top, Begin, SessionEdits, Session, AdapterError, Post,
       VerifyCommand, Verify, Finish, Ending, loopVars
  <2>2. pc' \notin Deciding
    BY <1>1, AdapterRows DEF Start, Top, Begin, SessionEdits, Session, AdapterError, Post,
       VerifyCommand, Verify, Finish, Deciding
  <2> QED
    BY <2>1, <2>2 DEF BegunInv
<1>2. CASE Account
  <2>1. UNCHANGED result /\ pc = "account" /\ result.iterations >= 1
    BY <1>2 DEF Account, EditsInv, Working
  <2> QED
    BY <2>1 DEF BegunInv
<1>3. CASE Decide
  <2>1. result'.iterations = result.iterations /\ result.iterations >= 1
    BY <1>0, <1>3, DecideMeans DEF Decide, Deciding, BegunInv
  <2> QED
    BY <2>1 DEF BegunInv
<1>4. CASE Truncate \/ Write \/ End \/ Stop \/ UNCHANGED vars
  <2>1. UNCHANGED result /\ (pc' \in Deciding => pc \in Deciding)
    BY <1>4 DEF Truncate, Write, End, Stop, vars, loopVars, Deciding
  <2> QED
    BY <2>1 DEF BegunInv
<1>5. CASE Restart
  BY <1>5, RestartMeans DEF BegunInv, Deciding
<1> QED
  BY <1>1, <1>2, <1>3, <1>4, <1>5 DEF Next, Loop

\* When the sentinel ends a run, every done task was done in a tree that passed
\* verification, and no edit is left out of it (loop.py, the sentinel check).
THEOREM CompletedMeansVerified == Spec => []CompletedIsVerified
<1>1. Init => DoneInv /\ BegunInv
  BY InitMeans DEF DoneInv, BegunInv, Deciding
<1>2. TypeInv /\ FailInv /\ EditsInv /\ DoneInv /\ BegunInv => CompletedIsVerified
  BY DEF TypeInv, FailInv, TripInv, EditsInv, EditsAreCommitted, DoneInv, BegunInv, Done,
         CompletedIsVerified, Ending
<1> QED
  BY InitTypes, NextTypes, FailInit, FailStep, EditsInit, EditsStep, <1>1, DoneStep, BegunStep,
     <1>2, PTL
  DEF Spec

----------------------------------------------------------------------------
(* The phase gate.                                                         *)

CoveredUpTo(p) == \A m \in Passed(p) : \A r \in Phases[m].reqs : Covered(r)

StateType ==
  [phase : {FirstPhase, NoPhase} \cup {Phases[n].id : n \in DOMAIN Phases},
   blockers : SUBSET UNION {Phases[n].reqs : n \in DOMAIN Phases}]

PhaseInv ==
  /\ state \in StateType /\ disk \in StateType
  /\ CoveredUpTo(state.phase) /\ CoveredUpTo(disk.phase)

LEMMA UniquePhases ==
  /\ DOMAIN Phases = 1..Len(Phases) /\ Len(Phases) \in Nat
  /\ \A m, n \in DOMAIN Phases : Phases[m].id = Phases[n].id => m = n
BY RunnerAssumption

\* Nothing lies before the first phase, and one phase more before the next one.
LEMMA NonePassed == Passed(FirstPhase) = {} /\ Passed(NoPhase) = {}
<1>1. \A m \in DOMAIN Phases : Phases[m].id # NoPhase
  BY RunnerAssumption
<1> QED
  BY <1>1, UniquePhases DEF Passed

LEMMA OneMorePassed ==
  ASSUME NEW p, NEW m \in Passed(NextPhase(p))
  PROVE  m \in Passed(p) \/ (m \in DOMAIN Phases /\ Phases[m].id = p)
<1> DEFINE following == {n \in 2..Len(Phases) : Phases[n - 1].id = p}
<1>1. CASE following = {}
  BY <1>1 DEF NextPhase
<1>2. CASE following # {}
  <2>1. PICK n \in following : NextPhase(p) = Phases[n].id
    BY <1>2 DEF NextPhase
  <2>2. n \in DOMAIN Phases /\ n - 1 \in DOMAIN Phases /\ Phases[n - 1].id = p
    BY <2>1, UniquePhases
  <2>3. PICK f \in DOMAIN Phases, k \in DOMAIN Phases :
          Phases[f].id = FirstPhase /\ Phases[k].id = NextPhase(p) /\ f <= m /\ m < k
    BY DEF Passed
  <2>4. k = n /\ m \in DOMAIN Phases
    BY <2>1, <2>2, <2>3, UniquePhases DEF Passed
  <2>5. CASE m = n - 1
    BY <2>2, <2>5
  <2>6. CASE m # n - 1
    <3>1. m < n - 1
      BY <2>2, <2>3, <2>4, <2>6, UniquePhases
    <3> QED
      BY <2>2, <2>3, <2>4, <3>1 DEF Passed
  <2> QED
    BY <2>5, <2>6
<1> QED
  BY <1>1, <1>2

LEMMA GateTyped ==
  ASSUME state \in StateType
  PROVE  ApplyPhaseGate \in StateType
<1>1. NextPhase(state.phase) \in {FirstPhase, NoPhase} \cup {Phases[n].id : n \in DOMAIN Phases}
  <2> DEFINE following == {n \in 2..Len(Phases) : Phases[n - 1].id = state.phase}
  <2>1. CASE following = {}
    BY <2>1 DEF NextPhase, StateType
  <2>2. CASE following # {}
    <3>1. PICK n \in following : NextPhase(state.phase) = Phases[n].id
      BY <2>2 DEF NextPhase
    <3>2. n \in DOMAIN Phases
      BY <3>1, UniquePhases
    <3> QED
      BY <3>1, <3>2
  <2> QED
    BY <2>1, <2>2
<1>2. Uncovered(state.phase) \subseteq UNION {Phases[n].reqs : n \in DOMAIN Phases}
  BY DEF Uncovered, PhaseReqs
<1> QED
  BY <1>1, <1>2 DEF ApplyPhaseGate, StateType

LEMMA GateCovers ==
  ASSUME state \in StateType, CoveredUpTo(state.phase)
  PROVE  CoveredUpTo(ApplyPhaseGate.phase)
<1>1. CASE /\ state.phase # NoPhase
           /\ \A r \in PhaseReqs(state.phase) : Covered(r)
  <2>1. ApplyPhaseGate.phase = NextPhase(state.phase)
    BY <1>1 DEF ApplyPhaseGate
  <2>2. ASSUME NEW m \in Passed(NextPhase(state.phase)), NEW r \in Phases[m].reqs
        PROVE  Covered(r)
    <3>1. CASE m \in Passed(state.phase)
      BY <3>1 DEF CoveredUpTo
    <3>2. CASE m \in DOMAIN Phases /\ Phases[m].id = state.phase
      BY <1>1, <3>2 DEF PhaseReqs
    <3> QED
      BY <3>1, <3>2, OneMorePassed
  <2> QED
    BY <2>1, <2>2 DEF CoveredUpTo
<1>2. CASE ~ /\ state.phase # NoPhase
             /\ \A r \in PhaseReqs(state.phase) : Covered(r)
  <2>1. ApplyPhaseGate.phase = state.phase
    BY <1>2 DEF ApplyPhaseGate, StateType
  <2> QED
    BY <2>1
<1> QED
  BY <1>1, <1>2

\* A session reopens no task.
LEMMA SessionCovers ==
  ASSUME SessionEdits, NEW r, Covered(r)
  PROVE  Covered(r)'
<1>1. PICK i \in 0..Len(tasks), s \in {"done", "blocked"} : Edits(i, s)
  BY DEF SessionEdits
<1>2. PICK j \in DOMAIN tasks : IsDone(tasks[j]) /\ r \in tasks[j].reqs
  BY DEF Covered
<1>3. CASE tasks' = tasks
  BY <1>2, <1>3 DEF Covered
<1>4. CASE i \in DOMAIN tasks /\ tasks[i].status = "ready" /\ tasks' = [tasks EXCEPT ![i].status = s]
  <2>1. i # j
    BY <1>2, <1>4 DEF IsDone
  <2>2. DOMAIN tasks' = DOMAIN tasks /\ tasks'[j] = tasks[j]
    BY <1>2, <1>4, <2>1
  <2> QED
    BY <1>2, <2>2 DEF Covered
<1> QED
  BY <1>1, <1>3, <1>4 DEF Edits

LEMMA PhaseStep == PhaseInv /\ [Next]_vars => PhaseInv'
<1> SUFFICES ASSUME PhaseInv, [Next]_vars PROVE PhaseInv'
  OBVIOUS
<1> USE DEF PhaseInv
<1>1. CASE SessionEdits
  <2>1. UNCHANGED <<state, disk>>
    BY <1>1 DEF SessionEdits
  <2> QED
    BY <1>1, <2>1, SessionCovers DEF CoveredUpTo
<1>2. CASE Verify \/ End
  <2>1. tasks' = tasks /\ state' \in {state, ApplyPhaseGate} /\ disk' \in {disk, state'}
    BY <1>2, Zenon DEF Verify, End, treeVars
  <2>2. \A r : Covered(r)' = Covered(r)
    BY <2>1 DEF Covered
  <2>3. state' \in StateType /\ disk' \in StateType
    BY <2>1, GateTyped
  <2>4. CoveredUpTo(state'.phase) /\ CoveredUpTo(disk'.phase)
    BY <2>1, GateCovers
  <2> QED
    BY <2>2, <2>3, <2>4 DEF CoveredUpTo
<1>3. CASE Restart
  <2>1. \/ tasks' = tasks /\ state' \in {disk, BlankState} /\ disk' = state'
        \/ state' = BaseState /\ disk' = BaseState
    BY <1>3, Zenon DEF Restart, RestartInPlace, RestartInWorktree
  <2>2. CASE state' = disk /\ disk' = disk /\ tasks' = tasks
    BY <2>2 DEF CoveredUpTo, Covered
  <2>3. CASE state' = BaseState /\ disk' = BaseState
    BY <2>3, NonePassed DEF BaseState, StateType, CoveredUpTo
  <2>4. CASE state' = BlankState /\ disk' = BlankState
    BY <2>4, NonePassed DEF BlankState, StateType, CoveredUpTo
  <2> QED
    BY <2>1, <2>2, <2>3, <2>4
<1>4. CASE \/ Start \/ Top \/ Begin \/ Session \/ AdapterError \/ Post \/ VerifyCommand
           \/ Account \/ Truncate \/ Write \/ Decide \/ Stop \/ UNCHANGED vars
  <2>1. UNCHANGED <<tasks, state, disk>>
    BY <1>4 DEF Start, Top, Begin, Session, AdapterError, Post, VerifyCommand, Account, Truncate,
                Write, Decide, Stop, vars, treeVars
  <2> QED
    BY <2>1 DEF CoveredUpTo, Covered
<1> QED
  BY <1>1, <1>2, <1>3, <1>4 DEF Next, Loop

\* Every phase that the run or STATE.md has left behind is covered by done tasks,
\* over crashes, restarts and worktrees (loop.py:217-249).
THEOREM PhasesAreCovered == Spec => []PhasesBehindCovered
<1>1. Init => PhaseInv
  <2>1. Init => state = BaseState /\ disk = BaseState
    BY Zenon DEF Init
  <2> QED
    BY <2>1, NonePassed DEF PhaseInv, BaseState, StateType, CoveredUpTo
<1>2. PhaseInv => PhasesBehindCovered
  BY DEF PhaseInv, CoveredUpTo, PhasesBehindCovered
<1> QED
  BY <1>1, PhaseStep, <1>2, PTL DEF Spec
=============================================================================
