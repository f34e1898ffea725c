---------------------------- MODULE ClaimsProofs ----------------------------
(***************************************************************************)
(* What holds of the claim files for any number of agents, tasks and clock *)
(* ticks, with crashes and failed writes at any point.  The types hold     *)
(* unconditionally.  Exclusion and the refinement of ClaimLock hold for as *)
(* long as no claim goes stale: the steal path breaks them, as the run     *)
(* claims_steal shows.                                                     *)
(***************************************************************************)
EXTENDS Claims, TLAPS

----------------------------------------------------------------------------
(* Types.                                                                  *)

LEMMA RecordTypes ==
  ASSUME TypeOK, NEW a \in Agents
  PROVE  /\ Absent \in FileRecord
         /\ Partial(a) \in FileRecord
         /\ \A now \in Nat : Claim(a, now) \in FileRecord
         /\ Idle \in ProcRecord
  BY ClaimsAssumption DEF TypeOK, Absent, Partial, Claim, Idle, FileRecord, ProcRecord

LEMMA InitTypeOK == Init => TypeOK
  BY ClaimsAssumption DEF Init, TypeOK, Absent, Idle, FileRecord, ProcRecord

\* What a call returns, and where it stands next, is well typed.
LEMMA ReturnTypes ==
  ASSUME TypeOK, NEW a \in Agents
  PROVE  /\ Return(a) => proc' \in [Agents -> ProcRecord]
         /\ ReturnFalse(a) => /\ proc' \in [Agents -> ProcRecord]
                              /\ held' \in [Tasks -> SUBSET Agents]
                              /\ since' \in [Tasks -> [Agents -> Nat]]
         /\ \A t \in Tasks, stamp \in Nat :
              ReturnTrue(a, t, stamp) => /\ proc' \in [Agents -> ProcRecord]
                                         /\ held' \in [Tasks -> SUBSET Agents]
                                         /\ since' \in [Tasks -> [Agents -> Nat]]
  <1>1. Return(a) => proc' \in [Agents -> ProcRecord]
    BY RecordTypes DEF TypeOK, Return
  <1>2. ASSUME NEW t \in Tasks, NEW stamp \in Nat, ReturnTrue(a, t, stamp)
        PROVE  /\ held' \in [Tasks -> SUBSET Agents]
               /\ since' \in [Tasks -> [Agents -> Nat]]
    BY <1>2 DEF TypeOK, ReturnTrue
  <1> QED
    BY <1>1, <1>2 DEF TypeOK, ReturnFalse, ReturnTrue

LEMMA GotoTypes ==
  ASSUME TypeOK, NEW a \in Agents,
         NEW pc \in {"idle", "read", "exists", "unlink", "create", "write", "replace", "release"},
         Goto(a, pc)
  PROVE  /\ proc' \in [Agents -> ProcRecord]
         /\ proc'[a] = [proc[a] EXCEPT !.pc = pc]
         /\ proc'[a].pc = pc
         /\ proc'[a].task = proc[a].task
         /\ \A b \in Agents \ {a} : proc'[b] = proc[b]
  BY DEF TypeOK, Goto, ProcRecord

\* Types as they are inductive: between a call and its return the task is one.
TypeInv ==
  /\ TypeOK
  /\ \A a \in Agents : proc[a].pc # "idle" => proc[a].task \in Tasks

\* A step keeps the types and, while a call runs, its task.
LEMMA StepTypes ==
  ASSUME TypeInv, NEW a \in Agents, Step(a)
  PROVE  TypeInv'
  <1> DEFINE t == proc[a].task
  <1> USE DEF TypeInv
  <1>1. CASE ClaimRead(a)
    <2>1. t \in Tasks /\ file[t] \in FileRecord /\ file[t].hb \in Nat
      BY <1>1 DEF ClaimRead, TypeOK, FileRecord
    <2>2. CASE Return(a)
      BY <1>1, <2>1, <2>2, ReturnTypes
      DEF ClaimRead, TypeOK, Return, Idle, ReturnTrue, ReturnFalse
    <2>3. CASE Goto(a, "unlink") /\ UNCHANGED <<held, since>>
      BY <1>1, <2>1, <2>3, GotoTypes DEF ClaimRead, TypeOK
    <2>4. CASE Goto(a, "exists") /\ UNCHANGED <<held, since>>
      BY <1>1, <2>1, <2>4, GotoTypes DEF ClaimRead, TypeOK
    <2> QED
      BY <1>1, <2>2, <2>3, <2>4 DEF ClaimRead, ReturnTrue, ReturnFalse
  <1>2. CASE ClaimExists(a)
    <2>1. CASE Goto(a, "create") /\ UNCHANGED <<held, since>>
      BY <1>2, <2>1, GotoTypes DEF ClaimExists, TypeOK
    <2>2. CASE ReturnFalse(a)
      BY <1>2, <2>2, ReturnTypes DEF ClaimExists, TypeOK, ReturnFalse, Return, Idle
    <2> QED
      BY <1>2, <2>1, <2>2 DEF ClaimExists
  <1>3. CASE ClaimUnlink(a)
    BY <1>3, RecordTypes, GotoTypes DEF ClaimUnlink, TypeOK
  <1>4. CASE ClaimCreate(a)
    <2>1. CASE Goto(a, "write") /\ UNCHANGED <<held, since>>
      BY <1>4, <2>1, RecordTypes, GotoTypes DEF ClaimCreate, TypeOK, ReturnFalse
    <2>2. CASE ReturnFalse(a)
      BY <1>4, <2>2, RecordTypes, ReturnTypes
      DEF ClaimCreate, TypeOK, ReturnFalse, Return, Idle
    <2> QED
      BY <1>4, <2>1, <2>2 DEF ClaimCreate
  <1>5. CASE ClaimWrite(a)
    <2>1. t \in Tasks /\ proc[a].now \in Nat
      BY <1>5 DEF ClaimWrite, TypeOK, ProcRecord
    <2>2. file' \in [Tasks -> FileRecord]
      BY <1>5, <2>1, RecordTypes DEF ClaimWrite, TypeOK
    <2> QED
      BY <1>5, <2>1, <2>2, ReturnTypes DEF ClaimWrite, TypeOK, ReturnTrue, Return, Idle
  <1>6. CASE ClaimWriteFails(a)
    BY <1>6, RecordTypes, ReturnTypes
    DEF ClaimWriteFails, TypeOK, ReturnFalse, Return, Idle
  <1>7. CASE Replace(a)
    <2>1. proc[a].seen \in FileRecord
      BY DEF TypeOK, ProcRecord
    <2> QED
      BY <1>7, <2>1, ReturnTypes DEF Replace, TypeOK, Return, Idle
  <1>8. CASE ReleaseUnlink(a)
    BY <1>8, RecordTypes, ReturnTypes DEF ReleaseUnlink, TypeOK, Return, Idle
  <1> QED
    BY <1>1, <1>2, <1>3, <1>4, <1>5, <1>6, <1>7, <1>8 DEF Step

\* A call starts on a task, with a record that a file could hold.
LEMMA CallTypes ==
  ASSUME TypeInv, NEW a \in Agents, NEW t \in Tasks, Call(a, t)
  PROVE  TypeInv'
  <1> USE DEF TypeInv
  <1>1. CASE ClaimStart(a, t)
    <2>1. clock \in Nat /\ Absent \in FileRecord
      BY RecordTypes, ClaimsAssumption DEF TypeOK
    <2>2. proc' \in [Agents -> ProcRecord]
      BY <1>1, <2>1 DEF ClaimStart, TypeOK, Idle, ProcRecord
    <2> QED
      BY <1>1, <2>2 DEF ClaimStart, TypeOK, Idle
  <1>2. ASSUME NEW record \in FileRecord, StartReplace(a, t, record),
               UNCHANGED <<file, clock, held, since>>
        PROVE  TypeInv'
    <2>1. proc' \in [Agents -> ProcRecord]
      BY <1>2 DEF StartReplace, TypeOK, Idle, ProcRecord
    <2> QED
      BY <1>2, <2>1 DEF StartReplace, TypeOK, Idle
  <1>3. CASE Heartbeat(a, t)
    <2> DEFINE record == [file[t] EXCEPT !.hb = clock]
    <2>1. record \in FileRecord
      <3>1. file[t] \in FileRecord /\ clock \in Nat
        BY ClaimsAssumption DEF TypeOK
      <3> QED
        BY <3>1 DEF FileRecord
    <2>2. StartReplace(a, t, record) /\ UNCHANGED <<file, clock, held, since>>
      BY <1>3 DEF Heartbeat
    <2> HIDE DEF record
    <2> QED
      BY <1>2, <2>1, <2>2
  <1>4. CASE MarkClaimDone(a, t)
    <2> DEFINE record == [file[t] EXCEPT !.done = TRUE, !.hb = clock]
    <2>1. record \in FileRecord
      <3>1. file[t] \in FileRecord /\ clock \in Nat
        BY ClaimsAssumption DEF TypeOK
      <3> QED
        BY <3>1 DEF FileRecord
    <2>2. StartReplace(a, t, record) /\ UNCHANGED <<file, clock, held, since>>
      BY <1>4 DEF MarkClaimDone
    <2> HIDE DEF record
    <2> QED
      BY <1>2, <2>1, <2>2
  <1>5. CASE ReleaseClaim(a, t)
    <2>1. Absent \in FileRecord
      BY RecordTypes
    <2>2. proc' \in [Agents -> ProcRecord]
      BY <1>5, <2>1 DEF ReleaseClaim, TypeOK, Idle, ProcRecord
    <2>3. held' \in [Tasks -> SUBSET Agents] /\ since' \in [Tasks -> [Agents -> Nat]]
      BY <1>5 DEF ReleaseClaim, Forget, TypeOK
    <2> QED
      BY <1>5, <2>2, <2>3 DEF ReleaseClaim, TypeOK, Idle
  <1> QED
    BY <1>1, <1>3, <1>4, <1>5 DEF Call

LEMMA NextTypes == TypeInv /\ [Next]_vars => TypeInv'
  <1> SUFFICES ASSUME TypeInv, [Next]_vars PROVE TypeInv'
    OBVIOUS
  <1>1. CASE Tick
    BY <1>1, ClaimsAssumption DEF Tick, TypeInv, TypeOK
  <1>2. ASSUME NEW a \in Agents, Crash(a) PROVE TypeInv'
    <2>1. proc' \in [Agents -> ProcRecord]
      BY <1>2, ReturnTypes DEF Crash, TypeInv
    <2> QED
      BY <1>2, <2>1 DEF Crash, Return, Idle, TypeInv, TypeOK
  <1>3. CASE UNCHANGED vars
    BY <1>3 DEF vars, TypeInv, TypeOK
  <1> QED
    BY <1>1, <1>2, <1>3, StepTypes, CallTypes DEF Next

\* Every value a step computes is one the code can hold: whatever crashes,
\* fails or is stolen, the claim path never holds anything but nothing, a file
\* still empty, or a claim of some agent.
THEOREM TypeCorrect == Spec => []TypeOK
  <1>1. Init => TypeInv
    BY InitTypeOK DEF Init, Idle, TypeInv
  <1>2. TypeInv => TypeOK
    BY DEF TypeInv
  <1> QED
    BY <1>1, <1>2, NextTypes, PTL DEF Spec

----------------------------------------------------------------------------
(* Exclusion, while no claim goes stale.                                   *)

\* What each place in a call knows of the file it works on, as long as nobody
\* steals: exclusion alone is not inductive, because a replace, a release or
\* a late write could still hit somebody else's file.
CallInv(a) ==
  LET t == proc[a].task
  IN  /\ proc[a].pc # "unlink"
      /\ proc[a].pc = "write" => OwnFile(a, t)
      /\ proc[a].pc = "replace" =>
           Owns(a, t) /\ proc[a].seen.st = "claim" /\ proc[a].seen.agent = a
      /\ proc[a].pc = "release" => Owns(a, t) /\ a \notin held[t]

AuthorInv == \A t \in Tasks : file[t].st = "absent" <=> file[t].agent = None

IInv ==
  /\ TypeInv
  /\ \A a \in Agents : CallInv(a)
  /\ AuthorInv
  /\ HeldIsOwned

\* A step of a touches no other agent's call.
LEMMA OthersStay ==
  ASSUME TypeInv, NEW a \in Agents, NEW b \in Agents \ {a}, Step(a)
  PROVE  proc'[b] = proc[b]
  BY DEF TypeInv, TypeOK, Step, ClaimRead, ClaimExists, ClaimUnlink, ClaimCreate, ClaimWrite,
     ClaimWriteFails, Replace, ReleaseUnlink, Goto, Return, ReturnTrue, ReturnFalse

\* Steps that leave the files alone and tell a nothing new, or only that it
\* holds what it owns.
LEMMA QuietStep ==
  ASSUME IInv, TypeInv', NEW a \in Agents, UNCHANGED file,
         \A b \in Agents \ {a} : proc'[b] = proc[b],
         proc'[a].pc \in {"idle", "read", "exists", "create"},
         \A t \in Tasks : \A b \in held'[t] : b \in held[t] \/ (b = a /\ Owns(a, t))
  PROVE  IInv'
  <1>1. ASSUME NEW b \in Agents PROVE CallInv(b)'
    <2>1. CASE b = a
      BY <2>1 DEF CallInv
    <2>2. CASE b # a
      BY <2>2 DEF IInv, CallInv, OwnFile, Owns, TypeInv, TypeOK
    <2> QED
      BY <2>1, <2>2
  <1>2. AuthorInv'
    BY DEF IInv, AuthorInv
  <1>3. HeldIsOwned'
    BY DEF IInv, HeldIsOwned, Owns
  <1> QED
    BY <1>1, <1>2, <1>3 DEF IInv

\* Steps that write only to the path of a's task, which is a's or nobody's.
LEMMA OwnStep ==
  ASSUME IInv, TypeInv', NEW a \in Agents, NEW t \in Tasks, NEW new,
         file' = [file EXCEPT ![t] = new],
         file[t].agent \in {a, None},
         new.st = "absent" <=> new.agent = None,
         \A b \in Agents \ {a} : proc'[b] = proc[b],
         \A u \in Tasks : u # t => held'[u] = held[u],
         CallInv(a)',
         \A b \in held'[t] : b = a /\ Owns(a, t)'
  PROVE  IInv'
  <1>1. ASSUME NEW b \in Agents \ {a} PROVE CallInv(b)'
    BY ClaimsAssumption DEF IInv, CallInv, OwnFile, Owns, TypeInv, TypeOK
  <1>2. AuthorInv'
    BY DEF IInv, AuthorInv, TypeInv, TypeOK
  <1>3. HeldIsOwned'
    BY DEF IInv, HeldIsOwned, Owns, TypeInv, TypeOK
  <1> QED
    BY <1>1, <1>2, <1>3 DEF IInv

\* Where a is after a return, and what it was told.
LEMMA ReturnEffect ==
  ASSUME TypeInv, NEW a \in Agents, Return(a)
  PROVE  proc'[a].pc = "idle"
  BY DEF TypeInv, TypeOK, Return, Idle

LEMMA ReturnTrueEffect ==
  ASSUME TypeInv, NEW a \in Agents, NEW t \in Tasks, NEW stamp, ReturnTrue(a, t, stamp)
  PROVE  /\ proc'[a].pc = "idle"
         /\ \A u \in Tasks : held'[u] = IF u = t THEN held[u] \cup {a} ELSE held[u]
  BY ReturnEffect DEF TypeInv, TypeOK, ReturnTrue

LEMMA StepExcl ==
  ASSUME IInv, NoneStale, NEW a \in Agents, NEW t \in Tasks, proc[a].task = t, Step(a)
  PROVE  IInv'
  <1>1. TypeInv /\ TypeInv' /\ (\A b \in Agents \ {a} : proc'[b] = proc[b]) /\ CallInv(a)
    BY StepTypes, OthersStay DEF IInv
  <1>2. file[t] \in FileRecord
    BY <1>1 DEF TypeInv, TypeOK
  <1>3. CASE ClaimRead(a)
    <2>1. file[t].hb \in Nat
      BY <1>2 DEF FileRecord
    <2>2. ~(file[t].st = "claim" /\ IsStale(file[t]))
      BY <2>1 DEF NoneStale
    <2>3. CASE ReturnTrue(a, t, file[t].hb) /\ file[t].st = "claim" /\ file[t].agent = a
      <3>1. /\ proc'[a].pc = "idle"
            /\ \A u \in Tasks : held'[u] = IF u = t THEN held[u] \cup {a} ELSE held[u]
        BY <1>1, <2>3, ReturnTrueEffect
      <3> QED
        BY <1>1, <1>3, <2>3, <3>1, QuietStep DEF ClaimRead, Owns
    <2>4. CASE ReturnFalse(a)
      BY <1>1, <1>3, <2>4, QuietStep, ReturnEffect DEF ClaimRead, ReturnFalse
    <2>5. CASE Goto(a, "exists") /\ UNCHANGED <<held, since>>
      BY <1>1, <1>3, <2>5, QuietStep, GotoTypes DEF ClaimRead, TypeInv
    <2> QED
      BY <1>3, <2>2, <2>3, <2>4, <2>5 DEF ClaimRead
  <1>4. CASE ClaimExists(a)
    <2>1. CASE Goto(a, "create") /\ UNCHANGED <<held, since>>
      BY <1>1, <1>4, <2>1, QuietStep, GotoTypes DEF ClaimExists, TypeInv
    <2>2. CASE ReturnFalse(a)
      BY <1>1, <1>4, <2>2, QuietStep, ReturnEffect DEF ClaimExists, ReturnFalse
    <2> QED
      BY <1>4, <2>1, <2>2 DEF ClaimExists
  <1>5. CASE ClaimUnlink(a)
    BY <1>1, <1>5 DEF ClaimUnlink, CallInv
  <1>6. CASE ClaimCreate(a)
    <2>1. CASE ReturnFalse(a) /\ UNCHANGED file
      BY <1>1, <2>1, QuietStep, ReturnEffect DEF ReturnFalse
    <2>2. CASE /\ file[t].st = "absent"
               /\ file' = [file EXCEPT ![t] = Partial(a)]
               /\ Goto(a, "write")
               /\ UNCHANGED <<held, since>>
      <3>1. file[t].agent = None /\ held'[t] = {}
        BY <1>1, <1>2, <1>6, <2>2
        DEF ClaimCreate, IInv, AuthorInv, HeldIsOwned, Owns, TypeInv, TypeOK
      <3>2. CallInv(a)'
        BY <1>1, <2>2, <3>1, GotoTypes DEF CallInv, OwnFile, Partial, TypeInv, TypeOK
      <3>3. Partial(a).st # "absent" /\ Partial(a).agent # None
        BY ClaimsAssumption DEF Partial
      <3> QED
        BY <1>1, <2>2, <3>1, <3>2, <3>3, OwnStep
    <2> QED
      BY <1>6, <2>1, <2>2 DEF ClaimCreate
  <1>7. CASE ClaimWrite(a)
    <2> DEFINE new == Claim(a, proc[a].now)
    <2>1. OwnFile(a, t) /\ proc[a].now \in Nat
      BY <1>1, <1>2, <1>7 DEF ClaimWrite, CallInv, TypeInv, TypeOK, ProcRecord
    <2>2. file' = [file EXCEPT ![t] = new] /\ ReturnTrue(a, t, proc[a].now)
      BY <1>7, <2>1 DEF ClaimWrite
    <2>3. new.st = "claim" /\ new.agent = a /\ a # None
      BY ClaimsAssumption DEF Claim
    <2>4. held[t] = {}
      BY <2>1 DEF IInv, HeldIsOwned, Owns, OwnFile, TypeInv, TypeOK
    <2>5. proc'[a].pc = "idle" /\ \A u \in Tasks : held'[u] = IF u = t THEN {a} ELSE held[u]
      <3>1. TypeInv /\ ReturnTrue(a, t, proc[a].now)
        BY <1>1, <2>2
      <3>2. /\ proc'[a].pc = "idle"
            /\ \A u \in Tasks : held'[u] = IF u = t THEN held[u] \cup {a} ELSE held[u]
        BY <3>1, ReturnTrueEffect
      <3> QED
        BY <2>4, <3>2
    <2>6. Owns(a, t)'
      BY <1>1, <2>1, <2>2, <2>3 DEF Owns, TypeInv, TypeOK
    <2> HIDE DEF new
    <2> QED
      BY <1>1, <2>1, <2>2, <2>3, <2>5, <2>6, OwnStep DEF CallInv, OwnFile
  <1>8. CASE ClaimWriteFails(a)
    <2>1. OwnFile(a, t) /\ held[t] = {}
      BY <1>1, <1>2, <1>8
      DEF ClaimWriteFails, CallInv, IInv, HeldIsOwned, Owns, OwnFile, TypeInv, TypeOK
    <2>2. Absent.st = "absent" /\ Absent.agent = None
      BY DEF Absent
    <2>3. proc'[a].pc = "idle" /\ held' = held /\ file' = [file EXCEPT ![t] = Absent]
      BY <1>1, <1>8, ReturnEffect DEF ClaimWriteFails, ReturnFalse
    <2> QED
      BY <1>1, <2>1, <2>2, <2>3, OwnStep DEF CallInv, OwnFile
  <1>9. CASE Replace(a)
    <2> DEFINE new == proc[a].seen
    <2>1. Owns(a, t) /\ new.st = "claim" /\ new.agent = a /\ a # None
      BY <1>1, <1>2, <1>9, ClaimsAssumption DEF Replace, CallInv
    <2>2. proc'[a].pc = "idle" /\ held' = held /\ file' = [file EXCEPT ![t] = new]
      BY <1>1, <1>9, ReturnEffect DEF Replace
    <2>3. Owns(a, t)'
      BY <1>1, <2>1, <2>2 DEF Owns, TypeInv, TypeOK
    <2>4. \A b \in held'[t] : b = a
      BY <2>1, <2>2 DEF IInv, HeldIsOwned, Owns, TypeInv, TypeOK
    <2> HIDE DEF new
    <2> QED
      BY <1>1, <2>1, <2>2, <2>3, <2>4, OwnStep DEF CallInv, Owns
  <1>10. CASE ReleaseUnlink(a)
    <2>1. Owns(a, t) /\ held[t] = {}
      BY <1>1, <1>2, <1>10
      DEF ReleaseUnlink, CallInv, IInv, HeldIsOwned, Owns, TypeInv, TypeOK
    <2>2. Absent.st = "absent" /\ Absent.agent = None
      BY DEF Absent
    <2>3. proc'[a].pc = "idle" /\ held' = held /\ file' = [file EXCEPT ![t] = Absent]
      BY <1>1, <1>10, ReturnEffect DEF ReleaseUnlink
    <2> QED
      BY <1>1, <2>1, <2>2, <2>3, OwnStep DEF CallInv, Owns
  <1> QED
    BY <1>3, <1>4, <1>5, <1>6, <1>7, <1>8, <1>9, <1>10 DEF Step

LEMMA CallExcl ==
  ASSUME IInv, NEW a \in Agents, NEW t \in Tasks, Call(a, t)
  PROVE  IInv'
  <1>1. TypeInv /\ TypeInv' /\ CallInv(a)
    BY CallTypes DEF IInv
  <1>2. \A b \in Agents \ {a} : proc'[b] = proc[b]
    BY <1>1 DEF Call, ClaimStart, Heartbeat, MarkClaimDone, ReleaseClaim, StartReplace,
       TypeInv, TypeOK
  <1>3. UNCHANGED file
    BY DEF Call, ClaimStart, Heartbeat, MarkClaimDone, ReleaseClaim
  <1>4. CASE ClaimStart(a, t)
    <2>1. proc'[a].pc = "read" /\ held' = held
      BY <1>1, <1>4 DEF ClaimStart, TypeInv, TypeOK, Idle
    <2> QED
      BY <1>1, <1>2, <1>3, <2>1, QuietStep
  <1>5. CASE ~ClaimStart(a, t)
    <2>1. \A u \in Tasks : held'[u] \subseteq held[u]
      <3>1. CASE held' = held
        BY <3>1
      <3>2. CASE held' = [held EXCEPT ![t] = @ \ {a}]
        BY <1>1, <3>2 DEF TypeInv, TypeOK
      <3> QED
        BY <1>5, <3>1, <3>2 DEF Call, Heartbeat, MarkClaimDone, ReleaseClaim, Forget
    <2>2. ASSUME NEW b \in Agents PROVE CallInv(b)'
      <3>1. CASE b # a
        BY <1>1, <1>2, <1>3, <2>1, <3>1 DEF IInv, CallInv, OwnFile, Owns, TypeInv, TypeOK
      <3>2. CASE Heartbeat(a, t) \/ MarkClaimDone(a, t)
        <4>1. /\ proc'[a].pc = "replace" /\ proc'[a].task = t
              /\ proc'[a].seen.st = file[t].st /\ proc'[a].seen.agent = file[t].agent
          <5>1. file[t] \in FileRecord
            BY <1>1 DEF TypeInv, TypeOK
          <5>2. PICK record :
                  /\ StartReplace(a, t, record)
                  /\ record.st = file[t].st /\ record.agent = file[t].agent
            <6>1. CASE Heartbeat(a, t)
              BY <5>1, <6>1 DEF Heartbeat, FileRecord
            <6>2. CASE MarkClaimDone(a, t)
              <7> DEFINE r == [file[t] EXCEPT !.done = TRUE, !.hb = clock]
              <7>1. r.st = file[t].st /\ r.agent = file[t].agent
                BY <5>1 DEF FileRecord
              <7>2. StartReplace(a, t, r)
                BY <6>2 DEF MarkClaimDone
              <7> QED
                BY <7>1, <7>2
            <6> QED
              BY <3>2, <6>1, <6>2
          <5> QED
            BY <1>1, <5>2 DEF StartReplace, TypeInv, TypeOK, Idle
        <4> QED
          BY <1>3, <3>1, <3>2, <4>1 DEF Heartbeat, MarkClaimDone, CallInv, Owns
      <3>3. CASE ReleaseClaim(a, t)
        <4>1. proc'[a].pc = "release" /\ proc'[a].task = t /\ a \notin held'[t]
          BY <1>1, <3>3 DEF ReleaseClaim, Forget, TypeInv, TypeOK, Idle
        <4> QED
          BY <1>3, <3>1, <3>3, <4>1 DEF ReleaseClaim, CallInv, Owns
      <3> QED
        BY <1>5, <3>1, <3>2, <3>3 DEF Call
    <2>3. AuthorInv' /\ HeldIsOwned'
      BY <1>1, <1>3, <2>1 DEF IInv, AuthorInv, HeldIsOwned, Owns, TypeInv, TypeOK
    <2> QED
      BY <1>1, <2>2, <2>3 DEF IInv
  <1> QED
    BY <1>4, <1>5

LEMMA NextExcl == IInv /\ NoneStale /\ [Next]_vars => IInv'
  <1> SUFFICES ASSUME IInv, NoneStale, [Next]_vars PROVE IInv'
    OBVIOUS
  <1>1. TypeInv /\ TypeInv'
    BY NextTypes DEF IInv
  <1>2. CASE UNCHANGED <<file, proc, held>>
    BY <1>1, <1>2 DEF IInv, CallInv, OwnFile, Owns, AuthorInv, HeldIsOwned
  <1>3. ASSUME NEW a \in Agents, Step(a) PROVE IInv'
    <2>1. proc[a].task \in Tasks
      BY <1>1, <1>3 DEF TypeInv, Step, ClaimRead, ClaimExists, ClaimUnlink, ClaimCreate,
         ClaimWrite, ClaimWriteFails, Replace, ReleaseUnlink
    <2> QED
      BY <1>3, <2>1, StepExcl
  <1>4. ASSUME NEW a \in Agents, Crash(a) PROVE IInv'
    <2>1. proc'[a].pc = "idle"
      BY <1>1, <1>4, ReturnEffect DEF Crash
    <2>2. UNCHANGED file /\ \A b \in Agents \ {a} : proc'[b] = proc[b]
      BY <1>1, <1>4 DEF Crash, Return, TypeInv, TypeOK
    <2>3. \A t \in Tasks : \A b \in held'[t] : b \in held[t]
      BY <1>1, <1>4 DEF Crash, TypeInv, TypeOK
    <2> QED
      BY <1>1, <2>1, <2>2, <2>3, QuietStep
  <1> QED
    BY <1>2, <1>3, <1>4, CallExcl DEF Next, Tick, vars

LEMMA InitExcl == Init => IInv
  <1> SUFFICES ASSUME Init PROVE IInv
    OBVIOUS
  <1>1. TypeInv
    BY InitTypeOK DEF Init, Idle, TypeInv
  <1> QED
    BY <1>1 DEF Init, Idle, Absent, IInv, CallInv, AuthorInv, HeldIsOwned

\* As long as no claim goes stale, an agent that was told it holds a task finds
\* its own claim in the file, through every crash, failed write, heartbeat,
\* completion and release of the others (claims.py, claim_task).
THEOREM HeldIsOwnedWhileFresh == Spec /\ []NoneStale => []HeldIsOwned
  <1>1. IInv => HeldIsOwned
    BY DEF IInv
  <1> QED
    BY <1>1, InitExcl, NextExcl, PTL DEF Spec

\* As long as no claim goes stale, no task is ever held by two agents: the
\* O_EXCL create is enough when nothing is stolen (claims.py:91-94,
\* docs/fleet.md "Claims").
THEOREM ExclusionWhileFresh == Spec /\ []NoneStale => []MutualExclusion
  <1>1. HeldIsOwned => MutualExclusion
    BY DEF HeldIsOwned, MutualExclusion, Owns
  <1> QED
    BY <1>1, HeldIsOwnedWhileFresh, PTL

----------------------------------------------------------------------------
(* The claims implement the abstract lock, while no claim goes stale.      *)

Owner == [t \in Tasks |-> file[t].agent]

LEMMA OwnerStays ==
  ASSUME \A t \in Tasks : file'[t].agent = file[t].agent
  PROVE  Owner' = Owner
  BY DEF Owner

LEMMA OwnerSet ==
  ASSUME TypeInv, NEW t \in Tasks, NEW new, file' = [file EXCEPT ![t] = new]
  PROVE  Owner' = [Owner EXCEPT ![t] = new.agent]
  BY DEF Owner, TypeInv, TypeOK

LEMMA ConfirmStep ==
  ASSUME NEW a \in Agents, NEW t \in Tasks, NEW stamp,
         Owner[t] = a, Owner' = Owner, ReturnTrue(a, t, stamp)
  PROVE  Lock!Next
  BY DEF ReturnTrue, Lock!Next, Lock!Confirm, Owner

LEMMA FreeStep ==
  ASSUME NEW a \in Agents, NEW t \in Tasks,
         Owner[t] = a, a \notin held[t], Owner' = [Owner EXCEPT ![t] = None], held' = held
  PROVE  Lock!Next
  BY DEF Lock!Next, Lock!Free, Owner

LEMMA StepLock ==
  ASSUME IInv, NoneStale, NEW a \in Agents, NEW t \in Tasks, proc[a].task = t, Step(a)
  PROVE  Lock!Next \/ UNCHANGED <<Owner, held>>
  <1>1. TypeInv /\ CallInv(a) /\ file[t] \in FileRecord /\ Owner[t] = file[t].agent
    BY DEF IInv, TypeInv, TypeOK, Owner
  <1>2. CASE UNCHANGED <<file, held>>
    BY <1>2, OwnerStays
  <1>3. CASE ClaimRead(a)
    <2>1. ~(file[t].st = "claim" /\ IsStale(file[t]))
      BY DEF NoneStale
    <2>2. CASE ReturnTrue(a, t, file[t].hb) /\ file[t].agent = a
      BY <1>1, <1>3, <2>2, OwnerStays, ConfirmStep DEF ClaimRead
    <2> QED
      BY <1>2, <1>3, <2>1, <2>2 DEF ClaimRead, ReturnFalse
  <1>4. CASE ClaimExists(a)
    BY <1>2, <1>4 DEF ClaimExists, ReturnFalse
  <1>5. CASE ClaimUnlink(a)
    BY <1>1, <1>5 DEF ClaimUnlink, CallInv
  <1>6. CASE ClaimCreate(a)
    <2>1. CASE file[t].st = "absent"
      <3>1. file' = [file EXCEPT ![t] = Partial(a)] /\ held' = held
        BY <1>6, <2>1 DEF ClaimCreate
      <3>2. Partial(a).agent = a
        BY DEF Partial
      <3>3. Owner' = [Owner EXCEPT ![t] = a]
        <4> DEFINE new == Partial(a)
        <4>1. TypeInv /\ file' = [file EXCEPT ![t] = new] /\ new.agent = a
          BY <1>1, <3>1, <3>2
        <4> HIDE DEF new
        <4> QED
          BY <4>1, OwnerSet
      <3>4. Owner[t] = None
        BY <1>1, <2>1 DEF IInv, AuthorInv
      <3> QED
        BY <3>1, <3>3, <3>4 DEF Lock!Next, Lock!Take, Owner
    <2> QED
      BY <1>2, <1>6, <2>1 DEF ClaimCreate, ReturnFalse
  <1>7. CASE ClaimWrite(a)
    <2> DEFINE new == Claim(a, proc[a].now)
    <2>1. file' = [file EXCEPT ![t] = new] /\ file[t].agent = a
      BY <1>1, <1>7 DEF ClaimWrite, CallInv, OwnFile
    <2>2. new.agent = a
      BY DEF Claim
    <2>3. \A u \in Tasks : file'[u].agent = file[u].agent
      BY <1>1, <2>1, <2>2 DEF TypeInv, TypeOK
    <2>4. ReturnTrue(a, t, proc[a].now)
      BY <1>7 DEF ClaimWrite
    <2> QED
      BY <1>1, <2>1, <2>3, <2>4, OwnerStays, ConfirmStep
  <1>8. ASSUME OwnFile(a, t) \/ (Owns(a, t) /\ a \notin held[t]),
               file' = [file EXCEPT ![t] = Absent], held' = held
        PROVE  Lock!Next
    <2>1. Owner[t] = a /\ a \notin held[t]
      BY <1>1, <1>8 DEF OwnFile, Owns, IInv, HeldIsOwned
    <2>2. Absent.agent = None
      BY DEF Absent
    <2>3. Owner' = [Owner EXCEPT ![t] = None]
      BY <1>1, <1>8, <2>2, OwnerSet
    <2> QED
      BY <1>8, <2>1, <2>3, FreeStep
  <1>9. CASE ClaimWriteFails(a)
    BY <1>1, <1>8, <1>9 DEF ClaimWriteFails, ReturnFalse, CallInv
  <1>10. CASE Replace(a)
    <2>1. \A u \in Tasks : file'[u].agent = file[u].agent
      BY <1>1, <1>10 DEF Replace, CallInv, Owns, TypeInv, TypeOK
    <2> QED
      BY <1>10, <2>1, OwnerStays DEF Replace
  <1>11. CASE ReleaseUnlink(a)
    BY <1>1, <1>8, <1>11 DEF ReleaseUnlink, CallInv
  <1> QED
    BY <1>3, <1>4, <1>5, <1>6, <1>7, <1>9, <1>10, <1>11 DEF Step

LEMMA NextLock == IInv /\ NoneStale /\ [Next]_vars => [Lock!Next]_(Lock!vars)
  <1> SUFFICES ASSUME IInv, NoneStale, [Next]_vars
               PROVE  Lock!Next \/ UNCHANGED <<Owner, held>>
    BY DEF Lock!vars, Owner
  <1>1. CASE UNCHANGED <<file, held>>
    BY <1>1, OwnerStays
  <1>2. ASSUME NEW a \in Agents, Step(a)
        PROVE  Lock!Next \/ UNCHANGED <<Owner, held>>
    <2>1. proc[a].task \in Tasks
      BY <1>2 DEF IInv, TypeInv, Step, ClaimRead, ClaimExists, ClaimUnlink, ClaimCreate,
         ClaimWrite, ClaimWriteFails, Replace, ReleaseUnlink
    <2> QED
      BY <1>2, <2>1, StepLock
  <1>3. ASSUME NEW a \in Agents, Crash(a) PROVE Lock!Next
    <2>1. Owner' = Owner
      BY <1>3, OwnerStays DEF Crash
    <2> QED
      BY <1>3, <2>1 DEF Crash, Lock!Next, Lock!Die, Owner
  <1>4. ASSUME NEW a \in Agents, NEW t \in Tasks, ReleaseClaim(a, t) PROVE Lock!Next
    <2>1. Owner' = Owner
      BY <1>4, OwnerStays DEF ReleaseClaim
    <2> QED
      BY <1>4, <2>1 DEF ReleaseClaim, Forget, Lock!Next, Lock!Leave, Owner
  <1> QED
    BY <1>1, <1>2, <1>3, <1>4
    DEF Next, vars, Tick, Call, ClaimStart, Heartbeat, MarkClaimDone

\* As long as no claim goes stale, the claim files implement the lock of
\* ClaimLock: a task passes from one agent to another only through nobody,
\* and only its owner is told that it holds it (claims.py, the whole module).
THEOREM ImplementsLock == Spec /\ []NoneStale => LockSpec
  <1>1. Init => Lock!Init
    BY DEF Init, Absent, Lock!Init
  <1> QED
    BY <1>1, InitExcl, NextExcl, NextLock, PTL DEF Spec, LockSpec, Lock!Spec

----------------------------------------------------------------------------
(* A task is never lost, while nothing fails and nobody gives a task back. *)

At(a, pc, t) == proc[a].pc = pc /\ proc[a].task = t

\* What is at t's path: an empty file has a writer, a claim names a holder,
\* and nothing there means that, if t concerns somebody, a stealer is about to
\* create the file anew.
PathInv(t) ==
  /\ file[t].st = "partial" => file[t].agent \in Agents /\ At(file[t].agent, "write", t)
  /\ file[t].st = "claim" => file[t].agent \in held[t]
  /\ /\ file[t].st = "absent"
     /\ held[t] # {} \/ \E a \in Agents : At(a, "write", t)
     => \E a \in Agents : At(a, "create", t)

\* A replace is about to write the claim of a holder, whatever the path holds
\* by now.
ReplaceInv(a) ==
  /\ proc[a].pc # "release"
  /\ proc[a].pc = "replace" =>
       /\ proc[a].seen.st = "claim"
       /\ proc[a].seen.agent = a
       /\ a \in held[proc[a].task]

NamesInv ==
  /\ TypeInv
  /\ \A t \in Tasks : PathInv(t)
  /\ \A a \in Agents : ReplaceInv(a)

\* A step of a on t disturbs no other task, and no other agent's replace.
LEMMA NamesStep ==
  ASSUME NamesInv, TypeInv', NEW a \in Agents, NEW t \in Tasks,
         \A b \in Agents \ {a} : proc'[b] = proc[b],
         proc[a].task = t,
         proc'[a].task = t \/ proc'[a].pc = "idle",
         \A u \in Tasks \ {t} : file'[u] = file[u] /\ held'[u] = held[u],
         held[t] \subseteq held'[t],
         PathInv(t)', ReplaceInv(a)'
  PROVE  NamesInv'
  <1>1. ASSUME NEW u \in Tasks \ {t} PROVE PathInv(u)'
    <2>1. PathInv(u) /\ file'[u] = file[u] /\ held'[u] = held[u]
      BY DEF NamesInv
    <2>2. \A b \in Agents : \A pc \in {"write", "create"} : At(b, pc, u) => At(b, pc, u)'
      BY DEF At
    <2>3. \A b \in Agents : At(b, "write", u)' => At(b, "write", u)
      BY DEF At
    <2> QED
      BY <2>1, <2>2, <2>3 DEF PathInv
  <1>2. ASSUME NEW b \in Agents \ {a} PROVE ReplaceInv(b)'
    <2>1. ReplaceInv(b) /\ proc'[b] = proc[b]
      BY DEF NamesInv
    <2>2. proc[b].pc = "replace" => proc[b].task \in Tasks
      BY DEF NamesInv, TypeInv
    <2> QED
      BY <2>1, <2>2 DEF ReplaceInv
  <1> QED
    BY <1>1, <1>2 DEF NamesInv

\* After a step that leaves the files alone, and tells a at most what the file
\* says, every path is still accounted for.
LEMMA NamesQuietStep ==
  ASSUME NamesInv, TypeInv', NEW a \in Agents, NEW t \in Tasks, UNCHANGED file,
         \A b \in Agents \ {a} : proc'[b] = proc[b],
         proc[a].task = t, proc[a].pc \in {"read", "exists"},
         proc'[a].pc \in {"idle", "exists", "unlink", "create"},
         proc'[a].task = t \/ proc'[a].pc = "idle",
         \/ held' = held
         \/ /\ file[t].st = "claim"
            /\ \A u \in Tasks : held'[u] = IF u = t THEN held[u] \cup {a} ELSE held[u]
  PROVE  NamesInv'
  <1>1. \A b \in Agents : /\ At(b, "create", t) => At(b, "create", t)'
                          /\ At(b, "write", t) <=> At(b, "write", t)'
    BY DEF At
  <1>2. PathInv(t)'
    BY <1>1 DEF NamesInv, PathInv
  <1>3. ReplaceInv(a)'
    BY DEF ReplaceInv
  <1>4. held[t] \subseteq held'[t] /\ \A u \in Tasks \ {t} : held'[u] = held[u]
    OBVIOUS
  <1> QED
    BY <1>2, <1>3, <1>4, NamesStep

LEMMA StepNames ==
  ASSUME ~Faults, NamesInv, NEW a \in Agents, NEW t \in Tasks, proc[a].task = t, Step(a)
  PROVE  NamesInv'
  <1>1. TypeInv /\ TypeInv' /\ (\A b \in Agents \ {a} : proc'[b] = proc[b])
    BY StepTypes, OthersStay DEF NamesInv
  <1>2. file[t] \in FileRecord /\ PathInv(t) /\ ReplaceInv(a) /\ file \in [Tasks -> FileRecord]
    BY <1>1 DEF TypeInv, TypeOK, NamesInv
  <1>3. CASE ClaimRead(a)
    <2>1. CASE ReturnTrue(a, t, file[t].hb) /\ file[t].st = "claim"
      <3>1. /\ proc'[a].pc = "idle"
            /\ \A u \in Tasks : held'[u] = IF u = t THEN held[u] \cup {a} ELSE held[u]
        BY <1>1, <2>1, ReturnTrueEffect
      <3> QED
        BY <1>1, <1>3, <2>1, <3>1, NamesQuietStep DEF ClaimRead
    <2>2. CASE ReturnFalse(a)
      BY <1>1, <1>3, <2>2, NamesQuietStep, ReturnEffect DEF ClaimRead, ReturnFalse
    <2>3. CASE Goto(a, "exists") /\ UNCHANGED <<held, since>>
      BY <1>1, <1>3, <2>3, NamesQuietStep, GotoTypes DEF ClaimRead, TypeInv
    <2>4. CASE Goto(a, "unlink") /\ UNCHANGED <<held, since>>
      BY <1>1, <1>3, <2>4, NamesQuietStep, GotoTypes DEF ClaimRead, TypeInv
    <2> QED
      BY <1>3, <2>1, <2>2, <2>3, <2>4 DEF ClaimRead
  <1>4. CASE ClaimExists(a)
    <2>1. CASE Goto(a, "create") /\ UNCHANGED <<held, since>>
      BY <1>1, <1>4, <2>1, NamesQuietStep, GotoTypes DEF ClaimExists, TypeInv
    <2>2. CASE ReturnFalse(a)
      BY <1>1, <1>4, <2>2, NamesQuietStep, ReturnEffect DEF ClaimExists, ReturnFalse
    <2> QED
      BY <1>4, <2>1, <2>2 DEF ClaimExists
  <1>5. CASE ClaimUnlink(a)
    \* The stealer itself is the one about to create the file anew.
    <2>1. /\ proc'[a].pc = "create" /\ proc'[a].task = t
          /\ file' = [file EXCEPT ![t] = Absent] /\ held' = held
      BY <1>1, <1>5, GotoTypes DEF ClaimUnlink, TypeInv
    <2>2. file'[t].st = "absent" /\ \A u \in Tasks \ {t} : file'[u] = file[u]
      BY <1>2, <2>1 DEF Absent
    <2>3. PathInv(t)' /\ ReplaceInv(a)'
      BY <2>1, <2>2 DEF PathInv, ReplaceInv, At
    <2> QED
      BY <1>1, <2>1, <2>2, <2>3, NamesStep
  <1>6. CASE ClaimCreate(a)
    <2>1. CASE ReturnFalse(a) /\ UNCHANGED file /\ file[t].st # "absent"
      \* Somebody else's file is there: nobody needs a's any more.
      <3>1. proc'[a].pc = "idle" /\ held' = held
        BY <1>1, <2>1, ReturnEffect DEF ReturnFalse
      <3>2. \A b \in Agents : At(b, "write", t) => At(b, "write", t)'
        BY <1>1, <1>6 DEF At, ClaimCreate
      <3>3. PathInv(t)' /\ ReplaceInv(a)'
        BY <1>2, <2>1, <3>1, <3>2 DEF PathInv, ReplaceInv
      <3> QED
        BY <1>1, <2>1, <3>1, <3>3, NamesStep
    <2>2. CASE /\ file' = [file EXCEPT ![t] = Partial(a)]
               /\ Goto(a, "write")
               /\ UNCHANGED <<held, since>>
      <3>1. proc'[a].pc = "write" /\ proc'[a].task = t /\ held' = held
        BY <1>1, <2>2, GotoTypes DEF TypeInv
      <3>2. /\ file'[t].st = "partial" /\ file'[t].agent = a
            /\ \A u \in Tasks \ {t} : file'[u] = file[u]
        BY <1>2, <2>2 DEF Partial
      <3>3. PathInv(t)' /\ ReplaceInv(a)'
        BY <3>1, <3>2 DEF PathInv, ReplaceInv, At
      <3> QED
        BY <1>1, <3>1, <3>2, <3>3, NamesStep
    <2> QED
      BY <1>6, <2>1, <2>2 DEF ClaimCreate
  <1>7. CASE ClaimWrite(a)
    <2>1. TypeInv /\ ReturnTrue(a, t, proc[a].now)
      BY <1>1, <1>7 DEF ClaimWrite
    <2>2. /\ proc'[a].pc = "idle"
          /\ \A u \in Tasks : held'[u] = IF u = t THEN held[u] \cup {a} ELSE held[u]
      BY <2>1, ReturnTrueEffect
    <2>3. \A b \in Agents \ {a} : \A pc \in {"write", "create"} : At(b, pc, t) <=> At(b, pc, t)'
      BY <1>1 DEF At
    <2>4. CASE OwnFile(a, t)
      <3>1. /\ file'[t].st = "claim" /\ file'[t].agent = a
            /\ \A u \in Tasks \ {t} : file'[u] = file[u]
        BY <1>2, <1>7, <2>4 DEF ClaimWrite, Claim
      <3>2. PathInv(t)' /\ ReplaceInv(a)'
        BY <2>2, <3>1 DEF PathInv, ReplaceInv
      <3> QED
        BY <1>1, <2>2, <3>1, <3>2, NamesStep
    <2>5. CASE ~OwnFile(a, t)
      \* a's own file is gone: the write is lost, and whoever removed the file
      \* has left another one or is about to.
      <3>1. file' = file /\ At(a, "write", t)
        BY <1>7, <2>5 DEF ClaimWrite, At
      <3>2. file[t].st = "absent" => \E b \in Agents : At(b, "create", t)
        BY <1>2, <3>1 DEF PathInv
      <3>3. file[t].st = "absent" => \E b \in Agents : At(b, "create", t)'
        <4>1. ~At(a, "create", t)
          BY <3>1 DEF At
        <4> QED
          BY <2>3, <3>2, <4>1
      <3>4. file[t].st = "partial" => file[t].agent \in Agents \ {a}
        BY <1>2, <2>5 DEF OwnFile, PathInv
      <3>5. PathInv(t)'
        BY <1>2, <2>2, <2>3, <3>1, <3>3, <3>4 DEF PathInv
      <3>6. ReplaceInv(a)'
        BY <2>2 DEF ReplaceInv
      <3> QED
        BY <1>1, <2>2, <3>1, <3>5, <3>6, NamesStep
    <2> QED
      BY <2>4, <2>5
  <1>8. CASE Replace(a)
    <2>1. proc'[a].pc = "idle" /\ held' = held
      BY <1>1, <1>8, ReturnEffect DEF Replace
    <2>2. /\ file'[t].st = "claim" /\ file'[t].agent = a /\ a \in held[t]
          /\ \A u \in Tasks \ {t} : file'[u] = file[u]
      BY <1>2, <1>8 DEF Replace, ReplaceInv
    <2>3. PathInv(t)' /\ ReplaceInv(a)'
      BY <2>1, <2>2 DEF PathInv, ReplaceInv
    <2> QED
      BY <1>1, <2>1, <2>2, <2>3, NamesStep
  <1> QED
    BY <1>2, <1>3, <1>4, <1>5, <1>6, <1>7, <1>8
    DEF Step, ClaimWriteFails, ReleaseUnlink, ReplaceInv

LEMMA CallNames ==
  ASSUME "release" \notin Calls, NamesInv, NEW a \in Agents, NEW t \in Tasks, Call(a, t)
  PROVE  NamesInv'
  <1>1. TypeInv /\ TypeInv' /\ file[t] \in FileRecord /\ proc[a].pc = "idle"
    BY CallTypes
    DEF NamesInv, TypeInv, TypeOK, Call, ClaimStart, Heartbeat, MarkClaimDone, ReleaseClaim
  <1>2. (\A b \in Agents \ {a} : proc'[b] = proc[b]) /\ UNCHANGED <<file, held>>
    BY <1>1
    DEF Call, ClaimStart, Heartbeat, MarkClaimDone, ReleaseClaim, StartReplace, TypeInv, TypeOK
  <1>3. \/ proc'[a].pc = "read"
        \/ /\ proc'[a].pc = "replace" /\ proc'[a].task = t /\ Owns(a, t)
           /\ proc'[a].seen.st = "claim" /\ proc'[a].seen.agent = a
    <2>1. CASE ClaimStart(a, t)
      BY <1>1, <2>1 DEF ClaimStart, TypeInv, TypeOK, Idle
    <2>2. ASSUME NEW record, StartReplace(a, t, record)
          PROVE  proc'[a].pc = "replace" /\ proc'[a].task = t /\ proc'[a].seen = record
      BY <1>1, <2>2 DEF StartReplace, TypeInv, TypeOK, Idle
    <2>3. CASE Heartbeat(a, t)
      BY <1>1, <2>2, <2>3 DEF Heartbeat, Owns, FileRecord
    <2>4. CASE MarkClaimDone(a, t)
      <3> DEFINE r == [file[t] EXCEPT !.done = TRUE, !.hb = clock]
      <3>1. r.st = file[t].st /\ r.agent = file[t].agent
        BY <1>1 DEF FileRecord
      <3>2. StartReplace(a, t, r) /\ Owns(a, t)
        BY <2>4 DEF MarkClaimDone
      <3> HIDE DEF r
      <3> QED
        BY <2>2, <3>1, <3>2 DEF Owns
    <2> QED
      BY <2>1, <2>3, <2>4 DEF Call, ReleaseClaim
  <1>4. \A b \in Agents, u \in Tasks, pc \in {"write", "create"} : At(b, pc, u) <=> At(b, pc, u)'
    BY <1>1, <1>2, <1>3 DEF At
  <1>5. \A u \in Tasks : PathInv(u)'
    BY <1>2, <1>4 DEF NamesInv, PathInv
  <1>6. Owns(a, t) => a \in held[t]
    BY DEF NamesInv, PathInv, Owns
  <1>7. \A b \in Agents : ReplaceInv(b)'
    BY <1>2, <1>3, <1>6 DEF NamesInv, ReplaceInv
  <1> QED
    BY <1>1, <1>5, <1>7 DEF NamesInv

LEMMA NextNames ==
  ASSUME ~Faults, "release" \notin Calls
  PROVE  NamesInv /\ [Next]_vars => NamesInv'
  <1> SUFFICES ASSUME NamesInv, [Next]_vars PROVE NamesInv'
    OBVIOUS
  <1>1. TypeInv /\ TypeInv'
    BY NextTypes DEF NamesInv
  <1>2. CASE UNCHANGED <<file, proc, held>>
    BY <1>1, <1>2 DEF NamesInv, PathInv, ReplaceInv, At
  <1>3. ASSUME NEW a \in Agents, Step(a) PROVE NamesInv'
    <2>1. proc[a].task \in Tasks
      BY <1>1, <1>3 DEF TypeInv, Step, ClaimRead, ClaimExists, ClaimUnlink, ClaimCreate,
         ClaimWrite, ClaimWriteFails, Replace, ReleaseUnlink
    <2> QED
      BY <1>3, <2>1, StepNames
  <1> QED
    BY <1>2, <1>3, CallNames DEF Next, Tick, Crash, vars

\* Stealing never loses a task.  With the calls kelix makes (nobody gives a
\* task back) and as long as no process dies and no write fails, then, once
\* every call has returned, each task that somebody was told of has a readable
\* claim and its author knows that it holds the task, however many agents stole
\* it from each other meanwhile (claims.py, claim_task; fleet.py:174-180).
THEOREM StealLosesNoTask ==
  ASSUME ~Faults, "release" \notin Calls
  PROVE  Spec => []ClaimNamesAHolder
  <1>1. Init => NamesInv
    <2> SUFFICES ASSUME Init PROVE NamesInv
      OBVIOUS
    <2>1. TypeInv
      BY InitTypeOK DEF Init, Idle, TypeInv
    <2> QED
      BY <2>1 DEF Init, Idle, Absent, NamesInv, PathInv, ReplaceInv, At
  <1>2. NamesInv => ClaimNamesAHolder
    <2> SUFFICES ASSUME NamesInv, \A a \in Agents : proc[a].pc = "idle", NEW t \in Tasks
                 PROVE  IF held[t] = {} THEN file[t].st = "absent"
                        ELSE file[t].st = "claim" /\ file[t].agent \in held[t]
      BY DEF ClaimNamesAHolder
    <2>1. file[t].st \in {"absent", "partial", "claim"} /\ PathInv(t)
      BY DEF NamesInv, TypeInv, TypeOK, FileRecord
    <2> QED
      BY <2>1 DEF PathInv, At
  <1> QED
    BY <1>1, <1>2, NextNames, PTL DEF Spec

=============================================================================
