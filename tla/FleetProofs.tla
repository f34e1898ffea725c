---------------------------- MODULE FleetProofs ----------------------------
(***************************************************************************)
(* What holds of a fleet for any agents, any backlog, any caps and any     *)
(* number of restarts, with crashes, kill switches and claims that go      *)
(* stale at any point.                                                     *)
(***************************************************************************)
EXTENDS Fleet, TLAPS

----------------------------------------------------------------------------
(* The backlog and the hook's choice.                                      *)

LEMMA BaseFacts ==
  /\ Len(Base) \in Nat
  /\ Tasks = 1..Len(Base)
  /\ \A i \in Tasks : Base[i] \in TaskRecord
  /\ BaseStatus \in [Tasks -> Statuses]
  <1>1. Len(Base) \in Nat /\ Tasks = 1..Len(Base) /\ \A i \in Tasks : Base[i] \in TaskRecord
    BY FleetAssumption DEF Tasks
  <1> QED
    BY <1>1 DEF BaseStatus, Statuses

LEMMA Bounds ==
  /\ Cap \in Nat \ {0} /\ Threshold \in Nat \ {0} /\ MaxRuns \in Nat \ {0}
  /\ 1 \in 1..MaxRuns
  /\ Len(Base) \in Nat /\ Tasks = 1..Len(Base)
  <1>1. Cap \in Nat \ {0} /\ Threshold \in Nat \ {0} /\ MaxRuns \in Nat \ {0}
    BY FleetAssumption
  <1> QED
    BY <1>1, BaseFacts

LEMMA StatusType == BaseStatus \in [Tasks -> Statuses]
  BY BaseFacts

\* Writing statuses into the backlog changes nothing else in it.
LEMMA BacklogFields ==
  ASSUME NEW s \in [Tasks -> Statuses], NEW i \in Tasks
  PROVE  /\ Backlog(s)[i].status = s[i]
         /\ Backlog(s)[i].id = Base[i].id
         /\ Backlog(s)[i].deps = Base[i].deps
  BY BaseFacts DEF Backlog, TaskRecord

\* What select_next returns is one of the tasks it was given and eligible.
LEMMA SelectIsCandidate ==
  ASSUME NEW tasks, NEW S, NEW autonomy, NEW active, NEW i,
         i = SelectFrom(tasks, S, autonomy, active), i # NoTask
  PROVE  i \in S /\ Candidate(tasks[i], DoneIds(tasks, S), autonomy)
  <1>1. i \in Firsts(tasks, S, autonomy, active)
    BY DEF SelectFrom
  <1> QED
    BY <1>1 DEF Firsts, Candidates

\* What the hook picks is not done, and all it depends on is, in the hook's copy.
LEMMA PickIsReady ==
  ASSUME TypeOK, NEW a \in Agents, NEW i \in Tasks, i = Pick(a)
  PROVE  /\ agent[a].view[i] # "done"
         /\ \A d \in Base[i].deps :
              \E j \in Tasks : Base[j].id = d /\ agent[a].view[j] = "done"
  <1> DEFINE s == agent[a].view
             tasks == Backlog(s)
             S == {j \in DOMAIN tasks : tasks[j].id \in AllowedIds(tasks) \ agent[a].tried}
  <1>1. s \in [Tasks -> Statuses] /\ i # NoTask
    BY BaseFacts DEF TypeOK, AgentRecord, NoTask
  <1>2. i = SelectFrom(tasks, S, Autonomy, "")
    BY DEF Pick, HookSelect
  <1>3. i \in S /\ Candidate(tasks[i], DoneIds(tasks, S), Autonomy)
    <2> HIDE DEF s, tasks, S
    <2> QED
      BY <1>1, <1>2, SelectIsCandidate
  <1>4. S \subseteq Tasks
    BY DEF Backlog
  <1>5. tasks[i].status # "done" /\ tasks[i].deps \subseteq DoneIds(tasks, S)
    <2> HIDE DEF s, tasks, S
    <2> QED
      BY <1>3 DEF Candidate
  <1>6. \A d \in DoneIds(tasks, S) : \E j \in Tasks : tasks[j].id = d /\ tasks[j].status = "done"
    <2> HIDE DEF s, tasks, S
    <2> QED
      BY <1>4 DEF DoneIds, IsDone
  <1>7. \A j \in Tasks : /\ tasks[j].status = s[j]
                         /\ tasks[j].id = Base[j].id
                         /\ tasks[j].deps = Base[j].deps
    BY <1>1, BacklogFields
  <1> HIDE DEF s, tasks, S
  <1>8. s[i] # "done" /\ \A d \in Base[i].deps : \E j \in Tasks : Base[j].id = d /\ s[j] = "done"
    BY <1>5, <1>6, <1>7
  <1> QED
    BY <1>8 DEF s

----------------------------------------------------------------------------
(* Types.                                                                  *)

LEMMA FreshType == Fresh \in AgentRecord
  BY BaseFacts, FleetAssumption DEF Fresh, AgentRecord

LEMMA SetAgent ==
  ASSUME TypeOK, NEW a \in Agents, NEW new \in AgentRecord, agent' = [agent EXCEPT ![a] = new]
  PROVE  agent' \in [Agents -> AgentRecord]
  BY DEF TypeOK

\* An agent in its hook has an iteration left, one at work has a task.
TypeInv ==
  /\ TypeOK
  /\ \A a \in Agents : /\ agent[a].pc = "hook" => agent[a].iter < Cap
                       /\ agent[a].pc = "work" => agent[a].task # NoTask

LEMMA EndType ==
  ASSUME TypeOK, NEW a \in Agents, NEW how \in Endings, End(a, how)
  PROVE  agent' \in [Agents -> AgentRecord]
  <1> DEFINE new == [Fresh EXCEPT !.pc = how]
  <1>1. new \in AgentRecord
    BY FreshType DEF AgentRecord
  <1>2. agent' = [agent EXCEPT ![a] = new]
    BY DEF End
  <1> HIDE DEF new
  <1> QED
    BY <1>1, <1>2, SetAgent

LEMMA InitType == Init => TypeOK
  <1> SUFFICES ASSUME Init PROVE TypeOK
    OBVIOUS
  <1>1. claims \in [Tasks -> ClaimRecord]
    BY DEF Init, NoClaim, ClaimRecord
  <1>2. agent \in [Agents -> AgentRecord]
    BY FreshType DEF Init
  <1> QED
    BY <1>1, <1>2, StatusType, Bounds DEF Init, TypeOK

LEMMA TopType ==
  ASSUME TypeOK, NEW a \in Agents, Top(a)
  PROVE  TypeOK'
  <1>1. agent' \in [Agents -> AgentRecord]
    <2>1. CASE End(a, "max_iterations") \/ End(a, "killed")
      BY <2>1, EndType DEF Endings
    <2>2. CASE agent' = [agent EXCEPT ![a].pc = "hook", ![a].view = branch[a]]
      <3> DEFINE new == [agent[a] EXCEPT !.pc = "hook", !.view = branch[a]]
      <3>1. new \in AgentRecord
        <4>1. agent[a] \in AgentRecord /\ branch[a] \in [Tasks -> Statuses]
          BY DEF TypeOK
        <4> QED
          BY <4>1 DEF AgentRecord
      <3>2. agent' = [agent EXCEPT ![a] = new]
        BY <2>2 DEF TypeOK
      <3> HIDE DEF new
      <3> QED
        BY <3>1, <3>2, SetAgent
    <2> QED
      BY <2>1, <2>2 DEF Top
  <1> QED
    BY <1>1 DEF Top, TypeOK, history

LEMMA HookListType ==
  ASSUME TypeOK, NEW a \in Agents, HookList(a)
  PROVE  TypeOK'
  <1> DEFINE i == agent[a].listed + 1
             seen == IF claims[i].done THEN "done" ELSE agent[a].view[i]
             view == [agent[a].view EXCEPT ![i] = seen]
             new == [agent[a] EXCEPT !.listed = i, !.view = view]
  <1>1. i \in 1..Len(Base) /\ agent[a] \in AgentRecord
    BY BaseFacts DEF TypeOK, AgentRecord, HookList
  <1>2. new \in AgentRecord
    <2>1. agent[a].view \in [Tasks -> Statuses]
      BY <1>1 DEF AgentRecord
    <2>2. seen \in Statuses
      BY <1>1, <2>1, Bounds DEF Statuses
    <2>3. view \in [Tasks -> Statuses]
      <3> HIDE DEF seen
      <3> QED
        BY <2>1, <2>2
    <2>4. i \in 0..Len(Base)
      BY <1>1, Bounds
    <2> HIDE DEF view, i
    <2> QED
      BY <1>1, <2>3, <2>4 DEF AgentRecord
  <1>3. agent' = [agent EXCEPT ![a] = new]
    BY <1>1 DEF HookList, TypeOK, AgentRecord
  <1>4. agent' \in [Agents -> AgentRecord]
    <2> HIDE DEF new
    <2> QED
      BY <1>2, <1>3, SetAgent
  <1> QED
    BY <1>4 DEF HookList, TypeOK, history

LEMMA HookMarkType ==
  ASSUME TypeOK, NEW a \in Agents, HookMark(a)
  PROVE  TypeOK'
  <1>1. claims' \in [Tasks -> ClaimRecord]
    <2>1. PICK i \in Unmarked(a) :
            claims' = [claims EXCEPT ![i] = [agent |-> a, done |-> TRUE, stale |-> FALSE]]
      BY DEF HookMark
    <2>2. [agent |-> a, done |-> TRUE, stale |-> FALSE] \in ClaimRecord
      BY DEF ClaimRecord
    <2> QED
      BY <2>1, <2>2 DEF TypeOK
  <1> QED
    BY <1>1 DEF HookMark, TypeOK, history

LEMMA HookClaimType ==
  ASSUME TypeOK, NEW a \in Agents, NEW i \in Tasks, agent[a].iter < Cap, HookClaim(a, i)
  PROVE  agent' \in [Agents -> AgentRecord] /\ claims' \in [Tasks -> ClaimRecord]
  <1> DEFINE new == [Fresh EXCEPT !.pc = "work", !.task = i,
                                  !.iter = agent[a].iter + 1,
                                  !.fails = agent[a].fails]
  <1>1. agent[a].iter + 1 \in 0..Cap /\ agent[a].fails \in 0..(Threshold - 1)
    BY FleetAssumption DEF TypeOK, AgentRecord
  <1>2. new \in AgentRecord
    BY <1>1, FreshType DEF AgentRecord
  <1>3. agent' \in [Agents -> AgentRecord]
    <2>1. agent' = [agent EXCEPT ![a] = new]
      BY DEF HookClaim
    <2> HIDE DEF new
    <2> QED
      BY <1>2, <2>1, SetAgent
  <1>4. claims' \in [Tasks -> ClaimRecord]
    <2> DEFINE claim == [NoClaim EXCEPT !.agent = a]
    <2>1. claim \in ClaimRecord
      BY DEF NoClaim, ClaimRecord
    <2>2. claims' = [claims EXCEPT ![i] = claim] \/ claims' = claims
      BY DEF HookClaim
    <2> HIDE DEF claim
    <2> QED
      BY <2>1, <2>2 DEF TypeOK
  <1> QED
    BY <1>3, <1>4

LEMMA HookTryType ==
  ASSUME TypeInv, NEW a \in Agents, HookTry(a)
  PROVE  TypeOK'
  <1>1. agent' \in [Agents -> AgentRecord] /\ claims' \in [Tasks -> ClaimRecord]
    <2>1. CASE End(a, "drained") /\ UNCHANGED claims
      BY <2>1, EndType DEF Endings, TypeInv, TypeOK
    <2>2. ASSUME NEW i \in Tasks, HookClaim(a, i)
          PROVE  agent' \in [Agents -> AgentRecord] /\ claims' \in [Tasks -> ClaimRecord]
      BY <2>2, HookClaimType DEF HookTry, TypeInv
    <2>3. ASSUME NEW i \in Tasks, HookRefused(a, i)
          PROVE  agent' \in [Agents -> AgentRecord] /\ claims' \in [Tasks -> ClaimRecord]
      <3> DEFINE tried == agent[a].tried \cup {Base[i].id}
                 new == [agent[a] EXCEPT !.tried = tried]
      <3>1. tried \in SUBSET {Base[j].id : j \in Tasks} /\ agent[a] \in AgentRecord
        BY DEF TypeInv, TypeOK, AgentRecord
      <3>2. new \in AgentRecord
        <4> HIDE DEF tried
        <4> QED
          BY <3>1 DEF AgentRecord
      <3>3. agent' = [agent EXCEPT ![a] = new]
        BY <2>3 DEF HookRefused, TypeInv, TypeOK
      <3> HIDE DEF new
      <3> QED
        BY <2>3, <3>2, <3>3, SetAgent DEF HookRefused, TypeInv, TypeOK
    <2> QED
      BY <2>1, <2>2, <2>3 DEF HookTry
  <1> QED
    BY <1>1 DEF HookTry, TypeInv, TypeOK, history

\* What an iteration's outcome makes of the agent's loop.
LEMMA AfterWorkType ==
  ASSUME TypeOK, NEW a \in Agents, NEW o \in Outcomes, AfterWork(a, o)
  PROVE  agent' \in [Agents -> AgentRecord]
  <1> DEFINE count == IF o.ok /\ o.green THEN 0 ELSE agent[a].fails + 1
             new == [agent[a] EXCEPT !.pc = "top", !.fails = count, !.task = NoTask]
  <1>1. CASE End(a, "completed") \/ End(a, "circuit_breaker")
    BY <1>1, EndType DEF Endings
  <1>2. CASE /\ ~Tripped(count)
             /\ agent' = [agent EXCEPT ![a].pc = "top", ![a].fails = count, ![a].task = NoTask]
    <2>1. agent[a] \in AgentRecord
      BY DEF TypeOK
    <2>2. count \in 0..(Threshold - 1)
      BY <1>2, <2>1, FleetAssumption DEF AgentRecord, Tripped
    <2>3. agent' = [agent EXCEPT ![a] = new]
      BY <1>2 DEF TypeOK
    <2>4. new \in AgentRecord
      <3> HIDE DEF count
      <3> QED
        BY <2>1, <2>2 DEF AgentRecord
    <2> HIDE DEF new
    <2> QED
      BY <2>3, <2>4, SetAgent
  <1> QED
    BY <1>1, <1>2 DEF AfterWork

LEMMA WorkType ==
  ASSUME TypeInv, NEW a \in Agents, Work(a)
  PROVE  TypeOK'
  <1> DEFINE i == agent[a].task
  <1>1. i \in Tasks
    BY DEF TypeInv, TypeOK, AgentRecord, Work
  <1>2. PICK o \in Outcomes :
          /\ branch' = [branch EXCEPT ![a][i] = IF o.status = "same" THEN @ ELSE o.status]
          /\ doneBy' = IF o.status = "done" THEN [doneBy EXCEPT ![i] = @ \cup {a}] ELSE doneBy
          /\ AfterWork(a, o)
    BY DEF Work
  <1>3. agent' \in [Agents -> AgentRecord]
    BY <1>2, AfterWorkType DEF TypeInv
  <1>4. branch' \in [Agents -> [Tasks -> Statuses]]
    <2> DEFINE status == IF o.status = "same" THEN branch[a][i] ELSE o.status
    <2>1. o.status \in {"same", "done", "blocked"}
      BY DEF Outcomes
    <2>2. branch[a] \in [Tasks -> Statuses]
      BY DEF TypeInv, TypeOK
    <2>3. status \in Statuses
      BY <1>1, <2>1, <2>2 DEF Statuses
    <2>4. branch' = [branch EXCEPT ![a][i] = status]
      BY <1>1, <1>2, <2>2 DEF TypeInv, TypeOK
    <2> HIDE DEF status
    <2> QED
      BY <1>1, <2>2, <2>3, <2>4 DEF TypeInv, TypeOK
  <1>5. doneBy' \in [Tasks -> SUBSET Agents]
    BY <1>1, <1>2 DEF TypeInv, TypeOK
  <1> QED
    BY <1>3, <1>4, <1>5 DEF Work, TypeInv, TypeOK

----------------------------------------------------------------------------
(* What each step does to the agents, and to whom.                         *)

LEMMA EndEffect ==
  ASSUME TypeOK, NEW a \in Agents, NEW how, End(a, how)
  PROVE  agent'[a].pc = how /\ agent'[a].view = BaseStatus
  BY DEF End, Fresh, TypeOK

LEMMA TopEffect ==
  ASSUME TypeOK, NEW a \in Agents, Top(a)
  PROVE  \/ agent'[a].pc \in Endings /\ agent'[a].view = BaseStatus
         \/ /\ agent'[a].pc = "hook" /\ agent'[a].view = branch[a]
            /\ agent'[a].iter < Cap
  <1>1. CASE End(a, "max_iterations") \/ End(a, "killed")
    BY <1>1, EndEffect DEF Endings
  <1>2. CASE /\ agent[a].iter # Cap
             /\ agent' = [agent EXCEPT ![a].pc = "hook", ![a].view = branch[a]]
    <2>1. agent[a] \in AgentRecord
      BY DEF TypeOK
    <2>2. agent[a].iter < Cap
      BY <1>2, <2>1, Bounds DEF AgentRecord
    <2> QED
      BY <1>2, <2>1, <2>2 DEF TypeOK, AgentRecord
  <1> QED
    BY <1>1, <1>2 DEF Top

LEMMA HookListEffect ==
  ASSUME TypeOK, NEW a \in Agents, HookList(a)
  PROVE  /\ agent'[a].pc = agent[a].pc /\ agent'[a].iter = agent[a].iter
         /\ \A i \in Tasks : \/ agent'[a].view[i] = agent[a].view[i]
                             \/ agent'[a].view[i] = "done" /\ claims[i].done
  <1>1. agent[a] \in AgentRecord
    BY DEF TypeOK
  <1> QED
    BY <1>1 DEF HookList, TypeOK, AgentRecord

LEMMA HookClaimEffect ==
  ASSUME TypeOK, NEW a \in Agents, NEW i \in Tasks, HookClaim(a, i)
  PROVE  agent'[a].pc = "work" /\ agent'[a].task = i /\ agent'[a].view = BaseStatus
  BY DEF HookClaim, Fresh, TypeOK

LEMMA HookRefusedEffect ==
  ASSUME TypeOK, NEW a \in Agents, NEW i \in Tasks, HookRefused(a, i)
  PROVE  /\ agent'[a].pc = agent[a].pc /\ agent'[a].iter = agent[a].iter
         /\ agent'[a].view = agent[a].view
  <1>1. agent[a] \in AgentRecord
    BY DEF TypeOK
  <1> QED
    BY <1>1 DEF HookRefused, TypeOK, AgentRecord

LEMMA WorkEffect ==
  ASSUME TypeOK, NEW a \in Agents, Work(a)
  PROVE  /\ agent'[a].pc \in Endings \cup {"top"}
         /\ agent'[a].view \in {BaseStatus, agent[a].view}
  <1>1. agent[a] \in AgentRecord
    BY DEF TypeOK
  <1>2. PICK o \in Outcomes : AfterWork(a, o)
    BY DEF Work
  <1>3. CASE End(a, "completed") \/ End(a, "circuit_breaker")
    BY <1>3, EndEffect DEF Endings
  <1>4. ASSUME NEW n,
               agent' = [agent EXCEPT ![a].pc = "top", ![a].fails = n, ![a].task = NoTask]
        PROVE  agent'[a].pc = "top" /\ agent'[a].view = agent[a].view
    BY <1>1, <1>4 DEF TypeOK, AgentRecord
  <1> QED
    BY <1>2, <1>3, <1>4 DEF AfterWork

\* An agent's step touches no other agent.
LEMMA OthersStay ==
  ASSUME TypeOK, NEW a \in Agents, Loop(a) \/ Crash(a)
  PROVE  \A b \in Agents \ {a} : agent'[b] = agent[b] /\ branch'[b] = branch[b]
  <1>1. CASE Top(a)
    BY <1>1 DEF Top, End, TypeOK
  <1>2. CASE HookList(a) \/ HookMark(a)
    BY <1>2 DEF HookList, HookMark, TypeOK
  <1>3. CASE HookTry(a)
    BY <1>3 DEF HookTry, HookClaim, HookRefused, End, TypeOK
  <1>4. CASE Work(a)
    BY <1>4 DEF Work, AfterWork, End, TypeOK
  <1>5. CASE Crash(a)
    BY <1>5 DEF Crash, End, TypeOK
  <1> QED
    BY <1>1, <1>2, <1>3, <1>4, <1>5 DEF Loop

LEMMA NextType == TypeInv /\ [Next]_vars => TypeInv'
  <1> SUFFICES ASSUME TypeInv, [Next]_vars PROVE TypeInv'
    OBVIOUS
  <1>1. TypeOK'
    <2>1. ASSUME NEW a \in Agents, Loop(a) PROVE TypeOK'
      BY <2>1, TopType, HookListType, HookMarkType, HookTryType, WorkType DEF Loop, TypeInv
    <2>2. ASSUME NEW a \in Agents, Crash(a) PROVE TypeOK'
      BY <2>2, EndType DEF Crash, Endings, TypeInv, TypeOK, history
    <2>3. ASSUME NEW i \in Tasks, Expire(i) PROVE TypeOK'
      BY <2>3 DEF Expire, TypeInv, TypeOK, ClaimRecord
    <2>4. CASE Stop
      BY <2>4 DEF Stop, TypeInv, TypeOK, history
    <2>5. CASE Restart
      <3>1. runs' \in 1..MaxRuns
        BY <2>5, Bounds DEF Restart, TypeInv, TypeOK
      <3>2. agent' \in [Agents -> AgentRecord] /\ branch' \in [Agents -> [Tasks -> Statuses]]
        BY <2>5, FreshType, StatusType DEF Restart
      <3> QED
        BY <2>5, <3>1, <3>2 DEF Restart, TypeInv, TypeOK, history
    <2> QED
      BY <2>1, <2>2, <2>3, <2>4, <2>5 DEF Next, TypeInv, TypeOK, vars, history
  <1>2. ASSUME NEW b \in Agents
        PROVE  /\ agent'[b].pc = "hook" => agent'[b].iter < Cap
               /\ agent'[b].pc = "work" => agent'[b].task # NoTask
    <2>1. CASE agent'[b] = agent[b]
      BY <2>1 DEF TypeInv
    <2>2. CASE agent'[b].pc \in Endings \cup {"top"}
      BY <2>2 DEF Endings
    <2>3. CASE Loop(b)
      <3>1. CASE Top(b)
        BY <3>1, TopEffect DEF TypeInv, Endings
      <3>2. CASE HookList(b)
        BY <3>2, HookListEffect DEF HookList, TypeInv
      <3>3. ASSUME NEW i \in Tasks, HookClaim(b, i) PROVE agent'[b].pc = "work" /\ agent'[b].task # NoTask
        BY <3>3, HookClaimEffect, Bounds DEF TypeInv, NoTask
      <3>4. ASSUME HookTry(b), NEW i \in Tasks, HookRefused(b, i)
            PROVE  agent'[b].pc = "hook" /\ agent'[b].iter < Cap
        BY <3>4, HookRefusedEffect DEF HookTry, TypeInv
      <3>5. CASE End(b, "drained")
        BY <2>2, <3>5, EndEffect DEF Endings, TypeInv
      <3>6. CASE Work(b)
        BY <2>2, <3>6, WorkEffect DEF TypeInv
      <3> QED
        BY <2>1, <2>3, <3>1, <3>2, <3>3, <3>4, <3>5, <3>6 DEF Loop, HookTry, HookMark
    <2>4. CASE Crash(b) \/ Restart
      BY <2>2, <2>4, EndEffect DEF Crash, Restart, Fresh, Endings, TypeInv
    <2>5. ASSUME NEW a \in Agents, a # b, Loop(a) \/ Crash(a) PROVE agent'[b] = agent[b]
      BY <2>5, OthersStay DEF TypeInv
    <2> QED
      BY <2>1, <2>3, <2>4, <2>5 DEF Next, Expire, Stop, vars
  <1> QED
    BY <1>1, <1>2 DEF TypeInv

\* The fleet's state has its types in every reachable state, in particular no
\* agent counts more iterations than its cap or more failures than the breaker
\* allows (loop.py:555, 709).
THEOREM TypeCorrect == Spec => []TypeOK
  <1>1. Init => TypeInv
    BY InitType DEF Init, Fresh, TypeInv
  <1>2. TypeInv => TypeOK
    BY DEF TypeInv
  <1> QED
    BY <1>1, <1>2, NextType, PTL DEF Spec

----------------------------------------------------------------------------
(* What every reachable state of a fleet satisfies.                        *)

BaseDone(i) == Base[i].status = "done"

\* A done line in a branch is the work of its agent, or was there before.
BranchInv ==
  \A a \in Agents, i \in Tasks : branch[a][i] = "done" => BaseDone(i) \/ a \in doneBy[i]

\* What the hook's copy says is done was done by its agent or, on the word of a
\* claim of somebody else, by another.
ViewInv ==
  \A a \in Agents, i \in Tasks :
    agent[a].view[i] = "done" =>
      BaseDone(i) \/ a \in doneBy[i] \/ (doneBy[i] # {} /\ claims[i].agent # a)

\* Nobody touches what was done before the fleet was started.
BaseInv ==
  \A i \in Tasks : BaseDone(i) =>
    /\ claims[i].agent = None
    /\ \A a \in Agents : branch[a][i] = "done" /\ agent[a].view[i] = "done" /\ ~Working(a, i)

\* A claim that never went stale names the only agent that works on its task or
\* ever finished it.
ClaimInv ==
  \A i \in Tasks \ lapsed :
    /\ ~claims[i].stale
    /\ \A a \in Agents : Working(a, i) \/ a \in doneBy[i] => claims[i].agent = a

IInv ==
  /\ TypeInv /\ BranchInv /\ ViewInv /\ BaseInv /\ ClaimInv
  /\ DoneClaimOwned /\ DepsFinished

LEMMA InitInv == Init => IInv
  <1> SUFFICES ASSUME Init PROVE IInv
    OBVIOUS
  <1>1. TypeInv
    BY InitType DEF Init, Fresh, TypeInv
  <1>2. \A a \in Agents : /\ agent[a].pc = "top"
                          /\ \A i \in Tasks : agent[a].view[i] = Base[i].status
    BY DEF Init, Fresh, BaseStatus
  <1>3. \A a \in Agents, i \in Tasks : branch[a][i] = Base[i].status
    BY DEF Init, BaseStatus
  <1> QED
    BY <1>1, <1>2, <1>3
    DEF Init, IInv, BranchInv, ViewInv, BaseInv, ClaimInv, DoneClaimOwned, DepsFinished,
        BaseDone, Working, NoClaim

\* A step that changes no claim, branch or history and makes nobody work on a
\* task or believe it done keeps everything.
LEMMA QuietStep ==
  ASSUME IInv, TypeInv', UNCHANGED <<claims, branch, doneBy, lapsed>>,
         \A a \in Agents, i \in Tasks :
           /\ Working(a, i)' => Working(a, i)
           /\ agent'[a].view[i] \in {agent[a].view[i], branch[a][i], Base[i].status}
  PROVE  IInv'
  <1>1. ViewInv'
    BY DEF IInv, ViewInv, BranchInv, BaseDone
  <1>2. BranchInv' /\ ClaimInv' /\ DoneClaimOwned' /\ DepsFinished'
    BY DEF IInv, BranchInv, ClaimInv, DoneClaimOwned, DepsFinished
  <1>3. BaseInv'
    BY DEF IInv, BaseInv, BaseDone
  <1> QED
    BY <1>1, <1>2, <1>3 DEF IInv

\* The same, for a step of one agent's loop.
LEMMA QuietAgent ==
  ASSUME IInv, TypeInv', NEW a \in Agents, Loop(a) \/ Crash(a),
         UNCHANGED <<claims, branch, doneBy, lapsed>>,
         agent'[a].pc # "work",
         \/ agent'[a].view = BaseStatus
         \/ agent'[a].view = branch[a]
         \/ agent'[a].view = agent[a].view
  PROVE  IInv'
  <1>1. \A b \in Agents \ {a} : agent'[b] = agent[b]
    BY OthersStay DEF IInv, TypeInv
  <1>2. \A b \in Agents, i \in Tasks : Working(b, i)' => Working(b, i)
    BY <1>1 DEF Working
  <1>3. \A b \in Agents, i \in Tasks :
          agent'[b].view[i] \in {agent[b].view[i], branch[b][i], Base[i].status}
    BY <1>1 DEF BaseStatus
  <1> QED
    BY <1>2, <1>3, QuietStep

LEMMA TopInv ==
  ASSUME IInv, TypeInv', NEW a \in Agents, Top(a)
  PROVE  IInv'
  <1>1. UNCHANGED <<claims, branch, doneBy, lapsed>>
    BY DEF Top, history
  <1> QED
    BY <1>1, TopEffect, QuietAgent DEF Loop, IInv, TypeInv, Endings

LEMMA HookListInv ==
  ASSUME IInv, TypeInv', NEW a \in Agents, HookList(a)
  PROVE  IInv'
  <1>1. UNCHANGED <<claims, branch, doneBy, lapsed>>
    BY DEF HookList, history
  <1>2. \A b \in Agents \ {a} : agent'[b] = agent[b]
    BY OthersStay DEF IInv, TypeInv, Loop
  <1>3. /\ agent'[a].pc = agent[a].pc /\ agent[a].pc = "hook"
        /\ \A i \in Tasks : \/ agent'[a].view[i] = agent[a].view[i]
                            \/ agent'[a].view[i] = "done" /\ claims[i].done
    BY HookListEffect DEF IInv, TypeInv, HookList
  <1>4. \A b \in Agents, i \in Tasks : Working(b, i)' => Working(b, i)
    BY <1>2, <1>3 DEF Working
  <1>5. ViewInv'
    <2> SUFFICES ASSUME NEW b \in Agents, NEW i \in Tasks, agent'[b].view[i] = "done"
                 PROVE  BaseDone(i) \/ b \in doneBy[i] \/ (doneBy[i] # {} /\ claims[i].agent # b)
      BY <1>1 DEF ViewInv, BaseDone
    <2>1. CASE agent'[b].view[i] = agent[b].view[i]
      BY <2>1 DEF IInv, ViewInv
    <2>2. CASE claims[i].done
      BY <2>2 DEF IInv, DoneClaimOwned
    <2> QED
      BY <1>2, <1>3, <2>1, <2>2
  <1>6. BaseInv'
    BY <1>1, <1>2, <1>3, <1>4 DEF IInv, BaseInv, BaseDone
  <1>7. BranchInv' /\ ClaimInv' /\ DoneClaimOwned' /\ DepsFinished'
    BY <1>1, <1>4 DEF IInv, BranchInv, ClaimInv, DoneClaimOwned, DepsFinished, BaseDone
  <1> QED
    BY <1>5, <1>6, <1>7 DEF IInv

\* Only finished work is flagged.
LEMMA UnmarkedIsDone ==
  ASSUME IInv, NEW a \in Agents, NEW i \in Unmarked(a)
  PROVE  i \in Tasks /\ claims[i].agent = a /\ a \in doneBy[i]
  BY FleetAssumption DEF Unmarked, IInv, ViewInv, BaseInv

LEMMA HookMarkInv ==
  ASSUME IInv, TypeInv', NEW a \in Agents, HookMark(a)
  PROVE  IInv'
  <1>1. UNCHANGED <<branch, agent, doneBy, lapsed>>
    BY DEF HookMark, history
  <1>2. PICK i \in Unmarked(a) :
          claims' = [claims EXCEPT ![i] = [agent |-> a, done |-> TRUE, stale |-> FALSE]]
    BY DEF HookMark
  <1>3. i \in Tasks /\ claims[i].agent = a /\ a \in doneBy[i]
    BY UnmarkedIsDone
  <1>4. /\ \A j \in Tasks : claims'[j].agent = claims[j].agent
        /\ \A j \in Tasks \ {i} : claims'[j] = claims[j]
        /\ ~claims'[i].stale
    BY <1>2, <1>3 DEF IInv, TypeInv, TypeOK
  <1>5. DoneClaimOwned'
    BY <1>1, <1>3, <1>4 DEF IInv, DoneClaimOwned
  <1>6. ClaimInv'
    BY <1>1, <1>4 DEF IInv, ClaimInv, Working
  <1>7. ViewInv' /\ BaseInv' /\ BranchInv' /\ DepsFinished'
    BY <1>1, <1>4 DEF IInv, ViewInv, BaseInv, BranchInv, DepsFinished, BaseDone, Working
  <1> QED
    BY <1>5, <1>6, <1>7 DEF IInv

LEMMA HookClaimInv ==
  ASSUME IInv, TypeInv', NEW a \in Agents, HookTry(a),
         NEW i \in Tasks, i = Pick(a), HookClaim(a, i)
  PROVE  IInv'
  <1>1. UNCHANGED <<branch, doneBy, lapsed>>
    BY DEF HookTry, history
  <1>2. \A b \in Agents \ {a} : agent'[b] = agent[b]
    BY OthersStay DEF IInv, TypeInv, Loop
  <1>3. agent'[a].pc = "work" /\ agent'[a].task = i /\ agent'[a].view = BaseStatus
    BY HookClaimEffect DEF IInv, TypeInv
  <1>4. /\ claims'[i].agent = a
        /\ \A j \in Tasks \ {i} : claims'[j] = claims[j]
        /\ \/ Free(i) /\ ~claims'[i].done /\ ~claims'[i].stale
           \/ claims[i].agent = a /\ claims'[i] = claims[i]
    BY DEF HookClaim, NoClaim, IInv, TypeInv, TypeOK
  <1>5. /\ agent[a].view[i] # "done"
        /\ \A d \in Base[i].deps : \E j \in Tasks : Base[j].id = d /\ agent[a].view[j] = "done"
    BY PickIsReady DEF IInv, TypeInv
  <1>6. /\ \A b \in Agents, j \in Tasks :
             Working(b, j)' => Working(b, j) \/ (b = a /\ j = i)
    BY <1>2, <1>3 DEF Working
  <1>7. ~BaseDone(i)
    BY <1>5 DEF IInv, BaseInv
  <1>8. ClaimInv'
    <2> SUFFICES ASSUME NEW j \in Tasks \ lapsed
                 PROVE  /\ ~claims'[j].stale
                        /\ \A b \in Agents :
                             Working(b, j)' \/ b \in doneBy[j] => claims'[j].agent = b
      BY <1>1 DEF ClaimInv
    <2>1. CASE j # i
      BY <1>4, <1>6, <2>1 DEF IInv, ClaimInv
    <2>2. CASE j = i
      <3>1. \A b \in Agents : Working(b, i) \/ b \in doneBy[i] => claims[i].agent = b
        BY <2>2 DEF IInv, ClaimInv
      <3>2. claims[i].agent \in {a, None} /\ ~claims'[i].stale
        BY <1>4, <2>2 DEF Free, IInv, ClaimInv
      <3> QED
        BY <1>4, <1>6, <2>2, <3>1, <3>2, FleetAssumption
    <2> QED
      BY <2>1, <2>2
  <1>9. DoneClaimOwned'
    BY <1>1, <1>4 DEF IInv, DoneClaimOwned
  <1>10. DepsFinished'
    <2>1. ASSUME NEW j \in Tasks, Base[j].id \in Base[i].deps
          PROVE  BaseDone(j) \/ doneBy[j] # {}
      <3>1. agent[a].view[j] = "done"
        BY <1>5, <2>1, FleetAssumption DEF Tasks
      <3> QED
        BY <3>1 DEF IInv, ViewInv
    <2> QED
      BY <1>1, <1>6, <2>1 DEF IInv, DepsFinished, BaseDone
  <1>11. ViewInv'
    <2> SUFFICES ASSUME NEW b \in Agents, NEW j \in Tasks, agent'[b].view[j] = "done"
                 PROVE  BaseDone(j) \/ b \in doneBy[j] \/ (doneBy[j] # {} /\ claims'[j].agent # b)
      BY <1>1 DEF ViewInv, BaseDone
    <2>1. CASE b = a
      BY <1>3, <2>1 DEF BaseStatus, BaseDone
    <2>2. CASE b # a
      BY <1>2, <1>4, <2>2 DEF IInv, ViewInv
    <2> QED
      BY <2>1, <2>2
  <1>12. BaseInv'
    <2> SUFFICES ASSUME NEW j \in Tasks, BaseDone(j)
                 PROVE  /\ claims'[j].agent = None
                        /\ \A b \in Agents : /\ branch[b][j] = "done"
                                             /\ agent'[b].view[j] = "done"
                                             /\ ~Working(b, j)'
      BY <1>1 DEF BaseInv, BaseDone
    <2>1. j # i /\ claims'[j].agent = None /\ \A b \in Agents : branch[b][j] = "done" /\ ~Working(b, j)'
      BY <1>4, <1>6, <1>7 DEF IInv, BaseInv
    <2>2. \A b \in Agents : agent'[b].view[j] = "done"
      BY <1>2, <1>3 DEF IInv, BaseInv, BaseStatus, BaseDone
    <2> QED
      BY <2>1, <2>2
  <1> QED
    BY <1>1, <1>8, <1>9, <1>10, <1>11, <1>12 DEF IInv, BranchInv

LEMMA HookTryInv ==
  ASSUME IInv, TypeInv', NEW a \in Agents, HookTry(a)
  PROVE  IInv'
  <1>1. UNCHANGED <<branch, doneBy, lapsed>>
    BY DEF HookTry, history
  <1>2. CASE End(a, "drained") /\ UNCHANGED claims
    BY <1>1, <1>2, EndEffect, QuietAgent DEF Loop, IInv, TypeInv
  <1>3. ASSUME NEW i \in Tasks, HookRefused(a, i) PROVE IInv'
    <2>1. agent'[a].pc = "hook" /\ agent'[a].view = agent[a].view /\ UNCHANGED claims
      BY <1>3, HookRefusedEffect DEF HookTry, HookRefused, IInv, TypeInv
    <2> QED
      BY <1>1, <2>1, QuietAgent DEF Loop
  <1> QED
    BY <1>2, <1>3, HookClaimInv DEF HookTry

LEMMA WorkInv ==
  ASSUME IInv, TypeInv', NEW a \in Agents, Work(a)
  PROVE  IInv'
  <1> DEFINE i == agent[a].task
  <1>1. i \in Tasks /\ Working(a, i)
    BY DEF IInv, TypeInv, TypeOK, AgentRecord, Work, Working
  <1>2. UNCHANGED <<claims, lapsed>>
    BY DEF Work
  <1>3. \A b \in Agents \ {a} : agent'[b] = agent[b] /\ branch'[b] = branch[b]
    BY OthersStay DEF IInv, TypeInv, Loop
  <1>4. agent'[a].pc # "work" /\ agent'[a].view \in {BaseStatus, agent[a].view}
    BY WorkEffect DEF IInv, TypeInv, Endings
  <1>5. PICK o \in Outcomes :
          /\ branch' = [branch EXCEPT ![a][i] = IF o.status = "same" THEN @ ELSE o.status]
          /\ doneBy' = IF o.status = "done" THEN [doneBy EXCEPT ![i] = @ \cup {a}] ELSE doneBy
    BY DEF Work
  <1>6. /\ \A j \in Tasks : doneBy[j] \subseteq doneBy'[j]
        /\ \A j \in Tasks, b \in Agents : b \in doneBy'[j] => b \in doneBy[j] \/ (b = a /\ j = i)
        /\ \A j \in Tasks \ {i} : branch'[a][j] = branch[a][j]
        /\ branch'[a][i] = "done" => branch[a][i] = "done" \/ a \in doneBy'[i]
    BY <1>1, <1>5 DEF IInv, TypeInv, TypeOK
  <1>7. \A b \in Agents, j \in Tasks : Working(b, j)' => Working(b, j)
    BY <1>3, <1>4 DEF Working
  <1> HIDE DEF i
  <1>8. BranchInv'
    BY <1>1, <1>3, <1>6 DEF IInv, BranchInv, BaseDone
  <1>9. ViewInv'
    <2> SUFFICES ASSUME NEW b \in Agents, NEW j \in Tasks, agent'[b].view[j] = "done"
                 PROVE  BaseDone(j) \/ b \in doneBy'[j] \/ (doneBy'[j] # {} /\ claims[j].agent # b)
      BY <1>2 DEF ViewInv, BaseDone
    <2>1. agent[b].view[j] = "done" \/ BaseDone(j)
      BY <1>3, <1>4 DEF BaseStatus, BaseDone
    <2> QED
      BY <1>6, <2>1 DEF IInv, ViewInv
  <1>10. BaseInv'
    <2> SUFFICES ASSUME NEW j \in Tasks, BaseDone(j)
                 PROVE  /\ claims[j].agent = None
                        /\ \A b \in Agents : /\ branch'[b][j] = "done"
                                             /\ agent'[b].view[j] = "done"
                                             /\ ~Working(b, j)'
      BY <1>2 DEF BaseInv, BaseDone
    <2>1. j # i
      BY <1>1 DEF IInv, BaseInv
    <2> QED
      BY <1>3, <1>4, <1>6, <1>7, <2>1 DEF IInv, BaseInv, BaseStatus, BaseDone
  <1>11. ClaimInv'
    BY <1>1, <1>2, <1>6, <1>7 DEF IInv, ClaimInv, TypeInv, TypeOK
  <1>12. DoneClaimOwned' /\ DepsFinished'
    BY <1>2, <1>6, <1>7 DEF IInv, DoneClaimOwned, DepsFinished
  <1> QED
    BY <1>8, <1>9, <1>10, <1>11, <1>12 DEF IInv

LEMMA ExpireInv ==
  ASSUME IInv, TypeInv', NEW i \in Tasks, Expire(i)
  PROVE  IInv'
  <1>1. UNCHANGED <<branch, agent, doneBy>> /\ lapsed' = lapsed \cup {i}
    BY DEF Expire
  <1>2. /\ \A j \in Tasks : claims'[j].agent = claims[j].agent /\ claims'[j].done = claims[j].done
        /\ \A j \in Tasks \ {i} : claims'[j] = claims[j]
    BY DEF Expire, IInv, TypeInv, TypeOK, ClaimRecord
  <1>3. ClaimInv' /\ DoneClaimOwned'
    BY <1>1, <1>2 DEF IInv, ClaimInv, DoneClaimOwned, Working
  <1>4. ViewInv' /\ BaseInv' /\ BranchInv' /\ DepsFinished'
    BY <1>1, <1>2 DEF IInv, ViewInv, BaseInv, BranchInv, DepsFinished, BaseDone, Working
  <1> QED
    BY <1>3, <1>4 DEF IInv

LEMMA RestartInv ==
  ASSUME IInv, TypeInv', Restart
  PROVE  IInv'
  <1>1. UNCHANGED <<claims, doneBy, lapsed>>
    BY DEF Restart, history
  <1>2. \A a \in Agents, i \in Tasks : /\ ~Working(a, i)'
                                       /\ agent'[a].view[i] = Base[i].status
                                       /\ branch'[a][i] = Base[i].status
    BY DEF Restart, Working, Fresh, BaseStatus
  <1>3. ViewInv' /\ BranchInv' /\ DepsFinished' /\ ClaimInv' /\ DoneClaimOwned'
    BY <1>1, <1>2
    DEF IInv, ViewInv, BranchInv, DepsFinished, ClaimInv, DoneClaimOwned, BaseDone
  <1>4. BaseInv'
    BY <1>1, <1>2 DEF IInv, BaseInv, BaseDone
  <1> QED
    BY <1>3, <1>4 DEF IInv

LEMMA NextInv == IInv /\ [Next]_vars => IInv'
  <1> SUFFICES ASSUME IInv, [Next]_vars PROVE IInv'
    OBVIOUS
  <1>1. TypeInv'
    BY NextType DEF IInv
  <1>2. ASSUME NEW a \in Agents, Loop(a) PROVE IInv'
    BY <1>1, <1>2, TopInv, HookListInv, HookMarkInv, HookTryInv, WorkInv DEF Loop
  <1>3. ASSUME NEW a \in Agents, Crash(a) PROVE IInv'
    <2>1. UNCHANGED <<claims, branch, doneBy, lapsed>>
      BY <1>3 DEF Crash, history
    <2>2. agent'[a].pc # "work" /\ agent'[a].view = BaseStatus
      BY <1>3, EndEffect DEF Crash, IInv, TypeInv
    <2> QED
      BY <1>1, <1>3, <2>1, <2>2, QuietAgent
  <1>4. CASE Stop \/ UNCHANGED vars
    <2>1. UNCHANGED <<claims, branch, agent, doneBy, lapsed>>
      BY <1>4 DEF Stop, vars, history
    <2> QED
      BY <1>1, <2>1, QuietStep DEF Working
  <1> QED
    BY <1>1, <1>2, <1>3, <1>4, ExpireInv, RestartInv DEF Next

----------------------------------------------------------------------------
(* The results.                                                            *)

\* Two agents work the same task at the same time only after its claim went
\* stale, for any number of agents and however their hooks interleave
\* (docs/fleet.md "Claims"; fleet.py, make_claim_hook).
THEOREM DoubleWorkNeedsAStaleClaim == Spec => []NoDoubleWork
  <1>1. IInv => NoDoubleWork
    BY DEF IInv, ClaimInv, NoDoubleWork
  <1> QED
    BY <1>1, InitInv, NextInv, PTL DEF Spec

\* A finished task is worked again by another agent only after its claim went
\* stale, in any later fleet too (fleet.py:167-180).
THEOREM FinishedIsNotRedone == Spec => []NoRedo
  <1>1. ASSUME IInv, NEW a \in Agents, NEW i \in Tasks,
               Working(a, i), doneBy[i] \ {a} # {}, i \notin lapsed
        PROVE  FALSE
    <2>1. PICK b \in doneBy[i] \ {a} : TRUE
      BY <1>1
    <2>2. b \in Agents
      BY <1>1, <2>1 DEF IInv, TypeInv, TypeOK
    <2>3. claims[i].agent = a /\ claims[i].agent = b
      BY <1>1, <2>1, <2>2 DEF IInv, ClaimInv
    <2> QED
      BY <2>1, <2>3
  <1>2. IInv => NoRedo
    BY <1>1 DEF NoRedo
  <1> QED
    BY <1>2, InitInv, NextInv, PTL DEF Spec

\* No agent starts a task before every dependency was finished by someone, even
\* when claims go stale (fleet.py:167-182, backlog.py, select_next).
THEOREM DependenciesComeFirst == Spec => []DepsFinished
  <1>1. IInv => DepsFinished
    BY DEF IInv
  <1> QED
    BY <1>1, InitInv, NextInv, PTL DEF Spec

\* A done-claim always names an agent that finished the task (fleet.py:177-180).
THEOREM DoneClaimsAreEarned == Spec => []DoneClaimOwned
  <1>1. IInv => DoneClaimOwned
    BY DEF IInv
  <1> QED
    BY <1>1, InitInv, NextInv, PTL DEF Spec

LEMMA ClaimDoneStays ==
  ASSUME IInv, [Next]_vars, NEW i \in Tasks, claims[i].done, i \notin lapsed
  PROVE  claims'[i].done
  <1>1. ~Free(i)
    BY FleetAssumption DEF Free, IInv, ClaimInv, DoneClaimOwned, TypeInv, TypeOK
  <1>2. ASSUME NEW a \in Agents, HookMark(a) PROVE claims'[i].done
    BY <1>2 DEF HookMark, Unmarked, IInv, TypeInv, TypeOK
  <1>3. ASSUME NEW a \in Agents, NEW j \in Tasks, HookClaim(a, j) PROVE claims'[i].done
    BY <1>1, <1>3 DEF HookClaim, IInv, TypeInv, TypeOK
  <1>4. ASSUME NEW j \in Tasks, Expire(j) PROVE claims'[i].done
    BY <1>4 DEF Expire, IInv, TypeInv, TypeOK, ClaimRecord
  <1>5. CASE UNCHANGED claims
    BY <1>5
  <1> QED
    BY <1>2, <1>3, <1>4, <1>5
    DEF Next, Loop, Top, HookList, HookTry, HookRefused, Work, Crash, Stop, Restart, vars

\* A done-claim that never went stale stays one, whoever asks for its task with
\* an older view of it (claims.py:78-79).
THEOREM DoneClaimsStay == Spec => DoneClaimStays
  <1>1. IInv /\ [Next]_vars =>
          [\A i \in Tasks : claims[i].done => claims'[i].done \/ i \in lapsed]_vars
    BY ClaimDoneStays
  <1> QED
    BY <1>1, InitInv, NextInv, PTL DEF Spec, DoneClaimStays
=============================================================================
