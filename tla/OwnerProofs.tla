---------------------------- MODULE OwnerProofs ----------------------------
(***************************************************************************)
(* Theorems about OwnerCommands, for any commands, paths and candidates,   *)
(* any cap and any number of edits in a session.                           *)
(***************************************************************************)
EXTENDS OwnerCommands, TLAPS

Places == Commands \cup {Root}

Files == [Paths -> Int]

Positions ==
  {"begun", "interview", "questions", "ask", "asking", "terminal", "record", "recording",
   "draft", "session", "check"} \cup Ended

CmdRec ==
  [kind : Kinds \cup {"none"}, pc : Positions, tty : BOOLEAN, asked : BOOLEAN,
   read : Int \X Int, decisions : Int, base : Files, good : BOOLEAN]

TypeInv ==
  /\ isolation \in {"none", "branch", "worktree"}
  /\ head \in Places
  /\ commits \in [Places -> Files]
  /\ tree \in [Places -> Files]
  /\ cmd \in [Commands -> CmdRec]

\* What the assumption says, in the form in which the steps below use it.
LEMMA Constants ==
  /\ \A c \in Commands : c \in Int /\ c > 0 /\ c # Root /\ c \in Places
  /\ Root \in Places /\ Main \in Places /\ Root \in Int /\ Owner \in Int
  /\ Editable \subseteq Paths /\ Published \subseteq Paths /\ Skills \subseteq Editable
  /\ Editable \cap Published = {} /\ Editable \cap Bookkeeping = {}
  /\ QuestionsFile \subseteq Published /\ QuestionsFile \cap Bookkeeping = {}
  /\ QuestionsFile \subseteq Paths
  /\ Blank \in Files
BY OwnerAssumption
DEF OwnerAssumption, Places, Root, Main, Owner, Editable, Published, QuestionsFile, Blank, Files

LEMMA WriteType ==
  ASSUME NEW files \in Files, NEW P, NEW content \in Int
  PROVE  Write(files, P, content) \in Files
BY DEF Write, Files

LEMMA PlaceType ==
  ASSUME TypeInv, NEW c \in Commands
  PROVE  Workdir(c) \in Places /\ Place(c) \in Places
BY Constants DEF Workdir, Place

LEMMA BranchType ==
  ASSUME TypeInv, NEW t \in Places
  PROVE  BranchOf(t) \in Places
BY DEF TypeInv, BranchOf

LEMMA CheckpointType ==
  ASSUME TypeInv, NEW t \in Places
  PROVE  Added(t) \in Files /\ Checkpointed(t) \in [Places -> Files]
<1>1. Added(t) \in Files
  BY BranchType DEF TypeInv, Added, Files
<1> QED
  BY <1>1, BranchType DEF TypeInv, Checkpointed

\* A command that goes on, or ends.
LEMMA MovedMeans ==
  ASSUME NEW r \in CmdRec, NEW x \in Positions
  PROVE  /\ Moved(r, x) \in CmdRec /\ Moved(r, x).pc = x /\ Moved(r, x).kind = r.kind
         /\ Moved(r, x).asked = r.asked /\ Moved(r, x).decisions = r.decisions
         /\ x \notin Ended => Moved(r, x).base = r.base /\ Moved(r, x).read = r.read
<1>1. CASE x \in Ended
  BY <1>1, Constants DEF CmdRec, Moved
<1>2. CASE x \notin Ended
  BY <1>2 DEF CmdRec, Moved
<1> QED
  BY <1>1, <1>2

LEMMA OneChanges ==
  ASSUME TypeInv, NEW c \in Commands, NEW e \in CmdRec, cmd' = [cmd EXCEPT ![c] = e]
  PROVE  /\ cmd' \in [Commands -> CmdRec]
         /\ cmd'[c] = e
         /\ \A d \in Commands : d # c => cmd'[d] = cmd[d]
BY DEF TypeInv

LEMMA GoMeans ==
  ASSUME TypeInv, NEW c \in Commands, NEW x \in Positions, Go(c, x)
  PROVE  /\ cmd' \in [Commands -> CmdRec]
         /\ \A d \in Commands : d # c => cmd'[d] = cmd[d]
         /\ cmd'[c].pc = x
         /\ cmd'[c].kind = cmd[c].kind /\ cmd'[c].asked = cmd[c].asked
         /\ cmd'[c].decisions = cmd[c].decisions
         /\ x \notin Ended => cmd'[c].base = cmd[c].base /\ cmd'[c].read = cmd[c].read
<1>1. cmd[c] \in CmdRec
  BY DEF TypeInv
<1>2. cmd' = [cmd EXCEPT ![c] = Moved(cmd[c], x)]
  BY DEF Go
<1> QED
  BY <1>1, <1>2, MovedMeans, OneChanges

----------------------------------------------------------------------------
(* What a step may do, for all the properties below.                       *)

\* f has the QUESTIONS.md of some tree or branch.
FromBefore(f) ==
  \E v \in Places : \/ \A p \in QuestionsFile : f[p] = tree[v][p]
                    \/ \A p \in QuestionsFile : f[p] = commits[v][p]

Carries == \A u \in Places : FromBefore(tree'[u]) /\ FromBefore(commits'[u])

RootKept == \A p \in QuestionsFile : tree'[Root][p] = tree[Root][p]

\* What a session may edit is at most dropped from the tree t, as a candidate, and
\* brought from there to the tip of its branch.
Moves(t) ==
  \A u \in Places, p \in Editable :
    /\ \/ tree'[u][p] = tree[u][p]
       \/ u = t /\ p \in Skills /\ tree'[u][p] = 0
    /\ \/ commits'[u][p] = commits[u][p]
       \/ u = BranchOf(t) /\ commits'[u][p] = tree'[t][p]

SessionWrites(c) ==
  \A u \in Places, p \in Editable :
    /\ tree'[u][p] = tree[u][p] \/ (u = Place(c) /\ tree'[u][p] = c)
    /\ commits'[u][p] = commits[u][p] \/ (u = BranchOf(Place(c)) /\ commits'[u][p] = c)

GitType ==
  /\ head \in Places
  /\ commits \in [Places -> Files]
  /\ tree \in [Places -> Files]

\* The step is a running command's own.
Turn(c) ==
  /\ cmd[c].pc \notin Ended
  /\ isolation' = isolation /\ head' = head
  /\ cmd' \in [Commands -> CmdRec]
  /\ \A d \in Commands : d # c => cmd'[d] = cmd[d]
  /\ cmd'[c].kind = cmd[c].kind /\ cmd'[c].pc # "idle"

\* A write in the root.
LEMMA RootWritten ==
  ASSUME TypeInv, NEW P, NEW content \in Int, WriteRoot(P, content)
  PROVE  /\ tree' \in [Places -> Files]
         /\ \A u \in Places : u # Root => tree'[u] = tree[u]
         /\ \A p \in Paths : tree'[Root][p] = IF p \in P THEN content ELSE tree[Root][p]
<1>1. tree[Root] \in Files /\ Root \in Places
  BY Constants DEF TypeInv
<1>2. tree' = [tree EXCEPT ![Root] = Write(tree[Root], P, content)]
  BY DEF WriteRoot
<1>3. Write(tree[Root], P, content) \in Files
  BY <1>1, WriteType
<1>4. \A p \in Paths : Write(tree[Root], P, content)[p] = IF p \in P THEN content ELSE tree[Root][p]
  BY DEF Write
<1> QED
  BY <1>1, <1>2, <1>3, <1>4 DEF TypeInv

\* A write of what only the commands write is quiet.
LEMMA RootWriteIsQuiet ==
  ASSUME TypeInv, NEW P, P \subseteq Published, NEW content \in Int, WriteRoot(P, content),
         head' = head, commits' = commits, NEW t \in Places
  PROVE  GitType' /\ Moves(t)
<1>1. GitType'
  BY RootWritten DEF TypeInv, GitType
<1>2. Moves(t)
  BY RootWritten, Constants DEF TypeInv, Moves
<1> QED
  BY <1>1, <1>2

LEMMA RootWriteCarries ==
  ASSUME TypeInv, NEW P, P \cap QuestionsFile = {}, NEW content \in Int, WriteRoot(P, content),
         commits' = commits
  PROVE  Carries /\ RootKept
<1>1. QuestionsFile \subseteq Paths /\ "answers" \in QuestionsFile
  BY Constants DEF QuestionsFile, Published
<1> QED
  BY <1>1, RootWritten, Constants DEF TypeInv, Carries, FromBefore, RootKept

\* A write of QUESTIONS.md.
LEMMA QuestionsWritten ==
  ASSUME TypeInv, NEW i \in Int, NEW some \in {{}, {"partial"}, {"answers"}},
         WriteQuestions(i, some)
  PROVE  /\ tree' \in [Places -> Files]
         /\ \A u \in Places, p \in Paths : u # Root \/ p \notin QuestionsFile => tree'[u][p] = tree[u][p]
         /\ \A u \in Places : u # Root => tree'[u] = tree[u]
         /\ tree'[Root]["questions"] = i
         /\ tree'[Root]["answers"] = IF some = {"answers"} THEN i ELSE 0
         /\ tree'[Root]["partial"] = IF some = {"partial"} THEN i ELSE 0
<1> DEFINE f == Write(tree[Root], QuestionsFile, 0)
           g == Write(f, {"questions"} \cup some, i)
<1>1. tree[Root] \in Files /\ Root \in Places /\ QuestionsFile \subseteq Paths /\ 0 \in Int
  BY Constants DEF TypeInv
<1>2. f \in Files
  BY <1>1, WriteType
<1>3. \A p \in Paths : f[p] = IF p \in QuestionsFile THEN 0 ELSE tree[Root][p]
  BY DEF Write
<1>4. tree' = [tree EXCEPT ![Root] = g]
  BY DEF WriteQuestions
<1> HIDE DEF f
<1>5. g \in Files
  BY <1>2, WriteType
<1>6. \A p \in Paths : g[p] = IF p \in {"questions"} \cup some THEN i ELSE f[p]
  BY DEF Write
<1> HIDE DEF g
<1>7. /\ tree' \in [Places -> Files] /\ tree'[Root] = g
      /\ \A u \in Places : u # Root => tree'[u] = tree[u]
  BY <1>1, <1>4, <1>5 DEF TypeInv
<1>8. \A p \in Paths : p \notin QuestionsFile => g[p] = tree[Root][p]
  BY <1>3, <1>6 DEF QuestionsFile
<1>9. /\ g["questions"] = i
      /\ g["answers"] = IF some = {"answers"} THEN i ELSE 0
      /\ g["partial"] = IF some = {"partial"} THEN i ELSE 0
  BY <1>1, <1>3, <1>6 DEF QuestionsFile
<1> QED
  BY <1>7, <1>8, <1>9

LEMMA QuestionsWriteIsQuiet ==
  ASSUME TypeInv, NEW i \in Int, NEW some \in {{}, {"partial"}, {"answers"}},
         WriteQuestions(i, some), head' = head, commits' = commits, NEW t \in Places
  PROVE  GitType' /\ Moves(t)
<1>1. GitType'
  BY QuestionsWritten DEF TypeInv, GitType
<1>2. \A p \in Editable : p \in Paths /\ p \notin QuestionsFile
  BY Constants
<1>3. Moves(t)
  BY <1>2, QuestionsWritten DEF Moves
<1> QED
  BY <1>1, <1>3

LEMMA UnchangedIsQuiet ==
  ASSUME TypeInv, head' = head, commits' = commits, tree' = tree, NEW t \in Places
  PROVE  GitType' /\ Moves(t) /\ Carries /\ RootKept
BY DEF TypeInv, GitType, Moves, Carries, FromBefore, RootKept

LEMMA CheckpointIsQuiet ==
  ASSUME TypeInv, NEW t \in Places, head' = head, commits' = Checkpointed(t), tree' = tree
  PROVE  GitType' /\ Moves(t) /\ Carries /\ RootKept
<1>1. GitType'
  BY CheckpointType DEF TypeInv, GitType
<1>2. \A u \in Places : commits'[u] = IF u = BranchOf(t) THEN Added(t) ELSE commits[u]
  BY DEF TypeInv, Checkpointed
<1>3. /\ \A p \in Editable : Added(t)[p] = tree[t][p]
      /\ \A p \in QuestionsFile : Added(t)[p] = tree[t][p]
  BY Constants DEF Added, Published, QuestionsFile
<1>4. Moves(t)
  BY <1>2, <1>3 DEF Moves
<1>5. Carries /\ RootKept
  BY <1>2, <1>3 DEF Carries, FromBefore, RootKept
<1> QED
  BY <1>1, <1>4, <1>5

\* What the steps that neither ask nor answer questions have in common.
Quiet(c) ==
  /\ Turn(c)
  /\ GitType' /\ Moves(Place(c)) /\ Carries /\ RootKept
  /\ answered' = answered
  /\ cmd'[c].asked = cmd[c].asked

LEMMA PlacedInWorkdir ==
  ASSUME TypeInv, NEW c \in Commands, cmd[c].kind # "fleet"
  PROVE  Place(c) = Workdir(c)
BY DEF Place

LEMMA AdapterErrorMeans ==
  ASSUME TypeInv, NEW c \in Commands, cmd[c].pc \notin Ended, AdapterError(c)
  PROVE  Quiet(c) /\ cmd'[c].pc = "error"
<1>1. "error" \in Positions
  BY DEF Positions, Ended
<1> QED
  BY <1>1, GoMeans, UnchangedIsQuiet, PlaceType DEF AdapterError, Quiet, Turn, gitVars

LEMMA DieMeans ==
  ASSUME TypeInv, NEW c \in Commands, Die(c)
  PROVE  Quiet(c) /\ cmd'[c].pc = "dead"
<1>1. "dead" \in Positions
  BY DEF Positions, Ended
<1> QED
  BY <1>1, GoMeans, UnchangedIsQuiet, PlaceType DEF Die, Quiet, Turn, gitVars

LEMMA RebaseMeans ==
  ASSUME TypeInv, NEW c \in Commands, cmd[c].pc \notin Ended, Rebase(c, "session")
  PROVE  /\ Quiet(c) /\ cmd'[c].pc = "session"
         /\ cmd'[c].base = Added(Place(c)) /\ cmd'[c].read = cmd[c].read
         /\ cmd'[c].decisions = cmd[c].decisions
<1> DEFINE t == Place(c)
           b == BranchOf(t)
<1>1. t \in Places /\ b \in Places
  BY PlaceType, BranchType
<1>2. commits' = Checkpointed(t) /\ commits'[b] = Added(t) /\ Added(t) \in Files
  BY <1>1, CheckpointType DEF Rebase, Checkpointed, TypeInv
<1>3. cmd' = [cmd EXCEPT ![c].pc = "session", ![c].base = commits'[b]]
  BY DEF Rebase
<1>4. /\ cmd' \in [Commands -> CmdRec]
      /\ \A d \in Commands : d # c => cmd'[d] = cmd[d]
      /\ cmd'[c].pc = "session" /\ cmd'[c].base = commits'[b]
      /\ cmd'[c].kind = cmd[c].kind /\ cmd'[c].asked = cmd[c].asked
      /\ cmd'[c].read = cmd[c].read /\ cmd'[c].decisions = cmd[c].decisions
  <2> HIDE DEF b
  <2>1. "session" \in Positions
    BY DEF Positions
  <2> QED
    BY <1>2, <1>3, <2>1 DEF TypeInv, CmdRec
<1>5. GitType' /\ Moves(t) /\ Carries /\ RootKept
  BY <1>1, <1>2, CheckpointIsQuiet DEF Rebase
<1> QED
  BY <1>2, <1>4, <1>5 DEF Rebase, Quiet, Turn

LEMMA FoundMeans ==
  ASSUME TypeInv, NEW c \in Commands, NEW x \in Positions, NEW i \in Int, Found(c, x, i)
  PROVE  /\ cmd' \in [Commands -> CmdRec]
         /\ \A d \in Commands : d # c => cmd'[d] = cmd[d]
         /\ cmd'[c].pc = x /\ cmd'[c].decisions = i
         /\ cmd'[c].read = Given
         /\ cmd'[c].kind = cmd[c].kind /\ cmd'[c].asked = cmd[c].asked
<1>1. Given \in Int \X Int
  BY Constants DEF TypeInv, Files, QuestionsFile, Given, InRoot
<1> QED
  BY <1>1 DEF TypeInv, Found, CmdRec

\* What the questions file says decides where a plan goes on.
LEMMA PlanReadsMeans ==
  ASSUME TypeInv, NEW c \in Commands, PlanReads(c)
  PROVE  /\ Quiet(c) /\ cmd[c].kind = "plan" /\ cmd[c].pc = "begun"
         /\ cmd'[c].pc \in {"draft", "terminal", "awaiting_answers", "interview"}
         /\ cmd'[c].pc = "draft" => /\ tree[Root]["answers"] = tree[Root]["questions"]
                                    /\ tree[Root]["answers"] = cmd'[c].decisions
                                    /\ cmd'[c].decisions # 0
         /\ cmd'[c].pc = "terminal" => tree[Root]["answers"] # tree[Root]["questions"]
         /\ cmd'[c].pc = "interview" => tree[Root]["questions"] = 0
         /\ cmd'[c].read = Given
<1>1. cmd[c].kind = "plan" /\ cmd[c].pc = "begun" /\ cmd[c].pc \notin Ended
  BY DEF PlanReads, At, Ended
<1>2. /\ tree[Root]["questions"] \in Int /\ 0 \in Int
      /\ {"draft", "terminal", "awaiting_answers", "interview"} \subseteq Positions
      /\ {"context"} \subseteq Published /\ {"context"} \cap QuestionsFile = {}
  BY Constants DEF TypeInv, Files, Published, Positions, Ended, QuestionsFile
<1>3. isolation' = isolation /\ head' = head /\ commits' = commits /\ answered' = answered
  BY DEF PlanReads
<1>4. CASE /\ IsAnswered
           /\ WriteRoot({"context"}, InRoot("questions"))
           /\ Found(c, "draft", InRoot("questions"))
  BY <1>1, <1>2, <1>3, <1>4, FoundMeans, RootWriteIsQuiet, RootWriteCarries, PlaceType
     DEF Quiet, Turn, IsAnswered, InRoot
<1>5. CASE /\ InRoot("questions") # 0 /\ ~IsAnswered /\ UNCHANGED tree
           /\ Found(c, IF cmd[c].tty THEN "terminal" ELSE "awaiting_answers", InRoot("questions"))
  BY <1>1, <1>2, <1>3, <1>5, FoundMeans, UnchangedIsQuiet, PlaceType
     DEF Quiet, Turn, IsAnswered, InRoot
<1>6. CASE InRoot("questions") = 0 /\ Found(c, "interview", 0) /\ UNCHANGED tree
  BY <1>1, <1>2, <1>3, <1>6, FoundMeans, UnchangedIsQuiet, PlaceType
     DEF Quiet, Turn, IsAnswered, InRoot
<1> QED
  BY <1>4, <1>5, <1>6 DEF PlanReads

LEMMA InterviewEndsMeans ==
  ASSUME TypeInv, NEW c \in Commands, InterviewEnds(c)
  PROVE  /\ Turn(c) /\ GitType' /\ Moves(Place(c)) /\ Carries /\ RootKept
         /\ answered' = answered
         /\ cmd[c].kind = "plan" /\ cmd[c].pc = "questions"
         /\ cmd'[c].pc \in {"error", "terminal", "ask"}
         /\ cmd'[c].asked = TRUE /\ cmd'[c].decisions = c /\ cmd'[c].read = cmd[c].read
<1>1. cmd[c].kind = "plan" /\ cmd[c].pc = "questions" /\ cmd[c].pc \notin Ended
  BY DEF InterviewEnds, At, Ended
<1>2. UNCHANGED <<gitVars, answered>>
  BY DEF InterviewEnds
<1>3. PICK x \in {"error", "terminal", "ask"} :
        cmd' = [cmd EXCEPT ![c].pc = x, ![c].asked = TRUE, ![c].decisions = c]
  <2>1. AfterInterview(c) \in {"error", "terminal", "ask"}
    BY DEF AfterInterview
  <2> QED
    BY <2>1 DEF InterviewEnds
<1>4. /\ cmd' \in [Commands -> CmdRec]
      /\ \A d \in Commands : d # c => cmd'[d] = cmd[d]
      /\ cmd'[c].pc = x /\ cmd'[c].asked = TRUE /\ cmd'[c].decisions = c
      /\ cmd'[c].read = cmd[c].read /\ cmd'[c].kind = cmd[c].kind
  <2> DEFINE e == [[[cmd[c] EXCEPT !.pc = x] EXCEPT !.asked = TRUE] EXCEPT !.decisions = c]
  <2>1. x \in Positions /\ c \in Int
    BY Constants DEF Positions, Ended
  <2>2. /\ e \in CmdRec
        /\ e.pc = x /\ e.asked = TRUE /\ e.decisions = c
        /\ e.read = cmd[c].read /\ e.kind = cmd[c].kind
    BY <2>1 DEF TypeInv, CmdRec
  <2>3. cmd' = [cmd EXCEPT ![c] = e]
    BY <1>3 DEF TypeInv
  <2> HIDE DEF e
  <2> QED
    BY <2>2, <2>3, OneChanges
<1>5. GitType' /\ Moves(Place(c)) /\ Carries /\ RootKept
  BY <1>2, UnchangedIsQuiet, PlaceType DEF gitVars
<1>6. Turn(c)
  BY <1>1, <1>2, <1>4 DEF Turn, gitVars
<1> QED
  BY <1>1, <1>2, <1>3, <1>4, <1>5, <1>6

LEMMA TerminalMeans ==
  ASSUME TypeInv, NEW c \in Commands, Terminal(c)
  PROVE  /\ Turn(c) /\ GitType' /\ Moves(Place(c)) /\ Carries /\ RootKept
         /\ cmd[c].kind = "plan" /\ cmd[c].pc = "terminal" /\ cmd'[c].pc = "record"
         /\ answered' = answered \cup {<<"owner", cmd[c].decisions>>}
         /\ cmd'[c].asked = cmd[c].asked /\ cmd'[c].decisions = cmd[c].decisions
         /\ cmd'[c].read = cmd[c].read
<1>1. /\ cmd[c].kind = "plan" /\ cmd[c].pc = "terminal" /\ cmd[c].pc \notin Ended
      /\ "record" \in Positions /\ "record" \notin Ended
  BY DEF Terminal, At, Ended, Positions
<1>2. /\ cmd[c].decisions \in Int
      /\ {"context"} \subseteq Published /\ {"context"} \cap QuestionsFile = {}
  BY DEF TypeInv, CmdRec, Published, QuestionsFile
<1> QED
  BY <1>1, <1>2, GoMeans, RootWriteIsQuiet, RootWriteCarries, PlaceType DEF Terminal, Turn

\* The three steps that write QUESTIONS.md.
LEMMA CutMeans ==
  ASSUME TypeInv, NEW c \in Commands, Cut(c)
  PROVE  /\ Turn(c) /\ GitType' /\ Moves(Place(c))
         /\ commits' = commits /\ answered' = answered /\ WriteQuestions(0, {})
         /\ cmd[c].kind = "plan"
         /\ \/ cmd[c].pc = "ask" /\ cmd'[c].pc = "asking"
            \/ cmd[c].pc = "record" /\ cmd'[c].pc = "recording"
         /\ cmd'[c].asked = cmd[c].asked /\ cmd'[c].decisions = cmd[c].decisions
         /\ cmd'[c].read = cmd[c].read
<1>1. PICK x \in {"asking", "recording"} :
        /\ Go(c, x) /\ cmd[c].kind = "plan"
        /\ cmd[c].pc = IF x = "asking" THEN "ask" ELSE "record"
  BY DEF Cut, At
<1>2. /\ isolation' = isolation /\ head' = head /\ commits' = commits /\ answered' = answered
      /\ WriteQuestions(0, {}) /\ 0 \in Int
  BY DEF Cut
<1>3. x \in Positions /\ x \notin Ended /\ cmd[c].pc \notin Ended
  BY <1>1 DEF Positions, Ended
<1>4. GitType' /\ Moves(Place(c))
  BY <1>2, QuestionsWriteIsQuiet, PlaceType
<1> QED
  BY <1>1, <1>2, <1>3, <1>4, GoMeans DEF Turn

LEMMA AskedMeans ==
  ASSUME TypeInv, NEW c \in Commands, Asked(c)
  PROVE  /\ Turn(c) /\ GitType' /\ Moves(Place(c)) /\ commits' = commits
         /\ cmd[c].kind = "plan" /\ cmd[c].pc = "asking" /\ cmd'[c].pc = "awaiting_answers"
         /\ cmd'[c].asked = cmd[c].asked
         /\ \E some \in {{}, {"partial"}, {"answers"}} :
              /\ WriteQuestions(c, some)
              /\ answered' = IF some = {"answers"} THEN answered \cup {<<"agent", c>>}
                             ELSE answered
<1>1. /\ cmd[c].kind = "plan" /\ cmd[c].pc = "asking" /\ cmd[c].pc \notin Ended
      /\ "awaiting_answers" \in Positions /\ Go(c, "awaiting_answers")
  BY DEF Asked, At, Ended, Positions
<1>2. isolation' = isolation /\ head' = head /\ commits' = commits
  BY DEF Asked
<1>3. PICK some \in {{}, {"partial"}, {"answers"}} :
        /\ WriteQuestions(c, some)
        /\ answered' = IF some = {"answers"} THEN answered \cup {<<"agent", c>>} ELSE answered
  BY Zenon DEF Asked
<1>4. GitType' /\ Moves(Place(c))
  BY <1>2, <1>3, QuestionsWriteIsQuiet, PlaceType, Constants
<1>5. Turn(c) /\ cmd'[c].pc = "awaiting_answers" /\ cmd'[c].asked = cmd[c].asked
  BY <1>1, <1>2, GoMeans DEF Turn
<1> QED
  BY <1>1, <1>2, <1>3, <1>4, <1>5

LEMMA RecordedMeans ==
  ASSUME TypeInv, NEW c \in Commands, Recorded(c)
  PROVE  /\ Turn(c) /\ GitType' /\ Moves(Place(c)) /\ answered' = answered
         /\ cmd[c].kind = "plan" /\ cmd[c].pc = "recording" /\ cmd'[c].pc = "draft"
         /\ cmd'[c].asked = cmd[c].asked /\ cmd'[c].decisions = cmd[c].decisions
         /\ commits' = commits /\ cmd[c].decisions \in Int
         /\ WriteQuestions(cmd[c].decisions, {"answers"})
<1>1. /\ cmd[c].kind = "plan" /\ cmd[c].pc = "recording" /\ cmd[c].pc \notin Ended
      /\ "draft" \in Positions
  BY DEF Recorded, At, Ended, Positions
<1>2. cmd[c].decisions \in Int
  BY DEF TypeInv, CmdRec
<1>3. WriteQuestions(cmd[c].decisions, {"answers"})
  BY DEF Recorded
<1> QED
  BY <1>1, <1>2, <1>3, GoMeans, QuestionsWriteIsQuiet, PlaceType DEF Recorded, Turn

LEMMA DraftMeans ==
  ASSUME TypeInv, NEW c \in Commands, Draft(c)
  PROVE  /\ Quiet(c) /\ cmd[c].kind = "plan" /\ cmd[c].pc = "check"
         /\ cmd'[c].pc \in {"completed", "validation_failed", "error"}
         /\ cmd'[c].decisions = cmd[c].decisions
         /\ tree' = tree /\ commits' = Checkpointed(Place(c))
         /\ cmd'[c].pc = "completed" =>
              \A p \in Paths : cmd[c].base[p] # Added(Place(c))[p] => p \in Fence("plan")
<1> DEFINE t == Place(c)
           touched == Differing(cmd[c].base, Checkpointed(t)[BranchOf(t)])
<1>1. cmd[c].kind = "plan" /\ cmd[c].pc = "check" /\ cmd[c].pc \notin Ended
  BY DEF Draft, At, Ended
<1>2. t = Workdir(c) /\ t \in Places /\ BranchOf(t) \in Places
  BY <1>1, PlacedInWorkdir, PlaceType, BranchType
<1>3. PICK rules \in BOOLEAN :
        /\ commits' = Checkpointed(t)
        /\ Go(c, IF ~Validates(touched, rules) THEN "validation_failed"
                 ELSE IF cmd[c].good /\ touched # {} THEN "completed" ELSE "error")
  BY <1>2 DEF Draft
<1>4. isolation' = isolation /\ head' = head /\ tree' = tree /\ answered' = answered
  BY DEF Draft
<1>5. {"completed", "validation_failed", "error"} \subseteq Positions
  BY DEF Positions, Ended
<1>6. Checkpointed(t)[BranchOf(t)] = Added(t)
  BY <1>2, CheckpointType DEF Checkpointed, TypeInv
<1>7. PICK x \in {"completed", "validation_failed", "error"} :
        Go(c, x) /\ (x = "completed" => Validates(touched, rules))
  BY <1>3
<1>8. cmd'[c].pc = "completed" => touched \subseteq Fence("plan")
  BY <1>5, <1>7, GoMeans DEF Validates
<1>9. Quiet(c) /\ cmd'[c].pc = x /\ cmd'[c].decisions = cmd[c].decisions
  BY <1>1, <1>2, <1>3, <1>4, <1>5, <1>7, GoMeans, CheckpointIsQuiet DEF Quiet, Turn
<1>10. \A p \in Paths : cmd[c].base[p] # Added(t)[p] => p \in touched
  BY <1>6 DEF Differing
<1> QED
  BY <1>1, <1>3, <1>4, <1>8, <1>9, <1>10

\* Nothing changes in a tree but what only the commands write, and not the questions.
OnlyPublished ==
  \A u \in Places, p \in Paths :
    p \notin Published \ QuestionsFile => tree'[u][p] = tree[u][p]

LEMMA SomePublished ==
  ASSUME TypeInv, NEW U, NEW q \in Published, q \notin QuestionsFile, NEW content \in Int,
         tree' = [u \in DOMAIN tree |-> IF u \in U THEN Write(tree[u], {q}, content) ELSE tree[u]]
  PROVE  /\ tree' \in [Places -> Files]
         /\ OnlyPublished
         /\ \A u \in Places : u \in U => tree'[u][q] = content
<1>1. DOMAIN tree = Places /\ \A u \in Places : tree[u] \in Files
  BY DEF TypeInv
<1>2. \A u \in Places : Write(tree[u], {q}, content) \in Files
  BY <1>1, WriteType
<1>3. tree' \in [Places -> Files]
  BY <1>1, <1>2
<1>4. q \in Paths
  BY Constants
<1> QED
  BY <1>1, <1>3, <1>4 DEF Write, OnlyPublished

LEMMA PublishedIsQuiet ==
  ASSUME TypeInv, NEW t \in Places,
         tree' \in [Places -> Files], head' = head, OnlyPublished,
         commits' = commits \/ commits' = Checkpointed(t)
  PROVE  GitType' /\ Moves(t) /\ Carries /\ RootKept
<1>1. /\ QuestionsFile \subseteq Paths /\ Editable \subseteq Paths
      /\ Editable \cap Published = {} /\ "answers" \in QuestionsFile
  BY Constants DEF QuestionsFile, Published
<1>2. \A u \in Places :
        /\ \A p \in Editable : tree'[u][p] = tree[u][p]
        /\ \A p \in QuestionsFile : tree'[u][p] = tree[u][p]
  BY <1>1 DEF OnlyPublished
<1>3. RootKept
  BY <1>1, <1>2, Constants DEF RootKept
<1>4. CASE commits' = commits
  <2>1. GitType'
    BY <1>4 DEF TypeInv, GitType
  <2>2. Moves(t)
    BY <1>2, <1>4 DEF Moves
  <2>3. Carries
    BY <1>2, <1>4 DEF Carries, FromBefore
  <2> QED
    BY <1>3, <2>1, <2>2, <2>3
<1>5. CASE commits' = Checkpointed(t)
  <2>1. \A u \in Places : commits'[u] = IF u = BranchOf(t) THEN Added(t) ELSE commits[u]
    BY <1>5 DEF TypeInv, Checkpointed
  <2>2. /\ \A p \in Editable : Added(t)[p] = tree[t][p]
        /\ \A p \in QuestionsFile : Added(t)[p] = tree[t][p]
    BY Constants DEF Added, Published, QuestionsFile
  <2>3. GitType'
    BY <1>5, CheckpointType DEF TypeInv, GitType
  <2>4. Moves(t)
    BY <1>2, <2>1, <2>2 DEF Moves
  <2>5. Carries
    BY <1>2, <2>1, <2>2 DEF Carries, FromBefore
  <2> QED
    BY <1>3, <2>3, <2>4, <2>5
<1> QED
  BY <1>4, <1>5

LEMMA PublishMeans ==
  ASSUME TypeInv, NEW c \in Commands, Publish(c)
  PROVE  /\ Quiet(c) /\ cmd[c].kind = "propose" /\ cmd[c].pc = "check"
         /\ cmd'[c].pc \in {"completed", "validation_failed"}
         /\ commits' = Checkpointed(Place(c))
         /\ cmd'[c].pc = "completed" =>
              /\ tree'[Root]["sidecar"] = c
              /\ \A p \in Paths : cmd[c].base[p] # Added(Place(c))[p] => p \in Fence("propose")
              /\ \E p \in Paths : cmd[c].base[p] # Added(Place(c))[p]
<1> DEFINE t == Place(c)
           touched == Differing(cmd[c].base, Checkpointed(t)[BranchOf(t)])
<1>1. cmd[c].kind = "propose" /\ cmd[c].pc = "check" /\ cmd[c].pc \notin Ended
  BY DEF Publish, At, Ended
<1>2. t = Workdir(c) /\ t \in Places /\ BranchOf(t) \in Places
  BY <1>1, PlacedInWorkdir, PlaceType, BranchType
<1>3. /\ commits' = Checkpointed(t)
      /\ IF cmd[c].good /\ touched # {} /\ touched \subseteq Fence("propose")
         THEN /\ Go(c, "completed")
              /\ tree' = [u \in DOMAIN tree |->
                   IF u \in {Root, t} THEN Write(tree[u], {"sidecar"}, c) ELSE tree[u]]
         ELSE Go(c, "validation_failed") /\ UNCHANGED tree
  BY <1>2 DEF Publish
<1>4. isolation' = isolation /\ head' = head /\ answered' = answered
  BY DEF Publish
<1>5. /\ {"completed", "validation_failed"} \subseteq Positions
      /\ "sidecar" \in Published /\ "sidecar" \notin QuestionsFile
      /\ c \in Int /\ Root \in Places
  BY Constants DEF Positions, Ended, Published, QuestionsFile
<1>6. Checkpointed(t)[BranchOf(t)] = Added(t)
  BY <1>2, CheckpointType DEF Checkpointed, TypeInv
<1>7. touched = {p \in Paths : cmd[c].base[p] # Added(t)[p]}
  BY <1>6 DEF Differing
<1> HIDE DEF t, touched
<1>8. CASE cmd[c].good /\ touched # {} /\ touched \subseteq Fence("propose")
  <2>1. /\ Go(c, "completed")
        /\ tree' = [u \in DOMAIN tree |->
             IF u \in {Root, t} THEN Write(tree[u], {"sidecar"}, c) ELSE tree[u]]
    BY <1>3, <1>8
  <2>2. /\ tree' \in [Places -> Files]
        /\ OnlyPublished
        /\ tree'[Root]["sidecar"] = c
    <3>1. PICK U \in SUBSET Places : U = {Root, t}
      BY <1>2, <1>5
    <3>2. tree' = [u \in DOMAIN tree |->
            IF u \in U THEN Write(tree[u], {"sidecar"}, c) ELSE tree[u]]
      BY <2>1, <3>1
    <3>3. tree' \in [Places -> Files] /\ OnlyPublished
      BY <1>5, <3>2, SomePublished
    <3>4. \A u \in Places : u \in U => tree'[u]["sidecar"] = c
      BY <1>5, <3>2, SomePublished
    <3> QED
      BY <1>5, <3>1, <3>3, <3>4
  <2>3. GitType' /\ Moves(t) /\ Carries /\ RootKept
    BY <1>2, <1>3, <1>4, <1>5, <2>2, PublishedIsQuiet
  <2> QED
    BY <1>1, <1>3, <1>4, <1>5, <1>7, <1>8, <2>1, <2>2, <2>3, GoMeans DEF Quiet, Turn, t
<1>9. CASE ~(cmd[c].good /\ touched # {} /\ touched \subseteq Fence("propose"))
  <2>1. Go(c, "validation_failed") /\ UNCHANGED tree
    BY <1>3, <1>9
  <2>2. GitType' /\ Moves(t) /\ Carries /\ RootKept
    BY <1>2, <1>3, <1>4, <2>1, CheckpointIsQuiet
  <2> QED
    BY <1>1, <1>3, <1>4, <1>5, <2>1, <2>2, GoMeans DEF Quiet, Turn, t
<1> QED
  BY <1>8, <1>9

LEMMA DiagnosisMeans ==
  ASSUME TypeInv, NEW c \in Commands, Diagnosis(c)
  PROVE  /\ Quiet(c) /\ cmd[c].kind = "diagnose"
         /\ cmd'[c].pc \in {"completed", "validation_failed", "error"}
<1>1. cmd[c].kind = "diagnose" /\ cmd[c].pc = "check" /\ cmd[c].pc \notin Ended
  BY DEF Diagnosis, At, Ended
<1>2. /\ isolation' = isolation /\ head' = head /\ commits' = commits /\ answered' = answered
      /\ Place(c) \in Places
  BY PlaceType DEF Diagnosis
<1>3. PICK U \in SUBSET Places, x \in {"completed", "validation_failed", "error"} :
        /\ tree' = [u \in DOMAIN tree |->
             IF u \in U THEN Write(tree[u], {"diagnosis"}, c) ELSE tree[u]]
        /\ Go(c, x)
  BY Constants, PlaceType DEF Diagnosis
<1>4. /\ "diagnosis" \in Published /\ "diagnosis" \notin QuestionsFile
      /\ c \in Int /\ x \in Positions
  BY Constants DEF Published, QuestionsFile, Positions, Ended
<1>5. /\ tree' \in [Places -> Files]
      /\ OnlyPublished
  BY <1>3, <1>4, SomePublished
<1>6. GitType' /\ Moves(Place(c)) /\ Carries /\ RootKept
  BY <1>2, <1>4, <1>5, PublishedIsQuiet
<1> QED
  BY <1>1, <1>2, <1>3, <1>4, <1>6, GoMeans DEF Quiet, Turn

LEMMA DistillMeans ==
  ASSUME TypeInv, NEW c \in Commands, Distill(c)
  PROVE  Quiet(c) /\ cmd[c].kind \in {"run", "fleet"} /\ cmd'[c].pc = "session"
<1>1. cmd[c].kind \in {"run", "fleet"} /\ cmd[c].pc \notin Ended
  BY DEF Distill, Distills, Ended
<1>2. CASE Rebase(c, "session")
  BY <1>1, <1>2, RebaseMeans
<1>3. CASE /\ cmd' = [cmd EXCEPT ![c].pc = "session", ![c].base = commits[head]]
           /\ UNCHANGED <<gitVars, answered>>
  <2>1. commits[head] \in Files /\ "session" \in Positions
    BY DEF TypeInv, Positions
  <2>2. /\ cmd' \in [Commands -> CmdRec]
        /\ \A d \in Commands : d # c => cmd'[d] = cmd[d]
        /\ cmd'[c].pc = "session"
        /\ cmd'[c].kind = cmd[c].kind /\ cmd'[c].asked = cmd[c].asked
    BY <1>3, <2>1 DEF TypeInv, CmdRec
  <2> QED
    BY <1>1, <1>3, <2>2, UnchangedIsQuiet, PlaceType DEF Quiet, Turn, gitVars
<1> QED
  BY <1>2, <1>3 DEF Distill

\* Only candidates are dropped.
LEMMA CappedDrops ==
  ASSUME NEW files \in Files
  PROVE  /\ Capped(files) \in Files
         /\ \A p \in Paths : Capped(files)[p] = files[p] \/ (p \in Skills /\ Capped(files)[p] = 0)
<1> DEFINE found == {i \in DOMAIN Candidates : files[Candidates[i]] # 0}
           beyond == {i \in found : Cardinality({j \in found : j < i}) >= Cap}
           dropped == {Candidates[i] : i \in beyond}
<1>1. dropped \subseteq Skills
  BY DEF Skills, ToSet
<1>2. Capped(files) = Write(files, dropped, 0)
  BY DEF Capped
<1> HIDE DEF dropped
<1> QED
  BY <1>1, <1>2, WriteType DEF Write

LEMMA DistilledMeans ==
  ASSUME TypeInv, NEW c \in Commands, Distilled(c)
  PROVE  /\ Quiet(c) /\ cmd[c].kind \in {"run", "fleet"}
         /\ cmd'[c].pc \in {"error", "validation_failed", "completed"}
<1> DEFINE t == Place(c)
           b == BranchOf(t)
           f == Capped(tree[t])
           g == [p \in Paths |-> IF p \in Bookkeeping THEN commits[b][p] ELSE f[p]]
<1>1. /\ cmd[c].kind \in {"run", "fleet"} /\ cmd[c].pc \notin Ended
      /\ isolation' = isolation /\ head' = head /\ answered' = answered
  BY DEF Distilled, Distills, Ended
<1>2. t \in Places /\ b \in Places /\ tree[t] \in Files /\ commits[b] \in Files
  BY PlaceType, BranchType DEF TypeInv
<1>3. f \in Files /\ g \in Files
  <2>1. f \in Files
    BY <1>2, CappedDrops
  <2> QED
    BY <1>2, <2>1 DEF Files
<1>4. {"error", "validation_failed", "completed"} \subseteq Positions
  BY DEF Positions, Ended
<1>5. PICK x \in {"error", "validation_failed", "completed"} :
        /\ Go(c, x)
        /\ \/ commits' = commits /\ tree' = tree
           \/ /\ tree' = [tree EXCEPT ![t] = f]
              /\ commits' = commits \/ commits' = [commits EXCEPT ![b] = g]
  <2>1. [tree EXCEPT ![t] = f][t] = f
    BY <1>2 DEF TypeInv
  <2> HIDE DEF f
  <2>2. \/ Go(c, "error") /\ UNCHANGED <<commits, tree>>
        \/ Go(c, "validation_failed") /\ UNCHANGED <<commits, tree>>
        \/ /\ Go(c, "completed")
           /\ tree' = [tree EXCEPT ![t] = f]
           /\ commits' = commits \/ commits' = [commits EXCEPT ![b] =
                [p \in Paths |-> IF p \in Bookkeeping THEN commits[b][p]
                                 ELSE [tree EXCEPT ![t] = f][t][p]]]
    BY DEF Distilled, f
  <2> QED
    BY <2>1, <2>2
<1>6. CASE commits' = commits /\ tree' = tree
  BY <1>1, <1>2, <1>4, <1>5, <1>6, GoMeans, UnchangedIsQuiet DEF Quiet, Turn
<1>7. CASE /\ tree' = [tree EXCEPT ![t] = f]
           /\ commits' = commits \/ commits' = [commits EXCEPT ![b] = g]
  <2>1. \A p \in Paths : f[p] = tree[t][p] \/ (p \in Skills /\ f[p] = 0)
    BY <1>2, CappedDrops
  <2>2. /\ \A p \in Editable : g[p] = f[p]
        /\ \A p \in QuestionsFile : f[p] = tree[t][p] /\ g[p] = f[p]
        /\ "answers" \in QuestionsFile
    BY <2>1, Constants DEF Published, QuestionsFile
  <2> HIDE DEF f, g
  <2>3. /\ tree' \in [Places -> Files] /\ commits' \in [Places -> Files]
        /\ \A u \in Places : tree'[u] = IF u = t THEN f ELSE tree[u]
        /\ \A u \in Places : commits'[u] = commits[u] \/ (u = b /\ commits'[u] = g)
    BY <1>2, <1>3, <1>7 DEF TypeInv
  <2> HIDE DEF t, b
  <2>4. GitType'
    BY <1>1, <2>3 DEF TypeInv, GitType
  <2>5. Moves(Place(c))
    BY <1>2, <2>1, <2>2, <2>3, Constants DEF Moves, t, b
  <2>6. Carries
    BY <1>2, <2>2, <2>3 DEF Carries, FromBefore
  <2>7. RootKept
    BY <1>2, <2>2, <2>3, Constants DEF RootKept
  <2> QED
    BY <1>1, <1>4, <1>5, <2>4, <2>5, <2>6, <2>7, GoMeans DEF Quiet, Turn
<1> QED
  BY <1>5, <1>6, <1>7

LEMMA SessionMeans ==
  ASSUME TypeInv, NEW c \in Commands, NEW next \in Positions \ {"idle"}, cmd[c].pc \notin Ended,
         Session(c, next)
  PROVE  /\ Turn(c) /\ GitType' /\ SessionWrites(c) /\ Carries /\ RootKept
         /\ answered' = answered
         /\ cmd'[c].pc = next /\ cmd'[c].asked = cmd[c].asked /\ cmd'[c].base = cmd[c].base
         /\ cmd'[c].read = cmd[c].read /\ cmd'[c].decisions = cmd[c].decisions
<1> DEFINE t == Place(c)
           b == BranchOf(t)
<1>1. /\ t \in Places /\ b \in Places /\ Root \in Places
      /\ c \in Int /\ "runs" \in Published /\ "runs" \notin QuestionsFile
      /\ Editable \cap QuestionsFile = {} /\ "answers" \in QuestionsFile
      /\ QuestionsFile \subseteq Paths /\ Editable \subseteq Paths
      /\ Editable \cap Published = {}
  BY PlaceType, BranchType, Constants DEF Published, QuestionsFile
<1>2. PICK E \in SUBSET Editable, commit \in BOOLEAN, good \in BOOLEAN :
        /\ tree' = [[tree EXCEPT ![t] = Write(@, E, c)] EXCEPT ![Root] = Write(@, {"runs"}, c)]
        /\ commits' = IF commit THEN [commits EXCEPT ![b] = Write(@, E, c)] ELSE commits
        /\ cmd' = [cmd EXCEPT ![c].pc = next, ![c].good = good]
        /\ UNCHANGED <<isolation, head, answered>>
  BY DEF Session
<1>3. /\ cmd' \in [Commands -> CmdRec]
      /\ \A d \in Commands : d # c => cmd'[d] = cmd[d]
      /\ cmd'[c].pc = next
      /\ cmd'[c].kind = cmd[c].kind /\ cmd'[c].asked = cmd[c].asked
      /\ cmd'[c].base = cmd[c].base /\ cmd'[c].read = cmd[c].read
      /\ cmd'[c].decisions = cmd[c].decisions
  BY <1>2 DEF TypeInv, CmdRec
<1> HIDE DEF t, b
<1>4. /\ tree' \in [Places -> Files]
      /\ \A u \in Places, p \in Paths :
           p # "runs" => tree'[u][p] = IF u = t /\ p \in E THEN c ELSE tree[u][p]
  <2> DEFINE mid == [tree EXCEPT ![t] = Write(@, E, c)]
  <2>1. /\ mid \in [Places -> Files]
        /\ \A u \in Places, p \in Paths :
             mid[u][p] = IF u = t /\ p \in E THEN c ELSE tree[u][p]
    <3>1. tree[t] \in Files /\ Write(tree[t], E, c) \in Files
      BY <1>1, WriteType DEF TypeInv
    <3> QED
      BY <1>1, <3>1 DEF TypeInv, Write
  <2>2. tree' = [mid EXCEPT ![Root] = Write(mid[Root], {"runs"}, c)]
    BY <1>2
  <2> HIDE DEF mid
  <2>3. mid[Root] \in Files /\ Write(mid[Root], {"runs"}, c) \in Files
    BY <1>1, <2>1, WriteType
  <2> QED
    BY <1>1, <2>1, <2>2, <2>3 DEF Write
<1>5. /\ commits' \in [Places -> Files]
      /\ \A u \in Places, p \in Paths :
           commits'[u][p] = commits[u][p] \/ (u = b /\ p \in E /\ commits'[u][p] = c)
  <2>1. commits[b] \in Files /\ Write(commits[b], E, c) \in Files
    BY <1>1, WriteType DEF TypeInv
  <2>2. CASE commit
    BY <1>1, <1>2, <2>1, <2>2 DEF TypeInv, Write
  <2>3. CASE ~commit
    BY <1>2, <2>3 DEF TypeInv
  <2> QED
    BY <2>2, <2>3
<1>6. Turn(c) /\ GitType'
  BY <1>2, <1>3, <1>4, <1>5 DEF TypeInv, Turn, GitType
<1>7. SessionWrites(c)
  <2>1. \A p \in Editable : p \in Paths /\ p # "runs"
    BY <1>1
  <2> QED
    BY <1>4, <1>5, <2>1 DEF SessionWrites, t, b
<1>8. \A u \in Places, p \in QuestionsFile :
        tree'[u][p] = tree[u][p] /\ commits'[u][p] = commits[u][p]
  <2>1. \A p \in QuestionsFile : p \in Paths /\ p # "runs" /\ p \notin E
    BY <1>1, <1>2
  <2> QED
    BY <1>4, <1>5, <2>1
<1>9. Carries /\ RootKept
  BY <1>1, <1>8 DEF Carries, FromBefore, RootKept
<1> QED
  BY <1>2, <1>3, <1>6, <1>7, <1>9

\* A command that begins has a copy of what is committed at the head.
LEMMA BeginMeans ==
  ASSUME TypeInv, NEW c \in Commands, NEW kind \in Kinds, Begin(c, kind)
  PROVE  /\ GitType' /\ Carries /\ RootKept
         /\ isolation' = isolation /\ answered' = answered
         /\ cmd[c].pc = "idle" /\ (isolation = "worktree" \/ \A d \in Commands : cmd[d].pc \in Ended)
         /\ cmd' \in [Commands -> CmdRec]
         /\ \A d \in Commands : d # c => cmd'[d] = cmd[d]
         /\ cmd'[c].pc = "begun" /\ cmd'[c].kind = kind /\ cmd'[c].asked = FALSE
         /\ head' = IF isolation = "branch" /\ kind # "fleet" THEN c ELSE head
         /\ \A u \in Places :
              /\ tree'[u] = tree[u] \/ (isolation = "worktree" /\ u = c /\ tree'[u] = commits[head])
              /\ commits'[u] = commits[u] \/ (u = c /\ commits'[u] = commits[head])
<1>1. /\ isolation' = isolation /\ answered' = answered
      /\ cmd[c].pc = "idle" /\ (isolation = "worktree" \/ \A d \in Commands : cmd[d].pc \in Ended)
      /\ c \in Places /\ c # Root /\ Root \in Places /\ head \in Places
  BY Constants DEF Begin, TypeInv
<1>2. PICK tty \in BOOLEAN :
        cmd' = [cmd EXCEPT ![c] = Started(kind, "begun", tty)]
  BY DEF Begin
<1>3. /\ cmd' \in [Commands -> CmdRec]
      /\ \A d \in Commands : d # c => cmd'[d] = cmd[d]
      /\ cmd'[c].pc = "begun" /\ cmd'[c].kind = kind /\ cmd'[c].asked = FALSE
  <2> DEFINE e == Started(kind, "begun", tty)
  <2>1. e \in CmdRec /\ e.pc = "begun" /\ e.kind = kind /\ e.asked = FALSE
    <3>1. Blank \in Files /\ "idle" \in Positions /\ "begun" \in Positions
      BY Constants DEF Positions, Ended
    <3> QED
      BY <3>1 DEF CmdRec, Started
  <2>2. cmd' = [cmd EXCEPT ![c] = e]
    BY <1>2
  <2> HIDE DEF e
  <2> QED
    BY <2>1, <2>2, OneChanges
<1>4. /\ head' = IF isolation = "branch" /\ kind # "fleet" THEN c ELSE head
      /\ tree' = tree \/ (isolation = "worktree" /\ tree' = [tree EXCEPT ![c] = commits[head]])
      /\ commits' = commits \/ commits' = [commits EXCEPT ![c] = commits[head]]
  <2>1. CASE kind = "fleet"
    BY <2>1 DEF Begin
  <2>2. CASE kind # "fleet"
    BY <2>2 DEF Begin, Prepare
  <2> QED
    BY <2>1, <2>2
<1>5. /\ tree' \in [Places -> Files] /\ commits' \in [Places -> Files]
      /\ \A u \in Places :
           /\ tree'[u] = tree[u] \/ (isolation = "worktree" /\ u = c /\ tree'[u] = commits[head])
           /\ commits'[u] = commits[u] \/ (u = c /\ commits'[u] = commits[head])
  BY <1>1, <1>4 DEF TypeInv
<1>6. GitType' /\ Carries /\ RootKept
  BY <1>1, <1>4, <1>5 DEF TypeInv, GitType, Carries, FromBefore, RootKept
<1> QED
  BY <1>1, <1>3, <1>4, <1>5, <1>6

LEMMA AnswerMeans ==
  ASSUME TypeInv, Answer
  PROVE  /\ UNCHANGED <<isolation, head, commits, cmd>>
         /\ tree' \in [Places -> Files]
         /\ \A u \in Places, p \in Paths :
              u # Root \/ p \notin QuestionsFile => tree'[u][p] = tree[u][p]
         /\ tree[Root]["questions"] # 0
         /\ tree[Root]["answers"] # tree[Root]["questions"]
         /\ \/ /\ WriteQuestions(tree[Root]["questions"], {"partial"})
               /\ answered' = answered
            \/ /\ WriteQuestions(tree[Root]["questions"], {"answers"})
               /\ answered' = answered \cup {<<"owner", tree[Root]["questions"]>>}
<1>1. tree[Root]["questions"] \in Int
  BY Constants DEF TypeInv, Files, QuestionsFile
<1>2. \/ /\ WriteQuestions(tree[Root]["questions"], {"partial"})
         /\ answered' = answered
      \/ /\ WriteQuestions(tree[Root]["questions"], {"answers"})
         /\ answered' = answered \cup {<<"owner", tree[Root]["questions"]>>}
  BY DEF Answer, InRoot
<1>3. UNCHANGED <<isolation, head, commits, cmd>>
  BY DEF Answer
<1>4. tree[Root]["questions"] # 0 /\ tree[Root]["answers"] # tree[Root]["questions"]
  BY DEF Answer, InRoot, IsAnswered
<1>5. PICK some \in {{}, {"partial"}, {"answers"}} : WriteQuestions(tree[Root]["questions"], some)
  BY <1>2
<1>6. /\ tree' \in [Places -> Files]
      /\ \A u \in Places, p \in Paths :
           u # Root \/ p \notin QuestionsFile => tree'[u][p] = tree[u][p]
  BY <1>1, <1>5, QuestionsWritten
<1> QED
  BY <1>2, <1>3, <1>4, <1>6

\* No session's edit is touched by it.
LEMMA AnswerLeavesEdits ==
  ASSUME TypeInv, Answer
  PROVE  /\ isolation' = isolation /\ head' = head /\ commits' = commits /\ cmd' = cmd
         /\ \A u \in Places, p \in Editable : tree'[u][p] = tree[u][p]
<1>1. \A p \in Editable : p \in Paths /\ p \notin QuestionsFile
  BY Constants
<1> QED
  BY <1>1, AnswerMeans

LEMMA EditMeans ==
  ASSUME TypeInv, Edit("code")
  PROVE  /\ UNCHANGED <<isolation, head, commits>>
         /\ tree' \in [Places -> Files]
         /\ \A u \in Places, p \in Paths :
              tree'[u][p] = IF u = Root /\ p = "code" THEN Owner ELSE tree[u][p]
<1>1. "code" \in Paths /\ Root \in Places /\ Owner \in Int
  BY Constants DEF Editable
<1> QED
  BY <1>1 DEF TypeInv, Files, Edit

LEMMA CheckoutMeans ==
  ASSUME TypeInv, CheckoutMain(QuestionsFile)
  PROVE  /\ UNCHANGED <<isolation, commits>> /\ head # Main /\ head' = Main
         /\ tree' \in [Places -> Files]
         /\ \A u \in Places : u # Root => tree'[u] = tree[u]
         /\ \A p \in Paths : tree'[Root][p] \in {tree[Root][p], commits[Main][p]}
         /\ Carries
         /\ RootKept \/ \A p \in QuestionsFile : tree[Root][p] = commits[head][p]
<1> DEFINE loose == Differing(tree[Root], commits[head])
           moved == Differing(commits[head], commits[Main])
           f == [p \in Paths |-> IF p \in moved THEN commits[Main][p] ELSE tree[Root][p]]
<1>1. /\ Root \in Places /\ Main \in Places /\ head \in Places
      /\ QuestionsFile \subseteq Paths
      /\ tree[Root] \in Files /\ commits[Main] \in Files
  BY Constants DEF TypeInv, Published
<1>2. /\ UNCHANGED <<isolation, commits>> /\ head # Main /\ head' = Main
      /\ loose \cap moved = {}
      /\ QuestionsFile \cap loose = {} \/ QuestionsFile \cap moved = {}
      /\ tree' = [tree EXCEPT ![Root] = f]
  BY DEF CheckoutMain
<1>3. f \in Files
  BY <1>1 DEF Files
<1>4. /\ \A p \in Paths : p \in moved => f[p] = commits[Main][p]
      /\ \A p \in Paths : p \notin moved => f[p] = tree[Root][p] /\ commits[head][p] = commits[Main][p]
      /\ \A p \in Paths : p \notin loose => tree[Root][p] = commits[head][p]
  BY DEF Differing
<1> HIDE DEF loose, moved, f
<1>5. /\ tree' \in [Places -> Files] /\ tree'[Root] = f
      /\ \A u \in Places : u # Root => tree'[u] = tree[u]
  BY <1>1, <1>2, <1>3 DEF TypeInv
<1>6. \A p \in Paths : f[p] \in {tree[Root][p], commits[Main][p]}
  BY <1>4
<1>7. FromBefore(f)
  <2>1. CASE QuestionsFile \cap moved = {}
    BY <1>1, <1>4, <2>1 DEF FromBefore
  <2>2. CASE QuestionsFile \cap loose = {}
    BY <1>1, <1>4, <2>2 DEF FromBefore
  <2> QED
    BY <1>2, <2>1, <2>2
<1>8. Carries
  <2>1. \A u \in Places : FromBefore(commits'[u]) /\ (u # Root => FromBefore(tree'[u]))
    BY <1>2, <1>5 DEF FromBefore
  <2> QED
    BY <1>5, <1>7, <2>1 DEF Carries
<1>9. RootKept \/ \A p \in QuestionsFile : tree[Root][p] = commits[head][p]
  BY <1>1, <1>2, <1>4, <1>5 DEF RootKept
<1> QED
  BY <1>2, <1>5, <1>6, <1>8, <1>9

\* A running command's step that is none of those that the properties are about.
Rest(c) ==
  Quiet(c) /\ (cmd'[c].pc \in {"error", "dead"} \/ cmd[c].kind \in {"diagnose", "run", "fleet"})

Works(c, next) ==
  /\ cmd[c].pc \notin Ended
  /\ Session(c, next)
  /\ \/ next = "questions" /\ cmd[c].kind = "plan" /\ cmd[c].pc = "interview"
     \/ next = "check" /\ (cmd[c].pc = "session" \/ cmd[c].kind = "diagnose")

Rebases(c) ==
  /\ cmd[c].pc \notin Ended
  /\ Rebase(c, "session")
  /\ \/ cmd[c].kind = "plan" /\ cmd[c].pc = "draft"
     \/ cmd[c].kind = "propose" /\ cmd[c].pc = "begun"

LEMMA CommandSteps ==
  ASSUME TypeInv, NEW c \in Commands, Command(c)
  PROVE  \/ \E kind \in Kinds : Begin(c, kind)
         \/ \E next \in {"questions", "check"} : Works(c, next)
         \/ PlanReads(c) \/ InterviewEnds(c) \/ Terminal(c) \/ Cut(c) \/ Asked(c) \/ Recorded(c)
         \/ Rebases(c) \/ Draft(c) \/ Publish(c)
         \/ Rest(c)
<1>1. CASE Plan(c)
  <2>1. CASE At(c, "plan", "draft") /\ Rebase(c, "session")
    BY <2>1 DEF At, Rebases, Ended
  <2>2. CASE At(c, "plan", "session") /\ Session(c, "check")
    BY <2>2 DEF At, Works, Ended
  <2>3. CASE (At(c, "plan", "session") \/ At(c, "plan", "interview")) /\ AdapterError(c)
    BY <2>3, AdapterErrorMeans DEF At, Rest, Ended
  <2>4. CASE At(c, "plan", "interview") /\ Session(c, "questions")
    BY <2>4 DEF At, Works, Ended
  <2> QED
    BY <1>1, <2>1, <2>2, <2>3, <2>4 DEF Plan, Interview
<1>2. CASE Propose(c)
  <2>1. CASE At(c, "propose", "begun") /\ Rebase(c, "session")
    BY <2>1 DEF At, Rebases, Ended
  <2>2. CASE At(c, "propose", "session") /\ Session(c, "check")
    BY <2>2 DEF At, Works, Ended
  <2>3. CASE At(c, "propose", "session") /\ AdapterError(c)
    BY <2>3, AdapterErrorMeans DEF At, Rest, Ended
  <2> QED
    BY <1>2, <2>1, <2>2, <2>3 DEF Propose
<1>3. CASE Diagnose(c)
  <2>1. CASE At(c, "diagnose", "begun") /\ Session(c, "check")
    BY <2>1 DEF At, Works, Ended
  <2>2. CASE At(c, "diagnose", "begun") /\ AdapterError(c)
    BY <2>2, AdapterErrorMeans DEF At, Rest, Ended
  <2>3. CASE Diagnosis(c)
    BY <2>3, DiagnosisMeans DEF Rest
  <2> QED
    BY <1>3, <2>1, <2>2, <2>3 DEF Diagnose
<1>4. CASE Distillation(c)
  <2>1. CASE Distills(c, "session") /\ Session(c, "check")
    BY <2>1 DEF Distills, Works, Ended
  <2>2. CASE Distills(c, "session") /\ AdapterError(c)
    BY <2>2, AdapterErrorMeans DEF Distills, Rest, Ended
  <2>3. CASE Distill(c)
    BY <2>3, DistillMeans DEF Rest
  <2>4. CASE Distilled(c)
    BY <2>4, DistilledMeans DEF Rest
  <2> QED
    BY <1>4, <2>1, <2>2, <2>3, <2>4 DEF Distillation
<1>5. CASE Die(c)
  BY <1>5, DieMeans DEF Rest
<1> QED
  BY <1>1, <1>2, <1>3, <1>4, <1>5 DEF Command

\* A command's step but its beginning leaves the other commands alone.
LEMMA TurnSteps ==
  ASSUME TypeInv, NEW c \in Commands, Command(c), cmd[c].pc # "idle"
  PROVE  Turn(c) /\ GitType'
<1>1. ASSUME NEW kind \in Kinds, Begin(c, kind) PROVE FALSE
  BY <1>1, BeginMeans
<1>2. ASSUME NEW next \in {"questions", "check"}, Works(c, next) PROVE Turn(c) /\ GitType'
  <2>1. next \in Positions \ {"idle"}
    BY DEF Positions
  <2> QED
    BY <1>2, <2>1, SessionMeans DEF Works
<1>3. CASE Rebases(c)
  BY <1>3, RebaseMeans DEF Rebases, Quiet
<1> QED
  BY <1>1, <1>2, <1>3, CommandSteps, PlanReadsMeans, InterviewEndsMeans, TerminalMeans, CutMeans, AskedMeans,
     RecordedMeans, DraftMeans, PublishMeans DEF Quiet, Rest

\* Only a beginning and a session put anything new among what sessions edit.
LEMMA StepsMove ==
  ASSUME TypeInv, NEW c \in Commands, Command(c)
  PROVE  \/ \E kind \in Kinds : Begin(c, kind)
         \/ \E next \in {"questions", "check"} : Works(c, next)
         \/ Moves(Place(c))
<1>1. CASE PlanReads(c)
  BY <1>1, PlanReadsMeans DEF Quiet
<1>2. CASE InterviewEnds(c)
  BY <1>2, InterviewEndsMeans
<1>3. CASE Terminal(c)
  BY <1>3, TerminalMeans
<1>4. CASE Cut(c) \/ Asked(c) \/ Recorded(c)
  BY <1>4, CutMeans, AskedMeans, RecordedMeans
<1>5. CASE Rebases(c)
  BY <1>5, RebaseMeans DEF Rebases, Quiet
<1>6. CASE Draft(c) \/ Publish(c) \/ Rest(c)
  BY <1>6, DraftMeans, PublishMeans DEF Rest, Quiet
<1> QED
  BY <1>1, <1>2, <1>3, <1>4, <1>5, <1>6, CommandSteps

LEMMA InitType == Init => TypeInv
<1> SUFFICES ASSUME Init PROVE TypeInv
  OBVIOUS
<1>1. Blank \in Files /\ Root \in Places /\ Main \in Places /\ Commands \cup {Main} = Places
  BY Constants DEF Places, Root, Main
<1>2. GitType /\ isolation \in {"none", "branch", "worktree"}
  BY <1>1 DEF Init, Clean, GitType, Places
<1>3. NoCommand \in CmdRec
  BY <1>1 DEF NoCommand, Started, CmdRec, Positions, Ended
<1> QED
  BY <1>2, <1>3 DEF Init, TypeInv, GitType

LEMMA OwnerSteps ==
  ASSUME TypeInv, OwnerActs
  PROVE  \/ Answer
         \/ Edit("code") /\ UNCHANGED <<cmd, answered>>
         \/ /\ \A c \in Commands : cmd[c].pc \in Ended \/ Place(c) # Root
            /\ CheckoutMain(QuestionsFile) /\ UNCHANGED <<cmd, answered>>
BY DEF OwnerActs

LEMMA IdleOnlyBegins ==
  ASSUME TypeInv, NEW c \in Commands, Command(c), cmd[c].pc = "idle"
  PROVE  \E kind \in Kinds : Begin(c, kind)
<1>1. cmd[c].pc \in Ended
  BY DEF Ended
<1> QED
  BY <1>1, CommandSteps, PlanReadsMeans, InterviewEndsMeans, TerminalMeans, CutMeans, AskedMeans,
     RecordedMeans, DraftMeans, PublishMeans DEF Quiet, Rest, Works, Rebases, Turn

LEMMA TypeStep == TypeInv /\ [Next]_vars => TypeInv'
<1> SUFFICES ASSUME TypeInv, [Next]_vars PROVE TypeInv'
  OBVIOUS
<1>1. CASE UNCHANGED vars
  BY <1>1 DEF TypeInv, vars, gitVars
<1>2. CASE OwnerActs
  BY <1>2, OwnerSteps, AnswerMeans, EditMeans, CheckoutMeans, Constants DEF TypeInv
<1>3. ASSUME NEW c \in Commands, Command(c) PROVE TypeInv'
  <2>1. ASSUME NEW kind \in Kinds, Begin(c, kind) PROVE TypeInv'
    BY <2>1, BeginMeans DEF TypeInv, GitType
  <2>2. CASE cmd[c].pc # "idle"
    BY <1>3, <2>2, TurnSteps DEF TypeInv, GitType, Turn
  <2>3. CASE cmd[c].pc = "idle"
    BY <1>3, <2>1, <2>3, IdleOnlyBegins
  <2> QED
    BY <2>2, <2>3
<1> QED
  BY <1>1, <1>2, <1>3 DEF Next

----------------------------------------------------------------------------
(* Decisions.  The answers in any tree or branch are to the questions      *)
(* beside them and were given, all of them by the interview's agent or     *)
(* with the owner's; a command has decisions from there on where it took   *)
(* them over.  A command that has yet to overwrite the file began when it  *)
(* had no answers, or, at the terminal, not all of them.                   *)

Genuine(f) ==
  /\ f["answers"] \in {0, f["questions"]} /\ f["partial"] \in {0, f["questions"]}
  /\ f["answers"] # 0 =>
       <<"owner", f["answers"]>> \in answered \/ <<"agent", f["answers"]>> \in answered

AnswerInv == \A u \in Places : Genuine(tree[u]) /\ Genuine(commits[u])

\* Where a plan command's record r stands when given are the answers given.
Settled(r, given) ==
  r.kind = "plan" =>
    /\ r.pc = "begun" => r.asked = FALSE
    /\ r.pc \in {"interview", "questions", "ask", "asking"} => r.read = <<0, 0>>
    /\ r.pc \in {"terminal", "record", "recording"} => r.read[2] = 0
    /\ r.pc \in {"record", "recording"} => <<"owner", r.decisions>> \in given
    /\ r.pc \in {"draft", "session", "check", "completed"} =>
         \/ <<"owner", r.decisions>> \in given
         \/ r.asked = FALSE /\ <<"agent", r.decisions>> \in given

DecidedInv == \A c \in Commands : Settled(cmd[c], answered)

DecisionInv == AnswerInv /\ DecidedInv

LEMMA CarriedAreGenuine ==
  ASSUME AnswerInv, Carries, answered \subseteq answered'
  PROVE  AnswerInv'
<1>1. /\ \A u \in Places : Genuine(tree[u]) /\ Genuine(commits[u])
      /\ \A u \in Places : FromBefore(tree'[u]) /\ FromBefore(commits'[u])
  BY DEF AnswerInv, Carries
<1>2. ASSUME NEW f, FromBefore(f)
      PROVE  /\ f["answers"] \in {0, f["questions"]} /\ f["partial"] \in {0, f["questions"]}
             /\ f["answers"] # 0 =>
                  <<"owner", f["answers"]>> \in answered' \/ <<"agent", f["answers"]>> \in answered'
  <2>1. PICK g : /\ Genuine(g)
                 /\ \A p \in QuestionsFile : f[p] = g[p]
    BY <1>1, <1>2 DEF FromBefore
  <2>2. f["answers"] = g["answers"] /\ f["questions"] = g["questions"] /\ f["partial"] = g["partial"]
    BY <2>1 DEF QuestionsFile
  <2> QED
    BY <2>1, <2>2 DEF Genuine
<1> QED
  BY <1>1, <1>2 DEF AnswerInv, Genuine

\* A write of QUESTIONS.md with answers that were given.
LEMMA WrittenAreGenuine ==
  ASSUME TypeInv, AnswerInv, NEW i \in Int, NEW some \in {{}, {"partial"}, {"answers"}},
         WriteQuestions(i, some), commits' = commits, answered \subseteq answered',
         some = {"answers"} => <<"owner", i>> \in answered' \/ <<"agent", i>> \in answered'
  PROVE  AnswerInv'
<1>1. /\ Root \in Places
      /\ \A u \in Places : u # Root => tree'[u] = tree[u]
      /\ tree'[Root]["questions"] = i
      /\ tree'[Root]["answers"] = IF some = {"answers"} THEN i ELSE 0
      /\ tree'[Root]["partial"] = IF some = {"partial"} THEN i ELSE 0
  BY QuestionsWritten, Constants
<1>2. \A u \in Places : Genuine(tree[u]) /\ Genuine(commits[u])
  BY DEF AnswerInv
<1>3. Genuine(tree[Root])'
  BY <1>1 DEF Genuine
<1>4. ASSUME NEW u \in Places, u # Root PROVE Genuine(tree[u])'
  BY <1>1, <1>2, <1>4 DEF Genuine
<1>5. ASSUME NEW u \in Places PROVE Genuine(commits[u])'
  BY <1>2 DEF Genuine
<1> QED
  BY <1>3, <1>4, <1>5 DEF AnswerInv

LEMMA SettledStays ==
  ASSUME NEW r, NEW a, NEW b, a \subseteq b, Settled(r, a)
  PROVE  Settled(r, b)
BY DEF Settled

\* It is enough to look at the command that takes the step.
LEMMA OneDecides ==
  ASSUME DecidedInv, NEW c \in Commands, answered \subseteq answered',
         \A d \in Commands : d # c => cmd'[d] = cmd[d],
         Settled(cmd'[c], answered')
  PROVE  DecidedInv'
BY SettledStays DEF DecidedInv

LEMMA OwnerDecides ==
  ASSUME TypeInv, AnswerInv, DecidedInv, OwnerActs
  PROVE  AnswerInv' /\ DecidedInv'
<1>1. /\ Root \in Places /\ QuestionsFile \subseteq Paths /\ "code" \notin QuestionsFile
      /\ tree[Root]["questions"] \in Int
  BY Constants DEF QuestionsFile, TypeInv, Files
<1>2. CASE Answer
  <2>1. answered \subseteq answered' /\ cmd' = cmd /\ commits' = commits
    BY <1>2, AnswerMeans
  <2>2. DecidedInv'
    BY <2>1, SettledStays DEF DecidedInv
  <2>3. AnswerInv'
    BY <1>1, <1>2, <2>1, AnswerMeans, WrittenAreGenuine
  <2> QED
    BY <2>2, <2>3
<1>3. CASE Edit("code") /\ UNCHANGED <<cmd, answered>>
  <2>1. Carries
    BY <1>1, <1>3, EditMeans DEF Carries, FromBefore
  <2> QED
    BY <1>3, <2>1, CarriedAreGenuine DEF DecidedInv
<1>4. CASE CheckoutMain(QuestionsFile) /\ UNCHANGED <<cmd, answered>>
  BY <1>4, CheckoutMeans, CarriedAreGenuine DEF DecidedInv
<1> QED
  BY <1>2, <1>3, <1>4, OwnerSteps

LEMMA CommandDecides ==
  ASSUME TypeInv, AnswerInv, DecidedInv, NEW c \in Commands, Command(c)
  PROVE  AnswerInv' /\ DecidedInv'
<1>1. Settled(cmd[c], answered)
  BY DEF DecidedInv
<1>2. ASSUME NEW kind \in Kinds, Begin(c, kind) PROVE AnswerInv' /\ DecidedInv'
  <2>1. Settled(cmd'[c], answered')
    BY <1>2, BeginMeans DEF Settled
  <2> QED
    BY <1>2, <2>1, BeginMeans, CarriedAreGenuine, OneDecides
<1>3. ASSUME NEW next \in {"questions", "check"}, Works(c, next)
      PROVE  AnswerInv' /\ DecidedInv'
  <2>1. next \in Positions \ {"idle"}
    BY DEF Positions
  <2>2. /\ Turn(c) /\ Carries /\ answered' = answered
        /\ cmd'[c].pc = next /\ cmd'[c].read = cmd[c].read /\ cmd'[c].asked = cmd[c].asked
        /\ cmd'[c].decisions = cmd[c].decisions
    BY <1>3, <2>1, SessionMeans DEF Works
  <2>3. \/ next = "questions" /\ cmd[c].kind = "plan" /\ cmd[c].pc = "interview"
        \/ next = "check" /\ (cmd[c].pc = "session" \/ cmd[c].kind = "diagnose")
    BY <1>3 DEF Works
  <2>4. Settled(cmd'[c], answered')
    BY <1>1, <2>2, <2>3 DEF Settled, Turn
  <2> QED
    BY <2>2, <2>4, CarriedAreGenuine, OneDecides DEF Turn
<1>4. CASE PlanReads(c)
  <2>1. Genuine(tree[Root])
    BY Constants DEF AnswerInv
  <2>2. cmd[c].asked = FALSE
    BY <1>1, <1>4, PlanReadsMeans DEF Settled
  <2>3. Quiet(c) /\ cmd'[c].asked = FALSE
    BY <1>4, <2>2, PlanReadsMeans DEF Quiet
  <2>4. ASSUME cmd'[c].pc = "draft" PROVE Settled(cmd'[c], answered')
    <3>1. /\ tree[Root]["answers"] # 0 /\ tree[Root]["answers"] = cmd'[c].decisions
          /\ answered' = answered
      BY <1>4, <2>3, <2>4, PlanReadsMeans DEF Quiet
    <3>2. \/ <<"owner", cmd'[c].decisions>> \in answered'
          \/ <<"agent", cmd'[c].decisions>> \in answered'
      BY <2>1, <3>1 DEF Genuine
    <3> QED
      BY <2>3, <2>4, <3>2 DEF Settled
  <2>5. ASSUME cmd'[c].pc = "terminal" PROVE Settled(cmd'[c], answered')
    <3>1. tree[Root]["answers"] = 0
      BY <1>4, <2>1, <2>5, PlanReadsMeans DEF Genuine
    <3>2. cmd'[c].read[2] = 0
      BY <1>4, <3>1, PlanReadsMeans DEF Given, InRoot
    <3> QED
      BY <2>5, <3>2 DEF Settled
  <2>6. ASSUME cmd'[c].pc = "interview" PROVE Settled(cmd'[c], answered')
    <3>1. tree[Root]["answers"] = 0 /\ tree[Root]["partial"] = 0
      BY <1>4, <2>1, <2>6, PlanReadsMeans DEF Genuine
    <3>2. cmd'[c].read = <<0, 0>>
      BY <1>4, <3>1, PlanReadsMeans DEF Given, InRoot
    <3> QED
      BY <2>6, <3>2 DEF Settled
  <2>7. ASSUME cmd'[c].pc = "awaiting_answers" PROVE Settled(cmd'[c], answered')
    BY <2>7 DEF Settled
  <2>8. Settled(cmd'[c], answered')
    BY <1>4, <2>4, <2>5, <2>6, <2>7, PlanReadsMeans
  <2> QED
    BY <2>3, <2>8, CarriedAreGenuine, OneDecides DEF Quiet, Turn
<1>5. CASE InterviewEnds(c)
  <2>1. cmd[c].read = <<0, 0>>
    BY <1>1, <1>5, InterviewEndsMeans DEF Settled
  <2>2. Settled(cmd'[c], answered')
    <3>1. /\ cmd'[c].pc \in {"error", "terminal", "ask"}
          /\ cmd'[c].read = cmd[c].read
      BY <1>5, InterviewEndsMeans
    <3> QED
      BY <2>1, <3>1 DEF Settled
  <2> QED
    BY <1>5, <2>2, InterviewEndsMeans, CarriedAreGenuine, OneDecides DEF Turn
<1>6. CASE Terminal(c)
  <2>1. Settled(cmd'[c], answered')
    BY <1>1, <1>6, TerminalMeans DEF Settled
  <2> QED
    BY <1>6, <2>1, TerminalMeans, CarriedAreGenuine, OneDecides DEF Turn
<1>7. CASE Cut(c) \/ Asked(c) \/ Recorded(c)
  <2>1. CASE Cut(c)
    <3>1. AnswerInv'
      <4>1. /\ WriteQuestions(0, {}) /\ commits' = commits /\ answered \subseteq answered'
            /\ 0 \in Int /\ {} \in {{}, {"partial"}, {"answers"}} /\ {} # {"answers"}
        BY <2>1, CutMeans
      <4> QED
        BY <4>1, WrittenAreGenuine
    <3>2. Settled(cmd'[c], answered')
      BY <1>1, <2>1, CutMeans DEF Settled
    <3> QED
      BY <2>1, <3>1, <3>2, CutMeans, OneDecides DEF Turn
  <2>2. CASE Asked(c)
    <3>1. PICK some \in {{}, {"partial"}, {"answers"}} :
            /\ WriteQuestions(c, some)
            /\ answered' = IF some = {"answers"} THEN answered \cup {<<"agent", c>>}
                           ELSE answered
      BY <2>2, AskedMeans
    <3>2. c \in Int /\ commits' = commits /\ answered \subseteq answered'
      BY <2>2, <3>1, AskedMeans, Constants
    <3>3. AnswerInv'
      BY <3>1, <3>2, WrittenAreGenuine
    <3>4. Settled(cmd'[c], answered')
      <4>1. cmd'[c].pc = "awaiting_answers"
        BY <2>2, AskedMeans
      <4> QED
        BY <4>1 DEF Settled
    <3>5. \A d \in Commands : d # c => cmd'[d] = cmd[d]
      BY <2>2, AskedMeans DEF Turn
    <3> QED
      BY <3>2, <3>3, <3>4, <3>5, OneDecides
  <2>3. CASE Recorded(c)
    <3>1. <<"owner", cmd[c].decisions>> \in answered
      BY <1>1, <2>3, RecordedMeans DEF Settled
    <3>2. AnswerInv'
      BY <2>3, <3>1, RecordedMeans, WrittenAreGenuine
    <3>3. Settled(cmd'[c], answered')
      BY <2>3, <3>1, RecordedMeans DEF Settled
    <3> QED
      BY <2>3, <3>2, <3>3, RecordedMeans, OneDecides DEF Turn
  <2> QED
    BY <1>7, <2>1, <2>2, <2>3
<1>8. CASE Rebases(c)
  <2>1. /\ Quiet(c) /\ cmd'[c].pc = "session" /\ cmd'[c].decisions = cmd[c].decisions
        /\ cmd[c].kind = "plan" => cmd[c].pc = "draft"
    BY <1>8, RebaseMeans DEF Rebases
  <2>2. Settled(cmd'[c], answered')
    BY <1>1, <2>1 DEF Settled, Quiet, Turn
  <2> QED
    BY <2>1, <2>2, CarriedAreGenuine, OneDecides DEF Quiet, Turn
<1>9. CASE Draft(c)
  <2>1. /\ Quiet(c) /\ cmd'[c].pc \in {"completed", "validation_failed", "error"}
        /\ cmd'[c].decisions = cmd[c].decisions /\ cmd[c].kind = "plan" /\ cmd[c].pc = "check"
    BY <1>9, DraftMeans
  <2>2. Settled(cmd'[c], answered')
    BY <1>1, <2>1 DEF Settled, Quiet
  <2> QED
    BY <2>1, <2>2, CarriedAreGenuine, OneDecides DEF Quiet, Turn
<1>10. CASE Publish(c) \/ Rest(c)
  <2>1. Quiet(c) /\ (cmd'[c].pc \in {"error", "dead"} \/ cmd[c].kind # "plan")
    BY <1>10, PublishMeans DEF Rest
  <2>2. Settled(cmd'[c], answered')
    BY <2>1 DEF Settled, Quiet, Turn
  <2> QED
    BY <2>1, <2>2, CarriedAreGenuine, OneDecides DEF Quiet, Turn
<1> QED
  BY <1>2, <1>3, <1>4, <1>5, <1>6, <1>7, <1>8, <1>9, <1>10, CommandSteps

LEMMA DecisionStep == TypeInv /\ DecisionInv /\ [Next]_vars => DecisionInv'
<1> SUFFICES ASSUME TypeInv, AnswerInv, DecidedInv, [Next]_vars PROVE AnswerInv' /\ DecidedInv'
  BY DEF DecisionInv
<1>1. CASE UNCHANGED vars
  BY <1>1 DEF vars, gitVars, AnswerInv, Genuine, DecidedInv
<1> QED
  BY <1>1, OwnerDecides, CommandDecides DEF Next

LEMMA InitDecision == Init => DecisionInv
<1> SUFFICES ASSUME Init PROVE DecisionInv
  OBVIOUS
<1>1. /\ \A c \in Commands : cmd[c].kind = "none"
      /\ \A u \in Places : tree[u] = Blank /\ commits[u] = Blank
  BY DEF Init, Clean, NoCommand, Started, Places, Root, Main
<1>2. \A p \in QuestionsFile : Blank[p] = 0
  BY Constants DEF Blank
<1> QED
  BY <1>1, <1>2 DEF DecisionInv, AnswerInv, Genuine, DecidedInv, Settled, QuestionsFile

\* A plan is drafted from answers that the owner gave, or from those to an earlier
\* interview whose agent gave them all itself; never without, and after its own
\* interview from the owner's only: DraftIsDecided of PlanRunner.run and
\* _run_draft, for any number of commands and whatever dies.
THEOREM DraftsAreDecided == Spec => []DraftIsDecided
<1>1. TypeInv /\ DecisionInv => DraftIsDecided
  <2> SUFFICES ASSUME TypeInv, DecidedInv, NEW c \in Commands,
                      cmd[c].kind = "plan", cmd[c].pc \in {"draft", "session", "check", "completed"}
               PROVE  \/ <<"owner", cmd[c].decisions>> \in answered
                      \/ ~cmd[c].asked /\ <<"agent", cmd[c].decisions>> \in answered
    BY DEF DecisionInv, DraftIsDecided
  <2>1. Settled(cmd[c], answered)
    BY DEF DecidedInv
  <2> QED
    BY <2>1 DEF Settled
<1> QED
  BY InitType, TypeStep, InitDecision, DecisionStep, <1>1, PTL DEF Spec

\* Answers, some or all, are overwritten only by a plan that read the file before
\* they were given, or that found it partly filled in and has asked the owner
\* every question again: AnswersAreKept of PlanRunner.run.
THEOREM AnswersStay == Spec => AnswersAreKept
<1> DEFINE Kept == \/ Given = <<0, 0>> \/ Given' = Given
                   \/ Given' = <<0, InRoot("partial")>>
                   \/ \E b \in DOMAIN commits :
                        <<commits[b]["partial"], commits[b]["answers"]>> = Given
                   \/ \E c \in Commands :
                        /\ cmd[c].kind = "plan" /\ cmd'[c].pc # cmd[c].pc
                        /\ \/ cmd[c].read # Given
                           \/ /\ cmd[c].pc \in {"record", "recording"}
                              /\ <<"owner", cmd[c].decisions>> \in answered
                              /\ InRoot("answers") = 0
<1>1. ASSUME TypeInv, DecisionInv, [Next]_vars PROVE Kept
  <2>1. RootKept => Given' = Given
    BY DEF RootKept, QuestionsFile, Given, InRoot
  <2>2. CASE UNCHANGED vars
    BY <2>2 DEF vars, gitVars, Given, InRoot
  <2>3. CASE OwnerActs
    <3>1. /\ Root \in Places /\ QuestionsFile \subseteq Paths /\ "code" \notin QuestionsFile
          /\ Genuine(tree[Root]) /\ head \in DOMAIN commits /\ tree[Root]["questions"] \in Int
      BY <1>1, Constants DEF DecisionInv, AnswerInv, TypeInv, QuestionsFile, Files
    <3>2. CASE Answer
      <4> DEFINE q == tree[Root]["questions"]
      <4>1. tree[Root]["answers"] = 0 /\ tree[Root]["partial"] \in {0, q}
        BY <1>1, <3>1, <3>2, AnswerMeans DEF Genuine
      <4>2. \/ tree'[Root]["partial"] = q /\ tree'[Root]["answers"] = 0
            \/ tree'[Root]["partial"] = 0 /\ tree'[Root]["answers"] = q
        <5>1. PICK some \in {{"partial"}, {"answers"}} : WriteQuestions(q, some)
          BY <1>1, <3>2, AnswerMeans
        <5>2. /\ tree'[Root]["answers"] = IF some = {"answers"} THEN q ELSE 0
              /\ tree'[Root]["partial"] = IF some = {"partial"} THEN q ELSE 0
          BY <1>1, <3>1, <5>1, QuestionsWritten
        <5> QED
          BY <5>2
      <4> HIDE DEF q
      <4> QED
        BY <4>1, <4>2 DEF Given, InRoot
    <3>3. CASE Edit("code")
      <4>1. RootKept
        BY <1>1, <3>1, <3>3, EditMeans DEF RootKept
      <4> QED
        BY <2>1, <4>1
    <3>4. CASE CheckoutMain(QuestionsFile)
      <4>1. CASE RootKept
        BY <2>1, <4>1
      <4>2. CASE \A p \in QuestionsFile : tree[Root][p] = commits[head][p]
        BY <3>1, <4>2 DEF Given, InRoot, QuestionsFile
      <4> QED
        BY <1>1, <3>4, <4>1, <4>2, CheckoutMeans
    <3> QED
      BY <1>1, <2>3, <3>2, <3>3, <3>4, OwnerSteps
  <2>4. ASSUME NEW c \in Commands, Command(c) PROVE Kept
    <3>1. ASSUME NEW next \in {"questions", "check"}, Works(c, next) PROVE RootKept
      <4>1. next \in Positions \ {"idle"}
        BY DEF Positions
      <4> QED
        BY <1>1, <3>1, <4>1, SessionMeans DEF Works
    <3>2. Settled(cmd[c], answered)
      BY <1>1 DEF DecisionInv, DecidedInv
    <3>3. CASE (Cut(c) /\ cmd[c].pc = "ask") \/ Asked(c)
      <4>1. cmd[c].kind = "plan" /\ cmd'[c].pc # cmd[c].pc /\ cmd[c].read = <<0, 0>>
        BY <1>1, <3>2, <3>3, CutMeans, AskedMeans DEF Settled
      <4> QED
        BY <4>1
    <3>4. CASE (Cut(c) /\ cmd[c].pc # "ask") \/ Recorded(c)
      <4>1. /\ cmd[c].kind = "plan" /\ cmd'[c].pc # cmd[c].pc
            /\ cmd[c].pc \in {"record", "recording"}
        BY <1>1, <3>4, CutMeans, RecordedMeans
      <4>2. cmd[c].read[2] = 0 /\ <<"owner", cmd[c].decisions>> \in answered
        BY <3>2, <4>1 DEF Settled
      <4>3. cmd[c].read = Given => InRoot("answers") = 0
        BY <4>2 DEF Given
      <4> QED
        BY <4>1, <4>2, <4>3
    <3>5. CASE Rebases(c)
      BY <1>1, <2>1, <3>5, RebaseMeans DEF Rebases, Quiet
    <3> QED
      BY <1>1, <2>1, <2>4, <3>1, <3>3, <3>4, <3>5, CommandSteps, BeginMeans, PlanReadsMeans,
         InterviewEndsMeans, TerminalMeans, DraftMeans, PublishMeans DEF Quiet, Rest
  <2> QED
    BY <1>1, <2>2, <2>3, <2>4 DEF Next
<1>2. TypeInv /\ DecisionInv /\ [Next]_vars => [Kept]_vars
  BY <1>1
<1> QED
  BY InitType, TypeStep, InitDecision, DecisionStep, <1>2, PTL DEF Spec, AnswersAreKept

----------------------------------------------------------------------------
(* Where sessions' edits are.  In one tree commands take turns, and the    *)
(* root's head is theirs; with worktrees the root stays on main.           *)

OrderInv ==
  /\ isolation # "worktree" =>
       \A c, d \in Commands : cmd[c].pc \notin Ended /\ cmd[d].pc \notin Ended => c = d
  /\ isolation = "worktree" => head = Main
  /\ isolation = "branch" =>
       \A c \in Commands : cmd[c].pc \notin Ended /\ cmd[c].kind # "fleet" => head = c
  /\ \A c \in Commands : cmd[c].pc = "idle" => cmd[c].kind = "none" /\ cmd[c].asked = FALSE

LEMMA InitOrder == Init => OrderInv
BY DEF Init, Clean, OrderInv, NoCommand, Started, Ended

LEMMA OrderStep == TypeInv /\ OrderInv /\ [Next]_vars => OrderInv'
<1> SUFFICES ASSUME TypeInv, OrderInv, [Next]_vars PROVE OrderInv'
  OBVIOUS
<1>1. CASE UNCHANGED vars
  BY <1>1 DEF vars, gitVars, OrderInv
<1>2. CASE OwnerActs
  <2>1. CASE Answer
    BY <2>1, AnswerMeans DEF OrderInv
  <2>2. CASE Edit("code") /\ UNCHANGED <<cmd, answered>>
    BY <2>2, EditMeans DEF OrderInv
  <2>3. CASE /\ \A c \in Commands : cmd[c].pc \in Ended \/ Place(c) # Root
             /\ CheckoutMain(QuestionsFile) /\ UNCHANGED <<cmd, answered>>
    <3>1. isolation # "worktree" => \A c \in Commands : cmd[c].pc \in Ended
      BY <2>3 DEF Place, Workdir
    <3> QED
      BY <2>3, <3>1, CheckoutMeans DEF OrderInv
  <2> QED
    BY <1>2, <2>1, <2>2, <2>3, OwnerSteps
<1>3. ASSUME NEW c \in Commands, Command(c) PROVE OrderInv'
  <2>1. ASSUME NEW kind \in Kinds, Begin(c, kind) PROVE OrderInv'
    <3>1. \A d \in Commands : cmd'[d].pc = "idle" => cmd'[d].kind = "none" /\ cmd'[d].asked = FALSE
      <4>1. cmd'[c].pc = "begun" /\ \A d \in Commands : d # c => cmd'[d] = cmd[d]
        BY <2>1, BeginMeans
      <4> QED
        BY <4>1 DEF OrderInv
    <3>2. isolation # "worktree" => \A d \in Commands : cmd'[d].pc \notin Ended => d = c
      <4>1. /\ isolation # "worktree" => \A d \in Commands : cmd[d].pc \in Ended
            /\ \A d \in Commands : d # c => cmd'[d] = cmd[d]
        BY <2>1, BeginMeans
      <4> QED
        BY <4>1
    <3>3. cmd'[c].kind = kind /\ isolation' = isolation
          /\ head' = IF isolation = "branch" /\ kind # "fleet" THEN c ELSE head
      BY <2>1, BeginMeans
    <3> QED
      BY <3>1, <3>2, <3>3 DEF OrderInv
  <2>2. CASE cmd[c].pc # "idle"
    BY <1>3, <2>2, TurnSteps DEF Turn, OrderInv
  <2>3. CASE cmd[c].pc = "idle"
    BY <1>3, <2>1, <2>3, IdleOnlyBegins
  <2> QED
    BY <2>2, <2>3
<1> QED
  BY <1>1, <1>2, <1>3 DEF Next

\* d wrote nothing that is at p in any tree or at any tip.
Free(d, p) == \A u \in Places : tree[u][p] # d /\ commits[u][p] # d

LEMMA MovesNothingNew ==
  ASSUME TypeInv, NEW t \in Places, Moves(t), NEW d \in Commands, NEW p \in Editable, Free(d, p)
  PROVE  Free(d, p)'
BY Constants DEF Moves, Free

LEMMA OwnerWritesNothing ==
  ASSUME TypeInv, OwnerActs, NEW d \in Commands, NEW p \in Editable, Free(d, p)
  PROVE  Free(d, p)'
<1>1. p \in Paths /\ Root \in Places /\ Main \in Places /\ d # Owner
  BY Constants DEF Owner
<1>2. CASE Answer
  BY <1>2, AnswerLeavesEdits DEF Free
<1>3. CASE Edit("code")
  BY <1>1, <1>3, EditMeans DEF Free
<1>4. CASE CheckoutMain(QuestionsFile)
  BY <1>1, <1>4, CheckoutMeans DEF Free
<1> QED
  BY <1>2, <1>3, <1>4, OwnerSteps

LEMMA OthersWriteNothing ==
  ASSUME TypeInv, NEW c \in Commands, Command(c), NEW d \in Commands, d # c,
         NEW p \in Editable, Free(d, p)
  PROVE  Free(d, p)'
<1>1. ASSUME NEW kind \in Kinds, Begin(c, kind) PROVE Free(d, p)'
  <2>1. \A u \in Places : /\ tree'[u] = tree[u] \/ tree'[u] = commits[head]
                          /\ commits'[u] = commits[u] \/ commits'[u] = commits[head]
    BY <1>1, BeginMeans
  <2> QED
    BY <2>1 DEF Free, TypeInv
<1>2. ASSUME NEW next \in {"questions", "check"}, Works(c, next) PROVE Free(d, p)'
  <2>1. next \in Positions \ {"idle"}
    BY DEF Positions
  <2>2. SessionWrites(c)
    BY <1>2, <2>1, SessionMeans DEF Works
  <2> QED
    BY <2>2 DEF SessionWrites, Free
<1>3. CASE Moves(Place(c))
  BY <1>3, PlaceType, MovesNothingNew
<1> QED
  BY <1>1, <1>2, <1>3, StepsMove

----------------------------------------------------------------------------
(* Main.                                                                   *)

\* With worktrees, only a fleet's distillation writes in the root and on main.
MainInv ==
  isolation = "worktree" =>
    \A p \in Editable, c \in Commands :
      tree[Root][p] = c \/ commits[Main][p] = c => cmd[c].kind = "fleet"

LEMMA MainStep == TypeInv /\ OrderInv /\ MainInv /\ [Next]_vars => MainInv'
<1> SUFFICES ASSUME TypeInv, OrderInv, MainInv, [Next]_vars, isolation' = "worktree" PROVE MainInv'
  BY DEF MainInv
<1>1. /\ Root \in Places /\ Main \in Places /\ Root = Main /\ Editable \subseteq Paths
      /\ \A c \in Commands : c # Root /\ c # 0 /\ c # Owner
  BY Constants DEF Root, Main, Owner
<1>2. CASE UNCHANGED vars
  BY <1>2 DEF vars, gitVars, MainInv
<1>3. CASE OwnerActs
  <2>1. CASE Answer
    BY <1>1, <2>1, AnswerLeavesEdits DEF MainInv
  <2>2. CASE Edit("code") /\ UNCHANGED <<cmd, answered>>
    BY <1>1, <2>2, EditMeans DEF MainInv
  <2>3. CASE CheckoutMain(QuestionsFile)
    BY <2>3, CheckoutMeans DEF OrderInv
  <2> QED
    BY <1>3, <2>1, <2>2, <2>3, OwnerSteps
<1>4. ASSUME NEW c \in Commands, Command(c) PROVE MainInv'
  <2>1. CASE cmd[c].pc = "idle"
    <3>1. PICK kind \in Kinds : Begin(c, kind)
      BY <1>4, <2>1, IdleOnlyBegins
    <3>2. /\ isolation' = isolation /\ tree'[Root] = tree[Root] /\ commits'[Main] = commits[Main]
          /\ \A d \in Commands : d # c => cmd'[d] = cmd[d]
      <4>1. /\ isolation' = isolation
            /\ \A d \in Commands : d # c => cmd'[d] = cmd[d]
            /\ \A u \in Places :
                 /\ tree'[u] = tree[u] \/ (isolation = "worktree" /\ u = c /\ tree'[u] = commits[head])
                 /\ commits'[u] = commits[u] \/ (u = c /\ commits'[u] = commits[head])
        BY <3>1, BeginMeans
      <4>2. tree'[Root] = tree[Root]
        BY <1>1, <4>1
      <4>3. commits'[Main] = commits[Main]
        BY <1>1, <4>1
      <4> QED
        BY <4>1, <4>2, <4>3
    <3>3. cmd[c].kind = "none"
      BY <2>1 DEF OrderInv
    <3> QED
      BY <3>2, <3>3 DEF MainInv
  <2>2. CASE cmd[c].pc # "idle"
    <3>1. isolation = "worktree" /\ \A d \in Commands : cmd'[d].kind = cmd[d].kind
      BY <1>4, <2>2, TurnSteps DEF Turn
    <3>2. /\ Place(c) = Root => cmd[c].kind = "fleet"
          /\ BranchOf(Place(c)) = Main => Place(c) = Root
          /\ Place(c) \in Places
      BY <1>1, <3>1, PlaceType DEF Place, Workdir, BranchOf
    <3>3. ASSUME NEW next \in {"questions", "check"}, Works(c, next) PROVE MainInv'
      <4>1. next \in Positions \ {"idle"}
        BY DEF Positions
      <4>2. SessionWrites(c)
        BY <3>3, <4>1, SessionMeans DEF Works
      <4> QED
        BY <1>1, <3>1, <3>2, <4>2 DEF SessionWrites, MainInv
    <3>4. CASE Moves(Place(c))
      <4>1. \A p \in Editable : /\ tree'[Root][p] \in {tree[Root][p], 0}
                                /\ commits'[Main][p] \in {commits[Main][p], tree'[Root][p]}
        BY <1>1, <3>2, <3>4 DEF Moves
      <4> QED
        BY <1>1, <3>1, <4>1 DEF MainInv
    <3>5. ASSUME NEW kind \in Kinds, Begin(c, kind) PROVE FALSE
      BY <2>2, <3>5, BeginMeans
    <3> QED
      BY <1>4, <3>3, <3>4, <3>5, StepsMove
  <2> QED
    BY <2>1, <2>2
<1> QED
  BY <1>2, <1>3, <1>4 DEF Next

LEMMA InitMain == Init => MainInv
<1> SUFFICES ASSUME Init PROVE MainInv
  OBVIOUS
<1>1. /\ \A u \in Places : tree[u] = Blank /\ commits[u] = Blank
      /\ Root \in Places /\ Main \in Places
  BY Constants DEF Init, Clean, Places, Root, Main
<1>2. \A p \in Editable : Blank[p] = 0
  BY Constants DEF Blank
<1> QED
  BY <1>1, <1>2, Constants DEF MainInv, Root

\* With worktrees no session but a fleet's distillation brings its edits to main:
\* SessionsStayOffMain of add_worktree and checkpoint.
THEOREM MainIsOffLimits == Spec => []SessionsStayOffMain
<1>1. MainInv => SessionsStayOffMain
  BY DEF MainInv, SessionsStayOffMain
<1> QED
  BY InitType, TypeStep, InitOrder, OrderStep, InitMain, MainStep, <1>1, PTL DEF Spec

----------------------------------------------------------------------------
(* Fences.  Until its session a command wrote nothing; after it, its edits *)
(* are in its own tree and branch, and not in what they will be compared   *)
(* with, so that the comparison sees all of them.                          *)

Before == {"idle", "begun", "interview", "terminal", "record", "recording", "draft",
           "session"}

Fences(c) == cmd[c].kind \in {"none", "plan", "propose"} /\ cmd[c].asked = FALSE

BeforeInv(c) ==
  Fences(c) /\ cmd[c].pc \in Before => \A p \in Editable : Free(c, p)

BaseInv(c) ==
  Fences(c) /\ cmd[c].pc \in {"session", "check"} => \A p \in Editable : cmd[c].base[p] # c

Located(c) ==
  \A u \in Places, p \in Editable :
    /\ tree[u][p] = c => u = Place(c)
    /\ commits[u][p] = c => u = BranchOf(Place(c))

CheckInv(c) == Fences(c) /\ cmd[c].pc = "check" => Located(c)

CompletedInv(c) ==
  Fences(c) /\ cmd[c].pc = "completed" =>
    \A p \in Editable : Free(c, p) \/ p \in Fence(cmd[c].kind)

FenceInv == \A c \in Commands : BeforeInv(c) /\ BaseInv(c) /\ CheckInv(c) /\ CompletedInv(c)

\* While d runs, nobody else moves its edits.
LEMMA OthersMoveNothing ==
  ASSUME TypeInv, OrderInv, NEW c \in Commands, Command(c), NEW d \in Commands, d # c,
         cmd[d].pc \notin Ended, cmd[d].kind # "fleet", Located(d)
  PROVE  Located(d)'
<1>1. isolation = "worktree"
  <2>1. CASE cmd[c].pc = "idle"
    BY <2>1, IdleOnlyBegins, BeginMeans
  <2>2. CASE cmd[c].pc # "idle"
    BY <2>2, TurnSteps DEF Turn, OrderInv
  <2> QED
    BY <2>1, <2>2
<1>2. /\ Place(d) = d /\ BranchOf(d) = d /\ d # Root /\ d # c /\ d # 0 /\ head = Main /\ d # Main
      /\ c \in Places /\ Root \in Places /\ Place(c) \in {c, Root} /\ Place(c) \in Places
      /\ BranchOf(Place(c)) \in {c, Main} /\ Main \in Places
  BY <1>1, Constants, PlaceType DEF OrderInv, Place, Workdir, BranchOf, Root, Main
<1>3. /\ cmd'[d] = cmd[d] /\ isolation' = isolation
  <2>1. CASE cmd[c].pc = "idle"
    <3>1. PICK kind \in Kinds : Begin(c, kind)
      BY <2>1, IdleOnlyBegins
    <3>2. isolation' = isolation /\ \A e \in Commands : e # c => cmd'[e] = cmd[e]
      BY <3>1, BeginMeans
    <3> QED
      BY <3>2
  <2>2. CASE cmd[c].pc # "idle"
    BY <2>2, TurnSteps DEF Turn
  <2> QED
    BY <2>1, <2>2
<1>4. Place(d)' = d /\ BranchOf(Place(d))' = d
  BY <1>1, <1>2, <1>3 DEF Place, Workdir, BranchOf
<1>5. \A u \in Places, p \in Editable :
        /\ tree[u][p] = d => u = d
        /\ commits[u][p] = d => u = d
  BY <1>2 DEF Located
<1> SUFFICES \A u \in Places, p \in Editable :
               /\ tree'[u][p] = d => u = d
               /\ commits'[u][p] = d => u = d
  BY <1>4 DEF Located
<1>6. ASSUME NEW kind \in Kinds, Begin(c, kind)
      PROVE  \A u \in Places, p \in Editable :
               (tree'[u][p] = d => u = d) /\ (commits'[u][p] = d => u = d)
  <2>1. \A u \in Places : /\ tree'[u] = tree[u] \/ tree'[u] = commits[head]
                          /\ commits'[u] = commits[u] \/ commits'[u] = commits[head]
    BY <1>6, BeginMeans
  <2> QED
    BY <1>2, <1>5, <2>1
<1>7. ASSUME NEW next \in {"questions", "check"}, Works(c, next)
      PROVE  \A u \in Places, p \in Editable :
               (tree'[u][p] = d => u = d) /\ (commits'[u][p] = d => u = d)
  <2>1. next \in Positions \ {"idle"}
    BY DEF Positions
  <2>2. SessionWrites(c)
    BY <1>7, <2>1, SessionMeans DEF Works
  <2> QED
    BY <1>2, <1>5, <2>2 DEF SessionWrites
<1>8. ASSUME Moves(Place(c))
      PROVE  \A u \in Places, p \in Editable :
               (tree'[u][p] = d => u = d) /\ (commits'[u][p] = d => u = d)
  BY <1>2, <1>5, <1>8 DEF Moves
<1> QED
  BY <1>6, <1>7, <1>8, StepsMove

LEMMA OwnerMovesNothing ==
  ASSUME TypeInv, OrderInv, OwnerActs, NEW d \in Commands,
         cmd[d].pc \notin Ended, cmd[d].kind # "fleet", Located(d)
  PROVE  Located(d)'
<1>1. /\ Root \in Places /\ Main \in Places /\ Editable \subseteq Paths /\ d # Owner
  BY Constants DEF Owner
<1>2. CASE Answer
  BY <1>2, AnswerLeavesEdits DEF Located, Place, Workdir, BranchOf
<1>3. CASE Edit("code") /\ UNCHANGED <<cmd, answered>>
  BY <1>1, <1>3, EditMeans DEF Located, Place, Workdir, BranchOf
<1>4. CASE /\ \A c \in Commands : cmd[c].pc \in Ended \/ Place(c) # Root
           /\ CheckoutMain(QuestionsFile)
  <2>1. isolation = "worktree"
    BY <1>4 DEF Place, Workdir
  <2> QED
    BY <1>4, <2>1, CheckoutMeans DEF OrderInv
<1> QED
  BY <1>2, <1>3, <1>4, OwnerSteps

\* What the fences say of a command that somebody else's step does not touch.
LEMMA OthersAreFenced ==
  ASSUME TypeInv, OrderInv, FenceInv, NEW d \in Commands, cmd'[d] = cmd[d],
         \A p \in Editable : Free(d, p) => Free(d, p)',
         cmd[d].pc \notin Ended /\ cmd[d].kind # "fleet" /\ Located(d) => Located(d)'
  PROVE  (BeforeInv(d) /\ BaseInv(d) /\ CheckInv(d) /\ CompletedInv(d))'
<1>1. BeforeInv(d) /\ BaseInv(d) /\ CheckInv(d) /\ CompletedInv(d)
  BY DEF FenceInv
<1>2. BeforeInv(d)'
  BY <1>1 DEF BeforeInv, Fences
<1>3. BaseInv(d)'
  BY <1>1 DEF BaseInv, Fences
<1>4. CheckInv(d)'
  BY <1>1 DEF CheckInv, Fences, Ended
<1>5. CompletedInv(d)'
  BY <1>1 DEF CompletedInv, Fences, Fence
<1> QED
  BY <1>2, <1>3, <1>4, <1>5

\* A step of c's that neither brings new edits nor ends in a verdict.
LEMMA GoesOnFenced ==
  ASSUME TypeInv, NEW c \in Commands, BeforeInv(c), BaseInv(c),
         Turn(c), Moves(Place(c)), cmd'[c].asked = cmd[c].asked,
         cmd'[c].pc \in Before \ {"session"} => cmd[c].pc \in Before,
         cmd'[c].pc \notin {"session", "check", "completed"}
  PROVE  (BeforeInv(c) /\ BaseInv(c) /\ CheckInv(c) /\ CompletedInv(c))'
<1>1. cmd'[c].pc \in Before => cmd[c].pc \in Before
  BY DEF Before
<1>2. BeforeInv(c)'
  BY <1>1, PlaceType, MovesNothingNew DEF BeforeInv, Fences, Turn
<1> QED
  BY <1>2 DEF BaseInv, CheckInv, CompletedInv

\* What the verdict compares shows every edit of the session's.
LEMMA VerdictIsFenced ==
  ASSUME TypeInv, NEW c \in Commands, BaseInv(c), CheckInv(c), cmd[c].pc = "check",
         Turn(c), Moves(Place(c)), commits' = Checkpointed(Place(c)),
         cmd'[c].asked = cmd[c].asked,
         cmd'[c].pc \in {"completed", "validation_failed", "error"},
         cmd'[c].pc = "completed" =>
           \A p \in Paths : cmd[c].base[p] # Added(Place(c))[p] => p \in Fence(cmd[c].kind)
  PROVE  (BeforeInv(c) /\ BaseInv(c) /\ CheckInv(c) /\ CompletedInv(c))'
<1>1. BeforeInv(c)' /\ BaseInv(c)' /\ CheckInv(c)'
  BY DEF Before, BeforeInv, BaseInv, CheckInv
<1>2. CompletedInv(c)'
  <2> SUFFICES ASSUME Fences(c)', cmd'[c].pc = "completed", NEW p \in Editable, p \notin Fence(cmd[c].kind)
               PROVE  Free(c, p)'
    BY DEF CompletedInv, Turn, Fence
  <2>1. Located(c) /\ cmd[c].base[p] # c
    BY DEF CheckInv, BaseInv, Fences, Turn
  <2>2. p \in Paths /\ Added(Place(c))[p] = tree[Place(c)][p] /\ Place(c) \in Places /\ c # 0
    BY Constants, PlaceType DEF Added
  <2>3. tree[Place(c)][p] # c
    BY <2>1, <2>2
  <2>4. \A u \in Places : tree'[u][p] # c
    BY <2>1, <2>2, <2>3 DEF Located, Moves
  <2>5. \A u \in Places : commits'[u][p] # c
    <3>1. \A u \in Places : commits'[u] = IF u = BranchOf(Place(c)) THEN Added(Place(c)) ELSE commits[u]
      BY DEF TypeInv, Checkpointed
    <3> QED
      BY <2>1, <2>2, <2>3, <3>1 DEF Located
  <2> QED
    BY <2>4, <2>5 DEF Free
<1> QED
  BY <1>1, <1>2

LEMMA FenceStep == TypeInv /\ OrderInv /\ FenceInv /\ [Next]_vars => FenceInv'
<1> SUFFICES ASSUME TypeInv, OrderInv, FenceInv, [Next]_vars PROVE FenceInv'
  OBVIOUS
<1>1. CASE UNCHANGED vars
  <2> SUFFICES ASSUME NEW d \in Commands
               PROVE  (BeforeInv(d) /\ BaseInv(d) /\ CheckInv(d) /\ CompletedInv(d))'
    BY DEF FenceInv
  <2> QED
    BY <1>1, OthersAreFenced DEF vars, gitVars, Free, Located, Place, Workdir, BranchOf
<1>2. CASE OwnerActs
  <2> SUFFICES ASSUME NEW d \in Commands
               PROVE  (BeforeInv(d) /\ BaseInv(d) /\ CheckInv(d) /\ CompletedInv(d))'
    BY DEF FenceInv
  <2>1. cmd' = cmd
    BY <1>2, OwnerSteps, AnswerMeans
  <2> QED
    BY <1>2, <2>1, OwnerWritesNothing, OwnerMovesNothing, OthersAreFenced
<1>3. ASSUME NEW c \in Commands, Command(c) PROVE FenceInv'
  <2>1. \A d \in Commands : d # c => cmd'[d] = cmd[d]
    <3>1. CASE cmd[c].pc = "idle"
      <4>1. PICK kind \in Kinds : Begin(c, kind)
        BY <1>3, <3>1, IdleOnlyBegins
      <4> QED
        BY <4>1, BeginMeans
    <3>2. CASE cmd[c].pc # "idle"
      BY <1>3, <3>2, TurnSteps DEF Turn
    <3> QED
      BY <3>1, <3>2
  <2>2. ASSUME NEW d \in Commands, d # c
        PROVE  (BeforeInv(d) /\ BaseInv(d) /\ CheckInv(d) /\ CompletedInv(d))'
    <3>1. cmd'[d] = cmd[d]
      BY <2>1, <2>2
    <3>2. \A p \in Editable : Free(d, p) => Free(d, p)'
      BY <1>3, <2>2, OthersWriteNothing
    <3>3. cmd[d].pc \notin Ended /\ cmd[d].kind # "fleet" /\ Located(d) => Located(d)'
      BY <1>3, <2>2, OthersMoveNothing
    <3> QED
      BY <3>1, <3>2, <3>3, OthersAreFenced
  <2>3. (BeforeInv(c) /\ BaseInv(c) /\ CheckInv(c) /\ CompletedInv(c))'
    <3>1. BeforeInv(c) /\ BaseInv(c) /\ CheckInv(c) /\ CompletedInv(c)
      BY DEF FenceInv
    <3>2. ASSUME NEW kind \in Kinds, Begin(c, kind)
          PROVE  (BeforeInv(c) /\ BaseInv(c) /\ CheckInv(c) /\ CompletedInv(c))'
      <4>1. cmd[c].pc = "idle" /\ cmd'[c].pc = "begun"
        BY <3>2, BeginMeans
      <4>2. \A p \in Editable : Free(c, p)
        BY <3>1, <4>1 DEF OrderInv, BeforeInv, Before, Fences
      <4>3. \A u \in Places : /\ tree'[u] = tree[u] \/ tree'[u] = commits[head]
                              /\ commits'[u] = commits[u] \/ commits'[u] = commits[head]
        BY <3>2, BeginMeans
      <4>4. \A p \in Editable : Free(c, p)'
        BY <4>2, <4>3 DEF Free, TypeInv
      <4> QED
        BY <4>1, <4>4 DEF BeforeInv, BaseInv, CheckInv, CompletedInv
    <3>3. ASSUME NEW next \in {"questions", "check"}, Works(c, next)
          PROVE  (BeforeInv(c) /\ BaseInv(c) /\ CheckInv(c) /\ CompletedInv(c))'
      <4>1. next \in Positions \ {"idle"}
        BY DEF Positions
      <4>2. /\ Turn(c) /\ SessionWrites(c) /\ cmd'[c].pc = next
            /\ cmd'[c].asked = cmd[c].asked /\ cmd'[c].base = cmd[c].base
        BY <3>3, <4>1, SessionMeans DEF Works
      <4>3. CASE next = "questions"
        BY <4>2, <4>3 DEF Before, BeforeInv, BaseInv, CheckInv, CompletedInv
      <4>4. CASE next = "check" /\ Fences(c)
        <5>1. cmd[c].pc = "session"
          BY <3>3, <4>4 DEF Works, Fences
        <5>2. \A p \in Editable : Free(c, p) /\ cmd[c].base[p] # c
          BY <3>1, <4>4, <5>1 DEF BeforeInv, BaseInv, Before
        <5>3. Place(c)' = Place(c) /\ BranchOf(Place(c))' = BranchOf(Place(c))
          BY <4>2 DEF Turn, Place, Workdir, BranchOf
        <5>4. Located(c)'
          BY <4>2, <5>2, <5>3 DEF SessionWrites, Located, Free
        <5> QED
          BY <4>2, <4>4, <5>2, <5>4 DEF Before, BeforeInv, BaseInv, CheckInv, CompletedInv
      <4>5. CASE next = "check" /\ ~Fences(c)
        BY <4>2, <4>5 DEF Turn, Fences, BeforeInv, BaseInv, CheckInv, CompletedInv
      <4> QED
        BY <4>3, <4>4, <4>5
    <3>4. CASE PlanReads(c)
      BY <3>1, <3>4, PlanReadsMeans, GoesOnFenced DEF Quiet, Before
    <3>5. CASE InterviewEnds(c)
      <4>1. cmd'[c].asked = TRUE
        BY <3>5, InterviewEndsMeans
      <4> QED
        BY <4>1 DEF Fences, BeforeInv, BaseInv, CheckInv, CompletedInv
    <3>6. CASE Terminal(c)
      BY <3>1, <3>6, TerminalMeans, GoesOnFenced DEF Before
    <3>7. CASE Cut(c) \/ Asked(c) \/ Recorded(c)
      BY <3>1, <3>7, CutMeans, AskedMeans, RecordedMeans, GoesOnFenced DEF Before
    <3>8. CASE Rebases(c)
      <4>1. /\ Turn(c) /\ Moves(Place(c)) /\ cmd'[c].asked = cmd[c].asked
            /\ cmd'[c].pc = "session" /\ cmd'[c].base = Added(Place(c))
            /\ cmd[c].pc \in Before
        BY <3>8, RebaseMeans DEF Rebases, Quiet, Before
      <4>2. Fences(c)' => \A p \in Editable : Free(c, p)
        BY <3>1, <4>1 DEF BeforeInv, Fences, Turn
      <4>3. Fences(c)' => \A p \in Editable : Free(c, p)'
        BY <4>1, <4>2, PlaceType, MovesNothingNew
      <4>4. \A p \in Editable : Added(Place(c))[p] = tree[Place(c)][p] /\ Place(c) \in Places
        BY Constants, PlaceType DEF Added
      <4>5. Fences(c)' => \A p \in Editable : cmd'[c].base[p] # c
        BY <4>1, <4>2, <4>4 DEF Free
      <4> QED
        BY <4>1, <4>3, <4>5 DEF BeforeInv, BaseInv, CheckInv, CompletedInv
    <3>9. CASE Draft(c)
      BY <3>1, <3>9, DraftMeans, VerdictIsFenced DEF Quiet
    <3>10. CASE Publish(c)
      BY <3>1, <3>10, PublishMeans, VerdictIsFenced DEF Quiet
    <3>11. CASE Rest(c)
      <4>1. cmd'[c].pc \in {"error", "dead"} \/ ~Fences(c)'
        BY <3>11 DEF Rest, Quiet, Turn, Fences
      <4> QED
        BY <4>1 DEF Before, BeforeInv, BaseInv, CheckInv, CompletedInv
    <3> QED
      BY <1>3, <3>2, <3>3, <3>4, <3>5, <3>6, <3>7, <3>8, <3>9, <3>10, <3>11, CommandSteps
  <2> QED
    BY <2>2, <2>3 DEF FenceInv
<1> QED
  BY <1>1, <1>2, <1>3 DEF Next

LEMMA InitFence == Init => FenceInv
<1> SUFFICES ASSUME Init, NEW c \in Commands
             PROVE  BeforeInv(c) /\ BaseInv(c) /\ CheckInv(c) /\ CompletedInv(c)
  BY DEF FenceInv
<1>1. /\ \A u \in Places : tree[u] = Blank /\ commits[u] = Blank
      /\ cmd[c].pc = "idle"
  BY DEF Init, Clean, Places, Root, Main, NoCommand, Started
<1>2. c # 0 /\ \A p \in Editable : Blank[p] = 0
  BY Constants DEF Blank
<1> QED
  BY <1>1, <1>2 DEF Free, BeforeInv, BaseInv, CheckInv, CompletedInv

\* Outside the fence of its command nothing that a completed plan's or proposal's
\* session wrote is on a branch: CompletedIsFenced of _planning_only_changes and
\* validate_propose_diff, whatever other commands run, die or copy.
THEOREM CompletedStaysFenced == Spec => []CompletedIsFenced
<1>1. ASSUME TypeInv, FenceInv PROVE CompletedIsFenced
  <2> SUFFICES ASSUME NEW c \in Commands, NEW b \in DOMAIN commits, NEW p \in Editable,
                      cmd[c].pc = "completed", cmd[c].kind \in {"plan", "propose"}, ~cmd[c].asked,
                      commits[b][p] = c
               PROVE  p \in Fence(cmd[c].kind)
    BY DEF CompletedIsFenced
  <2>1. b \in Places /\ cmd[c].asked \in BOOLEAN
    BY <1>1 DEF TypeInv, CmdRec
  <2>2. Fences(c)
    BY <2>1 DEF Fences
  <2> QED
    BY <1>1, <2>1, <2>2 DEF FenceInv, CompletedInv, Free
<1> QED
  BY InitType, TypeStep, InitOrder, OrderStep, InitFence, FenceStep, <1>1, PTL DEF Spec

----------------------------------------------------------------------------
(* The branch of a proposal: what its tree has of the policy files is what *)
(* its branch had before the session, or the session's own.                *)

PolicyInv ==
  \A c \in Commands :
    isolation # "none" /\ cmd[c].kind = "propose" /\ cmd[c].pc \in {"session", "check"}
      => tree[Place(c)]["policy"] \in {cmd[c].base["policy"], c}

LEMMA ProposesOnItsBranch ==
  ASSUME TypeInv, OrderInv, NEW c \in Commands, isolation # "none",
         cmd[c].kind = "propose", cmd[c].pc \notin Ended
  PROVE  BranchOf(Place(c)) = c
<1>1. c # Root
  BY Constants
<1> QED
  BY <1>1 DEF TypeInv, OrderInv, Place, Workdir, BranchOf

LEMMA BeginLeavesTrees ==
  ASSUME TypeInv, NEW c \in Commands, NEW kind \in Kinds, Begin(c, kind)
  PROVE  \A u \in Places : u # c => tree'[u] = tree[u]
<1>1. \A u \in Places :
        /\ tree'[u] = tree[u] \/ (isolation = "worktree" /\ u = c /\ tree'[u] = commits[head])
        /\ commits'[u] = commits[u] \/ (u = c /\ commits'[u] = commits[head])
  BY BeginMeans
<1> QED
  BY <1>1

LEMMA PolicyStep == TypeInv /\ OrderInv /\ PolicyInv /\ [Next]_vars => PolicyInv'
<1> SUFFICES ASSUME TypeInv, OrderInv, PolicyInv, [Next]_vars, NEW d \in Commands, isolation' # "none",
                    cmd'[d].kind = "propose", cmd'[d].pc \in {"session", "check"}
             PROVE  tree'[Place(d)']["policy"] \in {cmd'[d].base["policy"], d}
  BY DEF PolicyInv
<1>1. /\ "policy" \in Editable /\ "policy" \in Paths /\ "policy" \notin Skills
      /\ "policy" # "code"
      /\ Root \in Places /\ Place(d) \in Places
  BY Constants, PlaceType, OwnerAssumption DEF OwnerAssumption, Editable
<1>2. CASE UNCHANGED vars
  BY <1>2 DEF vars, gitVars, PolicyInv, Place, Workdir
<1>3. CASE OwnerActs
  <2>1. cmd' = cmd /\ isolation' = isolation
    BY <1>3, OwnerSteps, AnswerMeans, EditMeans, CheckoutMeans
  <2>2. Place(d)' = Place(d) /\ tree[Place(d)]["policy"] \in {cmd[d].base["policy"], d}
        /\ cmd[d].pc \notin Ended
    BY <2>1 DEF Place, Workdir, PolicyInv, Ended
  <2>3. tree'[Place(d)]["policy"] = tree[Place(d)]["policy"]
    <3>1. CASE Answer
      BY <1>1, <3>1, AnswerLeavesEdits
    <3>2. CASE Edit("code")
      BY <1>1, <3>2, EditMeans
    <3>3. CASE CheckoutMain(QuestionsFile) /\ Place(d) # Root
      BY <1>1, <3>3, CheckoutMeans
    <3> QED
      BY <1>3, <2>2, <3>1, <3>2, <3>3, OwnerSteps
  <2> QED
    BY <2>1, <2>2, <2>3
<1>4. ASSUME NEW c \in Commands, Command(c)
      PROVE  tree'[Place(d)']["policy"] \in {cmd'[d].base["policy"], d}
  <2>1. CASE cmd[c].pc = "idle"
    <3>1. PICK kind \in Kinds : Begin(c, kind)
      BY <1>4, <2>1, IdleOnlyBegins
    <3>2. /\ isolation' = isolation /\ cmd'[c].pc = "begun"
          /\ \A e \in Commands : e # c => cmd'[e] = cmd[e]
          /\ \A u \in Places : u # c => tree'[u] = tree[u]
          /\ (isolation = "worktree" \/ \A e \in Commands : cmd[e].pc \in Ended)
      <4>1. \A u \in Places : u # c => tree'[u] = tree[u]
        BY <3>1, BeginLeavesTrees
      <4>2. /\ isolation' = isolation /\ cmd'[c].pc = "begun"
            /\ \A e \in Commands : e # c => cmd'[e] = cmd[e]
        BY <3>1, BeginMeans
      <4>3. isolation = "worktree" \/ \A e \in Commands : cmd[e].pc \in Ended
        BY <3>1, BeginMeans
      <4> QED
        BY <4>1, <4>2, <4>3
    <3>3. d # c /\ cmd'[d] = cmd[d] /\ cmd[d].pc \notin Ended
      BY <3>2 DEF Ended
    <3>4. isolation = "worktree" /\ Place(d) = d /\ Place(d)' = d
      BY <3>2, <3>3 DEF Place, Workdir
    <3> QED
      BY <1>1, <3>2, <3>3, <3>4 DEF PolicyInv
  <2>2. CASE cmd[c].pc # "idle"
    <3>1. Turn(c)
      BY <1>4, <2>2, TurnSteps
    <3>2. Place(d)' = Place(d) /\ isolation' = isolation /\ cmd'[d].kind = cmd[d].kind
      BY <3>1 DEF Turn, Place, Workdir
    <3>3. Moves(Place(c)) => tree'[Place(d)]["policy"] = tree[Place(d)]["policy"]
      BY <1>1 DEF Moves
    <3>4. CASE d # c
      <4>1. cmd'[d] = cmd[d] /\ cmd[d].pc \notin Ended
        BY <3>1, <3>4 DEF Turn, Ended
      <4>2. isolation = "worktree" /\ Place(d) = d /\ Place(c) # d
        BY <3>1, <3>2, <3>4, <4>1, Constants DEF Turn, OrderInv, Place, Workdir
      <4>3. tree'[Place(d)]["policy"] = tree[Place(d)]["policy"]
        <5>1. ASSUME NEW next \in {"questions", "check"}, Works(c, next)
              PROVE  tree'[Place(d)]["policy"] = tree[Place(d)]["policy"]
          <6>1. next \in Positions \ {"idle"}
            BY DEF Positions
          <6>2. SessionWrites(c)
            BY <5>1, <6>1, SessionMeans DEF Works
          <6> QED
            BY <1>1, <4>2, <6>2 DEF SessionWrites
        <5>2. ASSUME NEW kind \in Kinds, Begin(c, kind) PROVE FALSE
          BY <2>2, <5>2, BeginMeans
        <5> QED
          BY <1>4, <3>3, <5>1, <5>2, StepsMove
      <4> QED
        BY <3>2, <4>1, <4>3 DEF PolicyInv
    <3>5. CASE d = c
      <4>1. ASSUME NEW next \in {"questions", "check"}, Works(c, next)
            PROVE  tree'[Place(d)]["policy"] \in {cmd'[d].base["policy"], d}
        <5>1. next \in Positions \ {"idle"}
          BY DEF Positions
        <5>2. SessionWrites(c) /\ cmd'[c].base = cmd[c].base
          BY <4>1, <5>1, SessionMeans DEF Works
        <5>3. cmd[c].pc = "session"
          BY <3>2, <3>5, <4>1 DEF Works
        <5> QED
          BY <1>1, <3>2, <3>5, <5>2, <5>3 DEF SessionWrites, PolicyInv
      <4>2. CASE Rebases(c)
        <5>1. Moves(Place(c)) /\ cmd'[c].base = Added(Place(c))
          BY <4>2, RebaseMeans DEF Rebases, Quiet
        <5>2. Added(Place(c))["policy"] = tree[Place(c)]["policy"]
          BY <1>1, Constants DEF Added
        <5> QED
          BY <3>2, <3>3, <3>5, <5>1, <5>2
      <4>3. ASSUME NEW kind \in Kinds, Begin(c, kind) PROVE FALSE
        BY <2>2, <4>3, BeginMeans
      <4>4. ~PlanReads(c) /\ ~InterviewEnds(c) /\ ~Terminal(c) /\ ~Draft(c)
            /\ ~Cut(c) /\ ~Asked(c) /\ ~Recorded(c)
        <5>1. cmd[c].kind # "plan"
          BY <3>2, <3>5
        <5> QED
          BY <5>1, PlanReadsMeans, InterviewEndsMeans, TerminalMeans, CutMeans, AskedMeans,
             RecordedMeans, DraftMeans
      <4>5. ~Publish(c)
        <5>1. cmd'[c].pc \notin {"completed", "validation_failed"}
          BY <3>5
        <5> QED
          BY <5>1, PublishMeans
      <4>6. ~Rest(c)
        BY <3>2, <3>5 DEF Rest
      <4>7. (\E next \in {"questions", "check"} : Works(c, next)) \/ Rebases(c)
        <5>1. ~ \E kind \in Kinds : Begin(c, kind)
          BY <4>3
        <5> QED
          BY <1>4, <4>4, <4>5, <4>6, <5>1, CommandSteps
      <4> QED
        BY <3>2, <4>1, <4>2, <4>7
    <3> QED
      BY <3>4, <3>5
  <2> QED
    BY <2>1, <2>2
<1> QED
  BY <1>2, <1>3, <1>4 DEF Next

\* A proposal that completes has its edits on the branch that its sidecar names:
\* SidecarNamesItsBranch of write_proposal_sidecar.
THEOREM SidecarsNameTheirBranch == Spec => SidecarNamesItsBranch
<1> DEFINE Named ==
      \A c \in Commands :
        /\ isolation # "none"
        /\ cmd[c].kind = "propose" /\ cmd[c].pc # "completed" /\ cmd'[c].pc = "completed"
        => /\ tree'[Root]["sidecar"] = c
           /\ \E p \in Fence("propose") : commits'[c][p] = c
<1>1. Init => PolicyInv
  BY DEF Init, Clean, PolicyInv, NoCommand, Started
<1>2. ASSUME TypeInv, OrderInv, PolicyInv, [Next]_vars PROVE Named
  <2> SUFFICES ASSUME NEW c \in Commands, isolation # "none", cmd[c].kind = "propose",
                      cmd[c].pc # "completed", cmd'[c].pc = "completed"
               PROVE  /\ tree'[Root]["sidecar"] = c
                      /\ \E p \in Fence("propose") : commits'[c][p] = c
    OBVIOUS
  <2>1. Publish(c)
    <3>1. cmd' # cmd
      OBVIOUS
    <3>2. ~OwnerActs
      BY <1>2, <3>1, OwnerSteps, AnswerMeans
    <3>3. PICK d \in Commands : Command(d)
      BY <1>2, <3>1, <3>2 DEF Next, vars
    <3>4. c = d
      <4>1. CASE cmd[d].pc = "idle"
        BY <1>2, <3>3, <4>1, IdleOnlyBegins, BeginMeans
      <4>2. CASE cmd[d].pc # "idle"
        BY <1>2, <3>3, <4>2, TurnSteps DEF Turn
      <4> QED
        BY <4>1, <4>2
    <3>5. ASSUME NEW next \in {"questions", "check"}, Works(c, next) PROVE FALSE
      <4>1. next \in Positions \ {"idle"}
        BY DEF Positions
      <4> QED
        BY <1>2, <3>5, <4>1, SessionMeans DEF Works
    <3>6. ASSUME NEW kind \in Kinds, Begin(c, kind) PROVE FALSE
      BY <1>2, <3>6, BeginMeans
    <3>7. CASE Rebases(c)
      BY <1>2, <3>7, RebaseMeans DEF Rebases
    <3> QED
      BY <1>2, <3>3, <3>4, <3>5, <3>6, <3>7, CommandSteps, PlanReadsMeans, InterviewEndsMeans,
         TerminalMeans, CutMeans, AskedMeans, RecordedMeans, DraftMeans
         DEF Rest
  <2>2. /\ cmd[c].pc = "check" /\ commits' = Checkpointed(Place(c)) /\ tree'[Root]["sidecar"] = c
        /\ \A p \in Paths : cmd[c].base[p] # Added(Place(c))[p] => p \in Fence("propose")
        /\ \E p \in Paths : cmd[c].base[p] # Added(Place(c))[p]
    BY <1>2, <2>1, PublishMeans
  <2>3. cmd[c].base["policy"] # Added(Place(c))["policy"]
    BY <2>2 DEF Fence
  <2>4. /\ "policy" \in Editable /\ "policy" \in Paths /\ c \in Places
        /\ Added(Place(c))["policy"] = tree[Place(c)]["policy"]
    BY Constants DEF Added, Editable
  <2>5. Added(Place(c))["policy"] = c
    BY <1>2, <2>2, <2>3, <2>4 DEF PolicyInv
  <2>6. commits'[c] = Added(Place(c))
    <3>1. BranchOf(Place(c)) = c
      BY <1>2, <2>2, ProposesOnItsBranch DEF Ended
    <3> QED
      BY <1>2, <2>2, <2>4, <3>1 DEF Checkpointed, TypeInv
  <2> QED
    BY <2>2, <2>5, <2>6 DEF Fence
<1>3. TypeInv /\ OrderInv /\ PolicyInv /\ [Next]_vars => [Named]_vars
  BY <1>2
<1> QED
  BY InitType, TypeStep, InitOrder, OrderStep, <1>1, PolicyStep, <1>3, PTL DEF Spec, SidecarNamesItsBranch
=============================================================================
