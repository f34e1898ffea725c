--------------------------- MODULE OwnerCommands ---------------------------
(***************************************************************************)
(* The commands that start one session at the owner's request: kelix plan, *)
(* kelix propose, kelix diagnose, and the distillation that ends a run or  *)
(* a fleet.  Each prepares a branch, lets the session work there, compares *)
(* what it did with a fence of paths, and publishes a file in the root.    *)
(*                                                                         *)
(* QUESTIONS.md of the planned goal is three paths of the root:            *)
(* "questions" is the command whose interview wrote it, "answers" is that  *)
(* command again when every answer line is filled in, and "partial" is it  *)
(* when some are.  "context" (CONTEXT.md) is the interview whose decisions *)
(* it lists.                                                               *)
(***************************************************************************)
EXTENDS Workspace, Sequences, SequencesExt

CONSTANTS
  Candidates,   \* skill files under _proposed/, in the order of their names
  Cap,          \* MAX_DISTILL_CANDIDATES
  MaxEdits      \* bound: paths one session edits

VARIABLES
  cmd,          \* each command: kind, pc and locals
  answered      \* history: <<who, interview>> when "owner" or "agent" left no question open

vars == <<gitVars, cmd, answered>>

Kinds == {"plan", "propose", "diagnose", "run", "fleet"}
Ended == {"idle", "completed", "validation_failed", "error", "awaiting_answers", "dead"}
Skills == ToSet(Candidates)

\* What a session may edit: planning files, policy files, candidates, the rest.
Editable == {"plan", "policy", "code"} \cup Skills

\* What the commands themselves write in the root.
QuestionsFile == {"questions", "answers", "partial"}
Published == QuestionsFile \cup {"context", "sidecar", "diagnosis", "runs"}

ASSUME OwnerAssumption ==
  /\ Commands \subseteq Nat \ {0}
  /\ Editable \cup Published \subseteq Paths
  /\ Skills \cap (Published \cup {"plan", "policy", "code"}) = {}
  /\ Bookkeeping \cap (Editable \cup QuestionsFile) = {}

\* The paths a command may change.
Fence(kind) ==
  CASE kind = "plan" -> QuestionsFile \cup {"plan", "context"}
    [] kind = "propose" -> {"policy"}
    [] kind = "diagnose" -> Paths
    [] OTHER -> Skills

\* asked: this command held the interview.  read: the partial and the complete
\* answers it found in the questions file.  decisions: the interview whose answers are in the goal.
\* good: the session ended well, with the line the command asks for.
Started(kind, pc, tty) ==
  [kind |-> kind, pc |-> pc, tty |-> tty, asked |-> FALSE,
   read |-> <<0, 0>>, decisions |-> 0, base |-> Blank, good |-> FALSE]

NoCommand == Started("none", "idle", FALSE)

Init ==
  /\ Clean
  /\ cmd = [c \in Commands |-> NoCommand]
  /\ answered = {}

At(c, kind, pc) == cmd[c].kind = kind /\ cmd[c].pc = pc

\* A command that ended forgets what it compared with.
Moved(r, pc) ==
  IF pc \in Ended
  THEN [kind |-> r.kind, pc |-> pc, tty |-> FALSE, asked |-> r.asked,
        read |-> <<0, 0>>, decisions |-> r.decisions, base |-> Blank, good |-> FALSE]
  ELSE [r EXCEPT !.pc = pc]

Go(c, pc) == cmd' = [cmd EXCEPT ![c] = Moved(@, pc)]

Place(c) == IF cmd[c].kind = "fleet" THEN Root ELSE Workdir(c)

\* The session edits the paths E and commits all of them or none.  Its
\* transcript goes to the root.
Session(c, next) ==
  \E E \in {X \in SUBSET Editable : Cardinality(X) <= MaxEdits},
     commit \in BOOLEAN, good \in BOOLEAN :
       LET t == Place(c)
           b == BranchOf(t)
       IN  /\ tree' = [[tree EXCEPT ![t] = Write(@, E, c)]
                        EXCEPT ![Root] = Write(@, {"runs"}, c)]
           /\ commits' = IF commit THEN [commits EXCEPT ![b] = Write(@, E, c)] ELSE commits
           /\ cmd' = [cmd EXCEPT ![c].pc = next, ![c].good = good]
           /\ UNCHANGED <<isolation, head, answered>>

\* make_adapter's command is missing or cannot be started.
AdapterError(c) ==
  /\ Go(c, "error")
  /\ UNCHANGED <<gitVars, answered>>

\* The pre-session checkpoint, and the tip the fence will compare with.
Rebase(c, pc) ==
  /\ commits' = Checkpointed(Place(c))
  /\ cmd' = [cmd EXCEPT ![c].pc = pc, ![c].base = commits'[BranchOf(Place(c))]]
  /\ UNCHANGED <<isolation, head, tree, answered>>

\* One command at a time where they share the root's tree.
Begin(c, kind) ==
  /\ cmd[c].pc = "idle"
  /\ \A d \in Commands : d < c => cmd[d].pc # "idle"
  /\ isolation = "worktree" \/ \A d \in Commands : cmd[d].pc \in Ended
  /\ \E tty \in IF kind = "plan" THEN BOOLEAN ELSE {FALSE} :
       cmd' = [cmd EXCEPT ![c] = Started(kind, "begun", tty)]
  /\ IF kind = "fleet" THEN UNCHANGED <<head, commits, tree>>
     ELSE Prepare(c, kind \in {"propose", "run"})
  /\ UNCHANGED <<isolation, answered>>

InRoot(p) == tree[Root][p]

\* Every answer line of the questions file is filled in.
IsAnswered == InRoot("questions") # 0 /\ InRoot("answers") = InRoot("questions")

WriteRoot(P, content) == tree' = [tree EXCEPT ![Root] = Write(@, P, content)]

\* What answers the questions file has: none, some or all.
Given == <<InRoot("partial"), InRoot("answers")>>

\* The file with the questions of interview i; some is {} or names what is given.
WriteQuestions(i, some) ==
  tree' = [tree EXCEPT ![Root] = Write(Write(@, QuestionsFile, 0), {"questions"} \cup some, i)]

----------------------------------------------------------------------------
(* kelix plan.                                                             *)

\* The command remembers which interview the questions are of, and what answers
\* it found.
Found(c, pc, interview) ==
  cmd' = [cmd EXCEPT ![c].pc = pc, ![c].decisions = interview, ![c].read = Given]

\* Mutant: only the existence of the file is asked for.
PlanReadsAny(c) ==
  /\ At(c, "plan", "begun")
  /\ IF InRoot("questions") # 0
     THEN WriteRoot({"context"}, InRoot("questions")) /\ Found(c, "draft", InRoot("questions"))
     ELSE Found(c, "interview", 0) /\ UNCHANGED tree
  /\ UNCHANGED <<isolation, head, commits, answered>>

\* Mutant: answers are not looked for, every plan holds its own interview.
PlanAsksAgain(c) ==
  /\ At(c, "plan", "begun")
  /\ Found(c, "interview", 0)
  /\ UNCHANGED <<gitVars, answered>>

\* The questions file decides what comes next: draft from its answers, show it
\* to the owner at the terminal, wait for its answers, or hold the interview.
PlanReads(c) ==
  /\ At(c, "plan", "begun")
  /\ \/ /\ IsAnswered
        /\ WriteRoot({"context"}, InRoot("questions"))
        /\ Found(c, "draft", InRoot("questions"))
     \/ /\ InRoot("questions") # 0 /\ ~IsAnswered
        /\ Found(c, IF cmd[c].tty THEN "terminal" ELSE "awaiting_answers", InRoot("questions"))
        /\ UNCHANGED tree
     \/ /\ InRoot("questions") = 0
        /\ Found(c, "interview", 0)
        /\ UNCHANGED tree
  /\ UNCHANGED <<isolation, head, commits, answered>>

Interview(c) ==
  /\ At(c, "plan", "interview")
  /\ Session(c, "questions") \/ AdapterError(c)

AfterInterview(c) ==
  IF ~cmd[c].good THEN "error" ELSE IF cmd[c].tty THEN "terminal" ELSE "ask"

\* A failed session, a missing block or an invalid question ends the command.
InterviewEnds(c) ==
  /\ At(c, "plan", "questions")
  /\ cmd' = [cmd EXCEPT ![c].pc = AfterInterview(c), ![c].asked = TRUE, ![c].decisions = c]
  /\ UNCHANGED <<gitVars, answered>>

\* present_questions_tty asks every question, whatever answers there are, then
\* CONTEXT.md ...
Terminal(c) ==
  /\ At(c, "plan", "terminal")
  /\ answered' = answered \cup {<<"owner", cmd[c].decisions>>}
  /\ WriteRoot({"context"}, cmd[c].decisions)
  /\ Go(c, "record")
  /\ UNCHANGED <<isolation, head, commits>>

\* ... then QUESTIONS.md, which write_text cuts first and fills then.  A file that
\* is cut is read as one without questions.
Cut(c) ==
  /\ \/ At(c, "plan", "ask") /\ Go(c, "asking")
     \/ At(c, "plan", "record") /\ Go(c, "recording")
  /\ WriteQuestions(0, {})
  /\ UNCHANGED <<isolation, head, commits, answered>>

\* Without a terminal the questions are for the owner to answer, with the `answer:`
\* lines that the agent's own block filled in, which may be all of them.
Asked(c) ==
  /\ At(c, "plan", "asking") /\ Go(c, "awaiting_answers")
  /\ \E some \in {{}, {"partial"}, {"answers"}} :
       /\ WriteQuestions(c, some)
       /\ answered' = IF some = {"answers"} THEN answered \cup {<<"agent", c>>} ELSE answered
  /\ UNCHANGED <<isolation, head, commits>>

\* From the terminal come the new answers only.
Recorded(c) ==
  /\ At(c, "plan", "recording") /\ Go(c, "draft")
  /\ WriteQuestions(cmd[c].decisions, {"answers"})
  /\ UNCHANGED <<isolation, head, commits, answered>>

\* Mutant: the fence starts where the session ended.
DraftRebased(c) ==
  /\ At(c, "plan", "check")
  /\ commits' = Checkpointed(Workdir(c))
  /\ \E rules \in BOOLEAN : Go(c, IF cmd[c].good /\ rules THEN "completed" ELSE "validation_failed")
  /\ UNCHANGED <<isolation, head, tree, answered>>

\* validate_plan: the rules about roadmap and backlog, whose verdict is free, and
\* the fence.
Validates(touched, rules) == rules /\ touched \subseteq Fence("plan")

\* Checkpoint, validate_plan, and the verdict.
Draft(c) ==
  /\ At(c, "plan", "check")
  /\ LET t == Workdir(c)
         touched == Differing(cmd[c].base, Checkpointed(t)[BranchOf(t)])
     IN  \E rules \in BOOLEAN :
           LET valid == Validates(touched, rules)
           IN  /\ commits' = Checkpointed(t)
               /\ Go(c, IF ~valid THEN "validation_failed"
                        ELSE IF cmd[c].good /\ touched # {} THEN "completed" ELSE "error")
  /\ UNCHANGED <<isolation, head, tree, answered>>

Plan(c) ==
  \/ PlanReads(c)
  \/ Interview(c) \/ InterviewEnds(c) \/ Terminal(c) \/ Cut(c) \/ Asked(c) \/ Recorded(c)
  \/ At(c, "plan", "draft") /\ Rebase(c, "session")
  \/ At(c, "plan", "session") /\ (Session(c, "check") \/ AdapterError(c))
  \/ Draft(c)

----------------------------------------------------------------------------
(* kelix propose.                                                          *)

\* Checkpoint, fence, verdict; only a valid proposal gets its sidecar, in the
\* workdir and in the root.
Publish(c) ==
  /\ At(c, "propose", "check")
  /\ LET t == Workdir(c)
         touched == Differing(cmd[c].base, Checkpointed(t)[BranchOf(t)])
     IN  /\ commits' = Checkpointed(t)
         /\ IF cmd[c].good /\ touched # {} /\ touched \subseteq Fence("propose")
            THEN /\ Go(c, "completed")
                 /\ tree' = [u \in DOMAIN tree |->
                      IF u \in {Root, t} THEN Write(tree[u], {"sidecar"}, c) ELSE tree[u]]
            ELSE Go(c, "validation_failed") /\ UNCHANGED tree
  /\ UNCHANGED <<isolation, head, answered>>

Propose(c) ==
  \/ At(c, "propose", "begun") /\ Rebase(c, "session")
  \/ At(c, "propose", "session") /\ (Session(c, "check") \/ AdapterError(c))
  \/ Publish(c)

----------------------------------------------------------------------------
(* kelix diagnose: no checkpoint and no fence.                             *)

\* The session wrote a valid diagnosis or not; a completed one is in the root.
Diagnosis(c) ==
  /\ At(c, "diagnose", "check")
  /\ \E written \in BOOLEAN :
       LET ok == written /\ cmd[c].good
           places == (IF written THEN {Workdir(c)} ELSE {}) \cup (IF ok THEN {Root} ELSE {})
       IN  /\ tree' = [u \in DOMAIN tree |->
                IF u \in places THEN Write(tree[u], {"diagnosis"}, c) ELSE tree[u]]
           /\ Go(c, IF ok THEN "completed" ELSE IF written THEN "error" ELSE "validation_failed")
  /\ UNCHANGED <<isolation, head, commits, answered>>

Diagnose(c) ==
  \/ At(c, "diagnose", "begun") /\ (Session(c, "check") \/ AdapterError(c))
  \/ Diagnosis(c)

----------------------------------------------------------------------------
(* Distillation, in the tree of a run or, after a fleet, in the root.      *)

Distills(c, pc) == cmd[c].kind \in {"run", "fleet"} /\ cmd[c].pc = pc

\* enforce_skill_cap: of the candidates in the tree the first Cap by name stay.
Capped(files) ==
  LET found == {i \in DOMAIN Candidates : files[Candidates[i]] # 0}
      beyond == {i \in found : Cardinality({j \in found : j < i}) >= Cap}
  IN  Write(files, {Candidates[i] : i \in beyond}, 0)

\* The retrospective has checkpointed a run's tree; the root of a fleet is as
\* the owner left it.
Distill(c) ==
  /\ Distills(c, "begun")
  /\ IF cmd[c].kind = "run" THEN Rebase(c, "session")
     ELSE /\ cmd' = [cmd EXCEPT ![c].pc = "session", ![c].base = commits[head]]
          /\ UNCHANGED <<gitVars, answered>>

\* The fence compares commits only; what passes is capped and committed with
\* everything else that is loose.
Distilled(c) ==
  /\ Distills(c, "check")
  /\ LET t == Place(c)
         capped == [tree EXCEPT ![t] = Capped(@)]
         names == {p \in Skills : capped[t][p] # 0}
     IN  IF ~cmd[c].good THEN Go(c, "error") /\ UNCHANGED <<commits, tree>>
         ELSE IF ~(ChangedSince(cmd[c].base, t) \subseteq Skills)
         THEN Go(c, "validation_failed") /\ UNCHANGED <<commits, tree>>
         ELSE /\ Go(c, "completed")
              /\ tree' = capped
              /\ commits' = IF names = {} THEN commits
                            ELSE [commits EXCEPT ![BranchOf(t)] =
                                    [p \in Paths |-> IF p \in Bookkeeping THEN @[p] ELSE capped[t][p]]]
  /\ UNCHANGED <<isolation, head, answered>>

Distillation(c) ==
  \/ Distill(c)
  \/ Distills(c, "session") /\ (Session(c, "check") \/ AdapterError(c))
  \/ Distilled(c)

----------------------------------------------------------------------------
(* The owner, and deaths.                                                  *)

\* The owner fills in some of the questions file, or all that is left of it.
Answer ==
  /\ InRoot("questions") # 0 /\ ~IsAnswered
  /\ \/ WriteQuestions(InRoot("questions"), {"partial"}) /\ UNCHANGED answered
     \/ /\ WriteQuestions(InRoot("questions"), {"answers"})
        /\ answered' = answered \cup {<<"owner", InRoot("questions")>>}
  /\ UNCHANGED <<isolation, head, commits, cmd>>

\* The owner stays on the branch while a command works in the root.
OwnerActs ==
  \/ Answer
  \/ Edit("code") /\ UNCHANGED <<cmd, answered>>
  \/ /\ \A c \in Commands : cmd[c].pc \in Ended \/ Place(c) # Root
     /\ CheckoutMain(QuestionsFile) /\ UNCHANGED <<cmd, answered>>

Die(c) ==
  /\ cmd[c].pc \notin Ended
  /\ Go(c, "dead")
  /\ UNCHANGED <<gitVars, answered>>

Command(c) ==
  \/ \E kind \in Kinds : Begin(c, kind)
  \/ Plan(c) \/ Propose(c) \/ Diagnose(c) \/ Distillation(c)
  \/ Die(c)

Next == OwnerActs \/ \E c \in Commands : Command(c)

Spec == Init /\ [][Next]_vars

----------------------------------------------------------------------------
\* A plan command overwrites answers, partial or complete, only when they were
\* given after it read the questions file: run again and again, it never throws
\* away what the owner wrote (plan.py, PlanRunner.run).  Excepted is a plan at the
\* terminal that found the file partly filled in: it asks the owner every question
\* again and keeps none of the answers it found; if it dies while it writes the
\* file, none at all are left.  Answers that a checkpoint committed leave the root
\* with their branch.
AnswersAreKept ==
  [][ \/ Given = <<0, 0>> \/ Given' = Given
      \/ Given' = <<0, InRoot("partial")>>
      \/ \E b \in DOMAIN commits : <<commits[b]["partial"], commits[b]["answers"]>> = Given
      \/ \E c \in Commands :
           /\ cmd[c].kind = "plan" /\ cmd'[c].pc # cmd[c].pc
           /\ \/ cmd[c].read # Given
              \/ /\ cmd[c].pc \in {"record", "recording"}
                 /\ <<"owner", cmd[c].decisions>> \in answered
                 /\ InRoot("answers") = 0 ]_vars

\* No plan is drafted before the owner answered the questions whose answers are
\* in its goal, in whichever command, at the terminal or in the file, and
\* whatever died in between (plan.py, _run_draft's callers).  Excepted are the
\* questions of an earlier interview without a terminal whose agent filled in
\* every `answer:` line of its block: nothing tells them from the owner's answers.
DraftIsDecided ==
  \A c \in Commands :
    cmd[c].kind = "plan" /\ cmd[c].pc \in {"draft", "session", "check", "completed"}
      => \/ <<"owner", cmd[c].decisions>> \in answered
         \/ ~cmd[c].asked /\ <<"agent", cmd[c].decisions>> \in answered

\* What the session of a completed plan or proposal wrote outside the paths of
\* its command is on no branch (lint.py, _planning_only_changes; propose.py,
\* validate_propose_diff).  A plan that held its interview in the same command
\* is excepted: what the interview edits is committed before the comparison, and
\* so passes, code included.
CompletedIsFenced ==
  \A c \in Commands, b \in DOMAIN commits :
    cmd[c].pc = "completed" /\ cmd[c].kind \in {"plan", "propose"} /\ ~cmd[c].asked
      => \A p \in Editable : commits[b][p] = c => p \in Fence(cmd[c].kind)

\* Unless it worked in place, a proposal that completes has its sidecar in the root
\* and its edits on the branch that the sidecar names, whatever else ran at the
\* same time (propose.py, write_proposal_sidecar).
SidecarNamesItsBranch ==
  [][ \A c \in Commands :
        /\ isolation # "none"
        /\ cmd[c].kind = "propose" /\ cmd[c].pc # "completed" /\ cmd'[c].pc = "completed"
        => /\ tree'[Root]["sidecar"] = c
           /\ \E p \in Fence("propose") : commits'[c][p] = c ]_vars

\* With the default isolation nothing that a session edits reaches main
\* (docs/SECURITY.md:83-87), except by the distillation after a fleet, which
\* works in the root and commits whatever is loose there.
SessionsStayOffMain ==
  isolation = "worktree" =>
    \A p \in Editable : \A c \in Commands :
      commits[Main][p] = c => cmd[c].kind = "fleet"
=============================================================================
