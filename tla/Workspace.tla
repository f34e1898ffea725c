----------------------------- MODULE Workspace -----------------------------
(***************************************************************************)
(* The owner's repository as the owner's commands use it (gitutil.py, the  *)
(* _prepare_workdir of plan.py, propose.py and diagnose.py): branches,     *)
(* working trees and what is loose in them.                                *)
(*                                                                         *)
(* A tree maps each path, a file or a class of files the code treats       *)
(* alike, to its content: 0 for the original, -1 for the owner's, c for    *)
(* what command c wrote.  Tree 0 is the owner's root, tree c the worktree  *)
(* of command c; branch 0 is main, branch c the one made for command c.    *)
(***************************************************************************)
EXTENDS Integers, FiniteSets

CONSTANTS
  Commands,     \* 1..n: the commands the owner starts
  Paths,
  Bookkeeping   \* the paths of RUNNER_BOOKKEEPING

Root == 0
Main == 0
Owner == -1

VARIABLES
  isolation,    \* [git] isolation: "none", "branch" or "worktree"
  head,         \* the branch checked out in the root
  commits,      \* the content at the tip of each branch
  tree          \* the content of each working tree

gitVars == <<isolation, head, commits, tree>>

Blank == [p \in Paths |-> 0]

Clean ==
  /\ isolation \in {"none", "branch", "worktree"}
  /\ head = Main
  /\ commits = [b \in Commands \cup {Main} |-> Blank]
  /\ tree = [t \in Commands \cup {Root} |-> Blank]

\* Mutant: the command is given the root, whatever the isolation.
WorkdirInRoot(c) == Root

Workdir(c) == IF isolation = "worktree" THEN c ELSE Root

BranchOf(t) == IF t = Root THEN head ELSE t

Write(files, P, content) == [p \in Paths |-> IF p \in P THEN content ELSE files[p]]

Differing(files, others) == {p \in Paths : files[p] # others[p]}

\* Mutant: the branch is made, and the root stays on its own.
PrepareUncheckedOut(c, branches) ==
  /\ commits' = IF branches \/ isolation # "none"
                THEN [commits EXCEPT ![c] = commits[head]] ELSE commits
  /\ tree' = IF isolation = "worktree"
             THEN [tree EXCEPT ![c] = commits[head]] ELSE tree
  /\ UNCHANGED head

\* A branch from HEAD, checked out in the root or in a worktree of its own.
\* propose makes the branch with isolation "none" too and stays where it is.
Prepare(c, branches) ==
  /\ commits' = IF branches \/ isolation # "none"
                THEN [commits EXCEPT ![c] = commits[head]] ELSE commits
  /\ head' = IF isolation = "branch" THEN c ELSE head
  /\ tree' = IF isolation = "worktree"
             THEN [tree EXCEPT ![c] = commits[head]] ELSE tree

\* What checkpoint(t) would leave at the tip: everything loose but the files
\* that the runner keeps for itself.
Added(t) ==
  [p \in Paths |-> IF p \in Bookkeeping THEN commits[BranchOf(t)][p] ELSE tree[t][p]]

Checkpointed(t) == [commits EXCEPT ![BranchOf(t)] = Added(t)]

\* changed_paths_since and lint's diff: what the tip has that base had not.
ChangedSince(base, t) == Differing(base, commits[BranchOf(t)])

----------------------------------------------------------------------------
(* The owner.                                                              *)

Edit(p) ==
  /\ tree[Root][p] # Owner
  /\ tree' = [tree EXCEPT ![Root][p] = Owner]
  /\ UNCHANGED <<isolation, head, commits>>

\* git checkout main: it carries what is loose, and refuses to overwrite it; the
\* paths in file are parts of one file.
CheckoutMain(file) ==
  LET loose == Differing(tree[Root], commits[head])
      moved == Differing(commits[head], commits[Main])
  IN  /\ head # Main
      /\ loose \cap moved = {}
      /\ file \cap loose = {} \/ file \cap moved = {}
      /\ head' = Main
      /\ tree' = [tree EXCEPT ![Root] =
           [p \in Paths |-> IF p \in moved THEN commits[Main][p] ELSE tree[Root][p]]]
      /\ UNCHANGED <<isolation, commits>>
=============================================================================
