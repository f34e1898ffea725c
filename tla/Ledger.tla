------------------------------- MODULE Ledger -------------------------------
(***************************************************************************)
(* loop-metrics.json (metrics.py): every run merges its rows when it ends, *)
(* a fleet its summary after its agents, and the owner records and grades  *)
(* proposals.  Each is a load, a change and a save of the whole file, with *)
(* no lock, in a thread or process of its own; a read that fails yields an *)
(* empty ledger, and a save truncates the file before it writes.           *)
(***************************************************************************)
EXTENDS Integers, SequencesExt

CONSTANTS
  Runs,         \* the runs, named by their run ids
  FleetRuns,    \* those that are the agents of one fleet
  RunRows,      \* the rows a run may end with, without their run id
  Skills,       \* names of injected skills
  Proposals,    \* ids of tuning proposals
  Window,       \* PROPOSAL_WINDOW_SIZE
  MinPost,      \* PROPOSAL_MIN_POST_RUNS
  MaxCommands,  \* bound: commands of the owner
  MaxFaults,    \* bound: reads and saves that fail, runs that die
  None          \* no run id

Verdicts == {"yes", "no", "none"}

RowRecord == [task : BOOLEAN, verified : Verdicts, retry : Nat, cause : BOOLEAN,
              skills : SUBSET Skills]

ASSUME LedgerAssumption ==
  /\ FleetRuns \subseteq Runs
  /\ {None, "main", "owner"} \cap Runs = {}
  /\ RunRows \subseteq Seq(RowRecord)
  /\ {Window, MinPost} \subseteq Nat \ {0}
  /\ {MaxCommands, MaxFaults} \subseteq Nat

VARIABLES
  ledger,       \* what a load yields
  pc,           \* writer -> "run", "merge", "loaded", "cut" or how it ended
  doc,          \* writer -> the document it loaded and changed
  rows,         \* run -> result.ledger_rows
  commands,     \* commands of the owner so far
  faults,       \* faults so far
  merged,       \* runs, and "main" for the fleet, whose append returned (history)
  hurt          \* two writers overlapped, a read failed or a save was cut short (history)

vars == <<ledger, pc, doc, rows, commands, faults, merged, hurt>>

Writers == Runs \cup {"main", "owner"}

----------------------------------------------------------------------------
(* What is computed from the rows.                                         *)

\* A rate is a fraction; no scored row is a rate of 0.
Rate(part, all) == IF all = 0 THEN <<0, 1>> ELSE <<part, all>>

Below(r, s) == r[1] * s[2] < s[1] * r[2]

Count(s, Test(_)) == Len(SelectSeq(s, Test))

Scored(row) == row.verified # "none"

Green(row) == row.verified = "yes"

VerifiedRate(s) == Rate(Count(s, Green), Count(s, Scored))

\* Per skill the verified rate of rows on a task with and without it.
Efficacy(s) ==
  LET on(row) == row.task
      tasked == SelectSeq(s, on)
  IN  [k \in UNION {s[n].skills : n \in DOMAIN s} |->
         LET with(row) == k \in row.skills
             without(row) == k \notin row.skills
         IN  [with |-> VerifiedRate(SelectSeq(tasked, with)),
              without |-> VerifiedRate(SelectSeq(tasked, without)),
              matched |-> Count(tasked, Scored)]]

\* Run ids in the order in which they were appended.
RunIds(s) ==
  LET ids[n \in 0..Len(s)] ==
        IF n = 0 THEN <<>>
        ELSE LET before == ids[n - 1]
             IN  IF Contains(before, s[n].run) THEN before ELSE Append(before, s[n].run)
  IN  ids[Len(s)]

\* Mutant: the boundary run counts as after the merge as well.
WindowsSharingBoundary(s, boundary) ==
  LET ids == RunIds(s)
      at == SelectInSeq(ids, LAMBDA id : id = boundary)
      upTo(n) == IF n < Len(ids) THEN n ELSE Len(ids)
      from(n) == IF n > 1 THEN n ELSE 1
  IN  IF at = 0 THEN [before |-> <<>>, after |-> <<>>]
      ELSE [before |-> SubSeq(ids, from(at - Window + 1), at),
            after |-> SubSeq(ids, at, upTo(at + Window - 1))]

\* The runs up to the boundary run and those that follow it.
Windows(s, boundary) ==
  LET ids == RunIds(s)
      at == SelectInSeq(ids, LAMBDA id : id = boundary)
      upTo(n) == IF n < Len(ids) THEN n ELSE Len(ids)
      from(n) == IF n > 1 THEN n ELSE 1
  IN  IF at = 0 THEN [before |-> <<>>, after |-> <<>>]
      ELSE [before |-> SubSeq(ids, from(at - Window + 1), at),
            after |-> SubSeq(ids, at + 1, upTo(at + Window))]

RowsOf(s, ids) ==
  LET in(row) == Contains(ids, row.run) IN SelectSeq(s, in)

Stats(s) ==
  LET tripped(row) == row.cause
  IN  [verified |-> VerifiedRate(s),
       retry |-> Rate(FoldLeft(LAMBDA n, row : n + row.retry, 0, s), Len(s)),
       breaker |-> Rate(Count(s, tripped), Len(s))]

Compare(b, a) ==
  LET worse == Below(b.retry, a.retry) \/ Below(b.breaker, a.breaker)
  IN  IF Below(b.verified, a.verified) /\ ~worse THEN "improved"
      ELSE IF Below(a.verified, b.verified) \/ worse THEN "regressed"
      ELSE "inconclusive"

Grade(s, boundary) ==
  LET w == Windows(s, boundary)
  IN  IF boundary = None \/ Len(w.after) < MinPost THEN "inconclusive"
      ELSE Compare(Stats(RowsOf(s, w.before)), Stats(RowsOf(s, w.after)))

----------------------------------------------------------------------------
(* The document and the file.                                              *)

NoOutcome == [state |-> "absent", boundary |-> None, grade |-> "inconclusive"]

Empty == [iterations |-> <<>>, summaries |-> <<>>,
          outcomes |-> [p \in Proposals |-> NoOutcome], efficacy |-> [k \in {} |-> {}]]

\* Mutant: the efficacy is computed before the rows are added.
AppendedLate(d, s, summaries) ==
  [d EXCEPT !.iterations = @ \o s, !.summaries = @ \o summaries,
            !.efficacy = Efficacy(d.iterations)]

\* Mutant: the document starts from nothing instead of the file.
AppendedAnew(d, s, summaries) ==
  [Empty EXCEPT !.iterations = s, !.summaries = summaries, !.efficacy = Efficacy(s)]

\* append_run_metrics between its load and its save.
Appended(d, s, summaries) ==
  [d EXCEPT !.iterations = @ \o s, !.summaries = @ \o summaries,
            !.efficacy = Efficacy(d.iterations \o s)]

Init ==
  /\ ledger = Empty
  /\ pc = [w \in Writers |-> "run"]
  /\ doc = [w \in Writers |-> Empty]
  /\ rows = [r \in Runs |-> <<>>]
  /\ commands = 0 /\ faults = 0
  /\ merged = {} /\ hurt = FALSE

Busy == {w \in Writers : pc[w] \in {"loaded", "cut"}}

\* load_metrics yields what is in the file, or an empty ledger when the read fails.
Reads(d) ==
  \/ d = ledger /\ UNCHANGED faults
  \/ d = Empty /\ d # ledger /\ faults < MaxFaults /\ faults' = faults + 1

\* A load of d: the writer now has its changed copy e.
Hold(w, d, e) ==
  /\ Reads(d)
  /\ doc' = [doc EXCEPT ![w] = e]
  /\ pc' = [pc EXCEPT ![w] = "loaded"]
  /\ hurt' = (hurt \/ Busy # {} \/ d # ledger)

\* The rows carry the id of their run.
Stamped(r, s) ==
  [n \in DOMAIN s |-> [run |-> r, task |-> s[n].task, verified |-> s[n].verified,
     retry |-> s[n].retry, cause |-> s[n].cause, skills |-> s[n].skills]]

\* The run's loop ends with its rows; a run without rows merges nothing.
RunEnds(r) ==
  /\ pc[r] = "run"
  /\ \E s \in RunRows :
       /\ rows' = [rows EXCEPT ![r] = Stamped(r, s)]
       /\ pc' = [pc EXCEPT ![r] = IF s = <<>> THEN "over" ELSE "merge"]
  /\ UNCHANGED <<ledger, doc, commands, faults, merged, hurt>>

\* The run raises; a fleet's worker has an error and no result for it.
RunDies(r) ==
  /\ pc[r] = "run" /\ faults < MaxFaults
  /\ faults' = faults + 1
  /\ pc' = [pc EXCEPT ![r] = "dead"]
  /\ UNCHANGED <<ledger, doc, rows, commands, merged, hurt>>

\* append_run_metrics of a run.
RunLoads(r) ==
  /\ pc[r] = "merge"
  /\ \E d \in {ledger, Empty} : Hold(r, d, Appended(d, rows[r], <<>>))
  /\ UNCHANGED <<ledger, rows, commands, merged>>

Results == {r \in FleetRuns : pc[r] # "dead"}

\* compute_fleet_summary of the rows of each agent with a result.
SummaryOf(result) ==
  LET all == FoldLeft(LAMBDA s, r : s \o result[r], <<>>, SetToSeq(DOMAIN result))
      tripped(r) == result[r] # <<>> /\ Last(result[r]).cause
  IN  [runs |-> DOMAIN result, iterations |-> Len(all),
       verified |-> Rate(Count(all, Green), Len(all)),
       trips |-> Cardinality({r \in DOMAIN result : tripped(r)})]

Summary == SummaryOf([r \in Results |-> rows[r]])

\* Mutant: the summary does not wait for the agents.
MainLoadsEarly ==
  /\ pc["main"] = "run"
  /\ \E r \in FleetRuns : pc[r] = "over"
  /\ \E d \in {ledger, Empty} : Hold("main", d, Appended(d, <<>>, <<Summary>>))
  /\ UNCHANGED <<ledger, rows, commands, merged>>

\* Mutant: the summary's append adds the agents' rows as well.
MainLoadsRows ==
  /\ pc["main"] = "run"
  /\ \A r \in FleetRuns : pc[r] \in {"over", "dead"}
  /\ Results # {}
  /\ Hold("main", ledger,
          Appended(ledger, FoldLeft(LAMBDA s, r : s \o rows[r], <<>>, SetToSeq(Results)),
                   <<Summary>>))
  /\ UNCHANGED <<ledger, rows, commands, merged>>

\* run_fleet appends its summary when every agent's thread has ended.
MainLoads ==
  /\ pc["main"] = "run"
  /\ \A r \in FleetRuns : pc[r] \in {"over", "dead"}
  /\ Results # {}
  /\ \E d \in {ledger, Empty} : Hold("main", d, Appended(d, <<>>, <<Summary>>))
  /\ UNCHANGED <<ledger, rows, commands, merged>>

----------------------------------------------------------------------------
(* The owner's commands.                                                   *)

DefaultBoundary(s) == IF s = <<>> THEN None ELSE Last(RunIds(s))

\* record_proposal_outcome replaces what was recorded before.
Recorded(d, p, state, at) ==
  LET boundary == IF at # None THEN at ELSE d.outcomes[p].boundary
  IN  [d EXCEPT !.outcomes[p] =
         [state |-> state, boundary |-> boundary,
          grade |-> IF state = "merged" THEN Grade(d.iterations, boundary) ELSE "inconclusive"]]

\* kelix propose --merge-sha or --close-reason, with or without a run id.
Record(p) ==
  \E state \in {"merged", "closed"}, given \in Runs \cup {None}, d \in {ledger, Empty} :
    LET at == IF given # None THEN given ELSE DefaultBoundary(d.iterations)
    IN  Hold("owner", d, Recorded(d, p, state, at))

\* kelix metrics grade-proposal; an unknown proposal is an error.
Regrade(p) ==
  \E d \in {ledger, Empty} :
    /\ d.outcomes[p].state # "absent"
    /\ Hold("owner", d, [d EXCEPT !.outcomes[p].grade =
                           Grade(d.iterations, d.outcomes[p].boundary)])

OwnerLoads ==
  /\ pc["owner"] = "run" /\ commands < MaxCommands
  /\ commands' = commands + 1
  /\ \E p \in Proposals : Record(p) \/ Regrade(p)
  /\ UNCHANGED <<ledger, rows, merged>>

----------------------------------------------------------------------------
(* Saving.                                                                 *)

\* write_text opens the file for writing, which truncates it; load_metrics takes
\* a file that is missing or does not parse for an empty ledger.
Truncate(w) ==
  /\ pc[w] = "loaded"
  /\ pc' = [pc EXCEPT ![w] = "cut"]
  /\ ledger' = Empty
  /\ UNCHANGED <<doc, rows, commands, faults, merged, hurt>>

Left(w) == IF w = "owner" THEN "run" ELSE "over"

Write(w) ==
  /\ pc[w] = "cut"
  /\ ledger' = doc[w]
  /\ pc' = [pc EXCEPT ![w] = Left(w)]
  /\ doc' = [doc EXCEPT ![w] = Empty]
  /\ merged' = merged \cup ({w} \ {"owner"})
  /\ UNCHANGED <<rows, commands, faults, hurt>>

\* The save fails, which no run is told of, or its process dies.
SaveFails(w) ==
  /\ w \in Busy /\ faults < MaxFaults
  /\ faults' = faults + 1
  /\ pc' = [pc EXCEPT ![w] = Left(w)]
  /\ doc' = [doc EXCEPT ![w] = Empty]
  /\ hurt' = (hurt \/ pc[w] = "cut")
  /\ UNCHANGED <<ledger, rows, commands, merged>>

Save == \E w \in Writers : Truncate(w) \/ Write(w) \/ SaveFails(w)

Next ==
  \/ \E r \in Runs : RunEnds(r) \/ RunDies(r) \/ RunLoads(r)
  \/ MainLoads \/ OwnerLoads \/ Save

Spec == Init /\ [][Next]_vars

----------------------------------------------------------------------------
(* Properties.                                                             *)

\* Whatever is lost, a run is in the ledger with all its rows, in their order,
\* next to each other and once, or it is not in it at all: windows and rates
\* are never taken over half a run (metrics.py, append_run_metrics).
RowsComeWhole ==
  \A r \in {ledger.iterations[n].run : n \in DOMAIN ledger.iterations} :
      LET at == {n \in DOMAIN ledger.iterations : ledger.iterations[n].run = r}
          first == CHOOSE n \in at : \A m \in at : n <= m
      IN  /\ Cardinality(at) = Len(rows[r])
          /\ SubSeq(ledger.iterations, first, first + Len(rows[r]) - 1) = rows[r]

\* The rows of a run and the summary of a fleet that were merged are in the file
\* unless two writers overlapped, a read failed, which load_metrics takes for an
\* empty ledger that the next save makes permanent, or a save was cut short: one
\* after the other, as a solo run and the owner are, they all stay
\* (docs/memory-and-skills.md:196).
LossHasACause ==
  ~hurt /\ (\A w \in Writers : pc[w] # "cut") =>
    /\ merged \cap Runs = {ledger.iterations[n].run : n \in DOMAIN ledger.iterations}
    /\ "main" \in merged <=> ledger.summaries # <<>>

\* The efficacy in the file is that of the rows in the file, in whatever order
\* agents, fleet and owner saved it (docs/memory-and-skills.md:272).
EfficacyIsCurrent == ledger.efficacy = Efficacy(ledger.iterations)

\* A fleet's summary is there once and is about every agent that had a result,
\* with all its rows, even when the rows themselves were lost (fleet.py,
\* compute_fleet_summary).
SummaryIsFinal ==
  /\ Len(ledger.summaries) <= 1
  /\ \A n \in DOMAIN ledger.summaries : ledger.summaries[n] = Summary

\* The two windows of a proposal do not meet: all rows of the runs before the
\* merge come before all rows of the runs after it (DECISIONS.md:187).
WindowsAreApart ==
  \A p \in Proposals :
    LET s == ledger.iterations
        w == Windows(s, ledger.outcomes[p].boundary)
    IN  \A m, n \in DOMAIN s :
          Contains(w.before, s[m].run) /\ Contains(w.after, s[n].run) => m < n
=============================================================================
