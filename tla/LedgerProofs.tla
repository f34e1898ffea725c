---------------------------- MODULE LedgerProofs ----------------------------
(***************************************************************************)
(* Theorems about Ledger, for any runs, fleets, rows, proposals, windows,  *)
(* commands and faults.                                                    *)
(***************************************************************************)
EXTENDS Ledger, SequenceTheorems, FiniteSetTheorems, Inductions, TLAPS

\* A row in the file.
RunRow == [run : Runs, task : BOOLEAN, verified : Verdicts, retry : Nat, cause : BOOLEAN,
           skills : SUBSET Skills]

\* The runs with rows in s.
Names(s) == {s[n].run : n \in DOMAIN s}

IsDocument(d) ==
  /\ d = [iterations |-> d.iterations, summaries |-> d.summaries,
          outcomes |-> d.outcomes, efficacy |-> d.efficacy]
  /\ d.iterations \in Seq(RunRow)
  /\ d.efficacy = Efficacy(d.iterations)

Positions == {"run", "merge", "loaded", "cut", "over", "dead"}

DocInv ==
  /\ IsDocument(ledger)
  /\ DOMAIN doc = Writers
  /\ \A w \in Writers : IsDocument(doc[w])
  /\ pc \in [Writers -> Positions]
  /\ rows \in [Runs -> Seq(RunRow)]
  /\ \A r \in Runs : pc[r] # "merge" \/ Names(rows[r]) = {r}

\* As long as nothing hurt the file: one writer at a time, which adds its own run.
LossInv ==
  ~hurt =>
    /\ \A v, w \in Busy : v = w
    /\ (\A w \in Writers : pc[w] # "cut") => merged \cap Runs = Names(ledger.iterations)
    /\ \A w \in Busy : Names(doc[w].iterations) = (merged \cup {w}) \cap Runs

LEMMA NamesOfBoth ==
  ASSUME NEW s \in Seq(RunRow), NEW t \in Seq(RunRow)
  PROVE  s \o t \in Seq(RunRow) /\ Names(s \o t) = Names(s) \cup Names(t)
<1>1. s \o t \in Seq(RunRow) /\ Len(s \o t) = Len(s) + Len(t) /\ Len(s) \in Nat /\ Len(t) \in Nat
  OBVIOUS
<1>9. \A i \in 1..(Len(s) + Len(t)) :
        (s \o t)[i] = IF i <= Len(s) THEN s[i] ELSE t[i - Len(s)]
  BY ConcatProperties
<1>2. DOMAIN s = 1..Len(s) /\ DOMAIN t = 1..Len(t) /\ DOMAIN (s \o t) = 1..(Len(s) + Len(t))
  BY <1>1
<1>3. ASSUME NEW n \in DOMAIN s PROVE (s \o t)[n] = s[n] /\ n \in DOMAIN (s \o t)
  BY <1>1, <1>2, <1>9
<1>4. ASSUME NEW n \in DOMAIN t PROVE (s \o t)[Len(s) + n] = t[n] /\ Len(s) + n \in DOMAIN (s \o t)
  BY <1>1, <1>2, <1>9
<1>5. ASSUME NEW n \in DOMAIN (s \o t), n \notin DOMAIN s
      PROVE  n - Len(s) \in DOMAIN t /\ (s \o t)[n] = t[n - Len(s)]
  <2>1. n \in 1..(Len(s) + Len(t)) /\ ~(n <= Len(s)) /\ n - Len(s) \in 1..Len(t)
    BY <1>1, <1>2, <1>5
  <2> QED
    BY <1>2, <1>9, <2>1
<1>6. Names(s \o t) \subseteq Names(s) \cup Names(t)
  BY <1>3, <1>5 DEF Names
<1>7. Names(s) \subseteq Names(s \o t)
  BY <1>3 DEF Names
<1>8. Names(t) \subseteq Names(s \o t)
  BY <1>4 DEF Names
<1> QED
  BY <1>1, <1>6, <1>7, <1>8

LEMMA StampedNames ==
  ASSUME NEW r \in Runs, NEW s \in Seq(RowRecord)
  PROVE  /\ Stamped(r, s) \in Seq(RunRow)
         /\ s # <<>> => Names(Stamped(r, s)) = {r}
<1>1. DOMAIN s = 1..Len(s) /\ Len(s) \in Nat /\ \A n \in DOMAIN s : s[n] \in RowRecord
  OBVIOUS
<1>2. \A n \in DOMAIN s : Stamped(r, s)[n] \in RunRow /\ Stamped(r, s)[n].run = r
  BY <1>1 DEF Stamped, RowRecord, RunRow
<1>3. DOMAIN Stamped(r, s) = 1..Len(s) /\ Stamped(r, s) = [n \in 1..Len(s) |-> Stamped(r, s)[n]]
  BY <1>1 DEF Stamped
<1>4. Stamped(r, s) \in [1..Len(s) -> RunRow]
  BY <1>1, <1>2, <1>3
<1>5. s # <<>> => 1 \in DOMAIN s
  BY <1>1
<1> QED
  BY <1>1, <1>2, <1>3, <1>4, <1>5 DEF Names

LEMMA EmptyIsDocument == IsDocument(Empty) /\ Names(Empty.iterations) = {}
<1>1. Empty.iterations = <<>> /\ Empty.efficacy = [k \in {} |-> {}]
  BY DEF Empty
<1>2. Efficacy(<<>>) = [k \in {} |-> {}]
  <2>1. UNION {<<>>[n].skills : n \in DOMAIN <<>>} = {}
    OBVIOUS
  <2> QED
    BY <2>1, Zenon DEF Efficacy
<1> QED
  BY <1>1, <1>2 DEF IsDocument, Empty, Names

LEMMA Fields ==
  ASSUME NEW i, NEW m, NEW o, NEW e, NEW d,
         d = [iterations |-> i, summaries |-> m, outcomes |-> o, efficacy |-> e], NEW x, NEW y, NEW z
  PROVE  [d EXCEPT !.iterations = x, !.summaries = y, !.efficacy = z]
           = [iterations |-> x, summaries |-> y, outcomes |-> o, efficacy |-> z]
<1>1. DOMAIN d = {"iterations", "summaries", "outcomes", "efficacy"} /\ d.outcomes = o
  OBVIOUS
<1> DEFINE f == [d EXCEPT !.iterations = x, !.summaries = y, !.efficacy = z]
<1>2. /\ f = [k \in DOMAIN d |-> f[k]]
      /\ f.iterations = x /\ f.summaries = y /\ f.outcomes = o /\ f.efficacy = z
  BY <1>1
<1> HIDE DEF f
<1>3. f = [iterations |-> x, summaries |-> y, outcomes |-> o, efficacy |-> z]
  BY <1>1, <1>2
<1> QED
  BY <1>3 DEF f

LEMMA AppendedFields ==
  ASSUME NEW d, IsDocument(d), NEW s, NEW t
  PROVE  Appended(d, s, t) = [iterations |-> d.iterations \o s, summaries |-> d.summaries \o t,
                              outcomes |-> d.outcomes, efficacy |-> Efficacy(d.iterations \o s)]
<1>1. d = [iterations |-> d.iterations, summaries |-> d.summaries,
           outcomes |-> d.outcomes, efficacy |-> d.efficacy]
  BY DEF IsDocument
<1>2. Appended(d, s, t) = [d EXCEPT !.iterations = d.iterations \o s, !.summaries = d.summaries \o t,
                                    !.efficacy = Efficacy(d.iterations \o s)]
  BY Zenon DEF Appended
<1> QED
  BY <1>1, <1>2, Fields

LEMMA AppendedIsDocument ==
  ASSUME NEW d, IsDocument(d), NEW s \in Seq(RunRow), NEW t
  PROVE  /\ IsDocument(Appended(d, s, t))
         /\ Appended(d, s, t).iterations = d.iterations \o s
<1>1. d.iterations \o s \in Seq(RunRow)
  BY DEF IsDocument
<1>2. Appended(d, s, t) = [iterations |-> d.iterations \o s, summaries |-> d.summaries \o t,
                           outcomes |-> d.outcomes, efficacy |-> Efficacy(d.iterations \o s)]
  BY AppendedFields
<1> QED
  BY <1>1, <1>2 DEF IsDocument

LEMMA AppendedSummaries ==
  ASSUME NEW d, IsDocument(d), NEW s, NEW t
  PROVE  Appended(d, s, t).summaries = d.summaries \o t
<1>1. Appended(d, s, t) = [iterations |-> d.iterations \o s, summaries |-> d.summaries \o t,
                           outcomes |-> d.outcomes, efficacy |-> Efficacy(d.iterations \o s)]
  BY AppendedFields
<1> QED
  BY <1>1

LEMMA RecordedIsDocument ==
  ASSUME NEW d, IsDocument(d), NEW p, NEW state, NEW at
  PROVE  LET e == Recorded(d, p, state, at)
         IN  IsDocument(e) /\ e.iterations = d.iterations /\ e.summaries = d.summaries
<1>1. PICK x : Recorded(d, p, state, at) = [d EXCEPT !.outcomes[p] = x]
  BY Zenon DEF Recorded
<1> QED
  BY <1>1 DEF IsDocument

LEMMA RegradedIsDocument ==
  ASSUME NEW d, IsDocument(d), NEW p, NEW grade
  PROVE  LET e == [d EXCEPT !.outcomes[p].grade = grade]
         IN  IsDocument(e) /\ e.iterations = d.iterations /\ e.summaries = d.summaries
BY DEF IsDocument

\* The owner's commands leave rows and summaries of what they read alone.
LEMMA OwnerHolds ==
  ASSUME IsDocument(ledger), OwnerLoads
  PROVE  \E d, e :
           /\ d \in {ledger, Empty}
           /\ Hold("owner", d, e) /\ IsDocument(e)
           /\ e.iterations = d.iterations /\ e.summaries = d.summaries
<1>1. PICK p \in Proposals : Record(p) \/ Regrade(p)
  BY DEF OwnerLoads
<1>2. \A d \in {ledger, Empty} : IsDocument(d)
  BY EmptyIsDocument
<1>3. CASE Record(p)
  <2>1. PICK d, state, at :
          d \in {ledger, Empty} /\ Hold("owner", d, Recorded(d, p, state, at))
    BY <1>3 DEF Record
  <2> QED
    BY <1>2, <2>1, RecordedIsDocument
<1>4. CASE Regrade(p)
  <2>1. PICK d \in {ledger, Empty} :
          Hold("owner", d, [d EXCEPT !.outcomes[p].grade =
                              Grade(d.iterations, d.outcomes[p].boundary)])
    BY <1>4 DEF Regrade
  <2> DEFINE grade == Grade(d.iterations, d.outcomes[p].boundary)
             e == [d EXCEPT !.outcomes[p].grade = grade]
  <2>2. IsDocument(e) /\ e.iterations = d.iterations /\ e.summaries = d.summaries
    <3> HIDE DEF grade
    <3> QED
      BY <1>2, RegradedIsDocument
  <2>3. Hold("owner", d, e)
    BY <2>1
  <2> HIDE DEF e
  <2> QED
    BY <2>2, <2>3
<1> QED
  BY <1>1, <1>3, <1>4

----------------------------------------------------------------------------
(* The steps.                                                              *)

\* A writer loads the file.
LEMMA HoldSteps ==
  ASSUME DocInv, LossInv, NEW w \in Writers, NEW d, NEW e, IsDocument(e),
         Names(e.iterations) = Names(d.iterations) \cup ({w} \cap Runs),
         Hold(w, d, e), UNCHANGED <<ledger, rows, merged>>
  PROVE  DocInv' /\ LossInv'
<1>1. /\ \A v \in Writers : pc'[v] = IF v = w THEN "loaded" ELSE pc[v]
      /\ \A v \in Writers : doc'[v] = IF v = w THEN e ELSE doc[v]
      /\ pc' \in [Writers -> Positions] /\ DOMAIN doc' = Writers
  BY DEF DocInv, Hold, Positions
<1>2. DocInv'
  BY <1>1 DEF DocInv, IsDocument, Writers
<1>3. ASSUME ~hurt' PROVE ~hurt /\ d = ledger /\ Busy = {} /\ Busy' = {w} /\ pc'[w] # "cut"
  BY <1>1, <1>3 DEF Hold, Busy
<1>4. LossInv'
  <2> SUFFICES ASSUME ~hurt'
               PROVE  /\ Busy' = {w}
                      /\ merged \cap Runs = Names(ledger.iterations)
                      /\ Names(doc'[w].iterations) = (merged \cup {w}) \cap Runs
    BY DEF LossInv
  <2>1. \A v \in Writers : pc[v] # "cut"
    BY <1>3 DEF Busy
  <2>2. merged \cap Runs = Names(ledger.iterations)
    BY <1>3, <2>1 DEF LossInv
  <2> QED
    BY <1>1, <1>3, <2>2
<1> QED
  BY <1>2, <1>4

\* A run ends or dies: no file and no writer changes.
LEMMA RunSteps ==
  ASSUME DocInv, LossInv, NEW r \in Runs, RunEnds(r) \/ RunDies(r)
  PROVE  DocInv' /\ LossInv'
<1>1. /\ UNCHANGED <<ledger, doc, merged, hurt>> /\ r \in Writers /\ pc[r] = "run"
      /\ pc' \in [Writers -> Positions]
      /\ \A w \in Writers : w # r => pc'[w] = pc[w]
      /\ pc'[r] \in {"merge", "over", "dead"}
  BY DEF RunEnds, RunDies, DocInv, Writers, Positions
<1>2. rows' \in [Runs -> Seq(RunRow)] /\ (pc'[r] = "merge" => Names(rows'[r]) = {r})
      /\ \A q \in Runs : q # r => rows'[q] = rows[q]
  <2>1. CASE RunEnds(r)
    <3>1. PICK s \in RunRows : /\ rows' = [rows EXCEPT ![r] = Stamped(r, s)]
                               /\ pc' = [pc EXCEPT ![r] = IF s = <<>> THEN "over" ELSE "merge"]
      BY <2>1 DEF RunEnds
    <3>2. s \in Seq(RowRecord) /\ (pc'[r] = "merge" => s # <<>>)
      BY <1>1, <3>1, LedgerAssumption DEF LedgerAssumption, DocInv
    <3>3. Stamped(r, s) \in Seq(RunRow) /\ (s # <<>> => Names(Stamped(r, s)) = {r})
      BY <3>2, StampedNames
    <3> HIDE DEF Stamped
    <3> QED
      BY <3>1, <3>2, <3>3 DEF DocInv
  <2>2. CASE RunDies(r)
    BY <1>1, <2>2 DEF RunDies, DocInv
  <2> QED
    BY <2>1, <2>2
<1>3. DocInv'
  <2>1. \A q \in Runs : pc'[q] # "merge" \/ Names(rows'[q]) = {q}
    BY <1>1, <1>2 DEF DocInv, Writers
  <2> QED
    BY <1>1, <1>2, <2>1 DEF DocInv, IsDocument
<1>4. Busy' = Busy
  BY <1>1 DEF Busy
<1>5. LossInv'
  BY <1>1, <1>4 DEF LossInv
<1> QED
  BY <1>3, <1>5

\* A run, a fleet or the owner loads the file.
LEMMA LoadSteps ==
  ASSUME DocInv, LossInv, (\E r \in Runs : RunLoads(r)) \/ MainLoads \/ OwnerLoads
  PROVE  DocInv' /\ LossInv'
<1>1. /\ \A d \in {ledger, Empty} : IsDocument(d)
      /\ {"main", "owner"} \subseteq Writers \ Runs /\ Runs \subseteq Writers
  BY EmptyIsDocument, LedgerAssumption DEF DocInv, Writers, LedgerAssumption
<1>2. ASSUME NEW r \in Runs, RunLoads(r) PROVE DocInv' /\ LossInv'
  <2>1. rows[r] \in Seq(RunRow) /\ Names(rows[r]) = {r}
    BY <1>2 DEF RunLoads, DocInv
  <2>2. PICK d \in {ledger, Empty} : Hold(r, d, Appended(d, rows[r], <<>>))
    BY <1>2 DEF RunLoads
  <2> DEFINE e == Appended(d, rows[r], <<>>)
  <2>3. IsDocument(e) /\ e.iterations = d.iterations \o rows[r]
    BY <1>1, <2>1, AppendedIsDocument
  <2>4. Hold(r, d, e) /\ UNCHANGED <<ledger, rows, merged>>
    BY <1>2, <2>2 DEF RunLoads
  <2> HIDE DEF e
  <2>5. Names(e.iterations) = Names(d.iterations) \cup ({r} \cap Runs)
    <3>1. d.iterations \in Seq(RunRow)
      BY <1>1 DEF IsDocument
    <3>2. Names(d.iterations \o rows[r]) = Names(d.iterations) \cup Names(rows[r])
      BY <2>1, <3>1, NamesOfBoth
    <3> QED
      BY <2>1, <2>3, <3>2
  <2> QED
    BY <1>1, <2>3, <2>4, <2>5, HoldSteps
<1>3. CASE MainLoads
  <2>1. PICK d \in {ledger, Empty} : Hold("main", d, Appended(d, <<>>, <<Summary>>))
    BY <1>3 DEF MainLoads
  <2> DEFINE e == Appended(d, <<>>, <<Summary>>)
  <2>2. IsDocument(e) /\ e.iterations = d.iterations \o <<>>
    <3>1. <<>> \in Seq(RunRow)
      OBVIOUS
    <3> QED
      BY <1>1, <3>1, AppendedIsDocument
  <2>3. Hold("main", d, e) /\ UNCHANGED <<ledger, rows, merged>>
    BY <1>3, <2>1 DEF MainLoads
  <2> HIDE DEF e
  <2>4. Names(e.iterations) = Names(d.iterations) \cup ({"main"} \cap Runs)
    <3>1. d.iterations \in Seq(RunRow)
      BY <1>1 DEF IsDocument
    <3>2. d.iterations \o <<>> = d.iterations
      BY <3>1, ConcatEmptySeq
    <3> QED
      BY <1>1, <2>2, <3>2
  <2> QED
    BY <1>1, <2>2, <2>3, <2>4, HoldSteps
<1>4. CASE OwnerLoads
  <2>1. PICK d, e :
          d \in {ledger, Empty} /\ Hold("owner", d, e) /\ IsDocument(e) /\ e.iterations = d.iterations
    BY <1>1, <1>4, OwnerHolds
  <2>2. UNCHANGED <<ledger, rows, merged>>
    BY <1>4 DEF OwnerLoads
  <2>3. Names(e.iterations) = Names(d.iterations) \cup ({"owner"} \cap Runs)
    BY <1>1, <2>1
  <2> QED
    BY <1>1, <2>1, <2>2, <2>3, HoldSteps
<1> QED
  BY <1>2, <1>3, <1>4

\* The two halves of a save.
LEMMA SaveSteps ==
  ASSUME DocInv, LossInv, NEW w \in Writers, Truncate(w) \/ Write(w) \/ SaveFails(w)
  PROVE  DocInv' /\ LossInv'
<1>1. /\ Left(w) \in {"run", "over"} /\ IsDocument(Empty) /\ Runs \subseteq Writers
      /\ "owner" \notin Runs
  BY EmptyIsDocument, LedgerAssumption DEF Left, Writers, LedgerAssumption
<1>2. CASE Truncate(w)
  <2>1. /\ pc[w] = "loaded" /\ ledger' = Empty /\ UNCHANGED <<doc, rows, merged, hurt>>
        /\ pc' = [pc EXCEPT ![w] = "cut"]
    BY <1>2 DEF Truncate
  <2>2. /\ pc' \in [Writers -> Positions]
        /\ \A v \in Writers : pc'[v] = IF v = w THEN "cut" ELSE pc[v]
    BY <2>1 DEF DocInv, Positions
  <2>3. DocInv'
    <3>1. \A r \in Runs : pc'[r] # "merge" \/ Names(rows'[r]) = {r}
      BY <1>1, <2>1, <2>2 DEF DocInv
    <3>2. IsDocument(ledger)' /\ \A v \in Writers : IsDocument(doc[v])'
      BY <1>1, <2>1 DEF DocInv, IsDocument
    <3> QED
      BY <2>1, <2>2, <3>1, <3>2 DEF DocInv
  <2>4. Busy' = Busy /\ pc'[w] = "cut"
    BY <2>1, <2>2 DEF Busy
  <2> QED
    BY <2>1, <2>3, <2>4 DEF LossInv
<1>3. CASE Write(w)
  <2>1. /\ pc[w] = "cut" /\ ledger' = doc[w] /\ UNCHANGED <<rows, hurt>>
        /\ pc' = [pc EXCEPT ![w] = Left(w)] /\ doc' = [doc EXCEPT ![w] = Empty]
        /\ merged' = merged \cup ({w} \ {"owner"})
    BY <1>3 DEF Write
  <2>2. /\ pc' \in [Writers -> Positions] /\ DOMAIN doc' = Writers
        /\ \A v \in Writers : pc'[v] = IF v = w THEN Left(w) ELSE pc[v]
        /\ \A v \in Writers : doc'[v] = IF v = w THEN Empty ELSE doc[v]
    BY <1>1, <2>1 DEF DocInv, Positions
  <2>3. DocInv'
    <3>1. \A r \in Runs : pc'[r] # "merge" \/ Names(rows'[r]) = {r}
      BY <1>1, <2>1, <2>2 DEF DocInv
    <3>2. IsDocument(ledger)' /\ \A v \in Writers : IsDocument(doc[v])'
      BY <1>1, <2>1, <2>2 DEF DocInv, IsDocument
    <3> QED
      BY <2>1, <2>2, <3>1, <3>2 DEF DocInv
  <2>4. LossInv'
    <3> SUFFICES ASSUME ~hurt' PROVE Busy' = {} /\ merged' \cap Runs = Names(ledger'.iterations)
      BY DEF LossInv
    <3>1. ~hurt /\ w \in Busy
      BY <2>1 DEF Busy
    <3>2. Busy' = {}
      BY <1>1, <2>2, <3>1 DEF Busy, LossInv
    <3>3. Names(ledger'.iterations) = (merged \cup {w}) \cap Runs
      BY <2>1, <3>1 DEF LossInv
    <3>4. merged' \cap Runs = (merged \cup {w}) \cap Runs
      BY <1>1, <2>1
    <3> QED
      BY <3>2, <3>3, <3>4
  <2> QED
    BY <2>3, <2>4
<1>4. CASE SaveFails(w)
  <2>1. /\ w \in Busy /\ UNCHANGED <<ledger, rows, merged>>
        /\ pc' = [pc EXCEPT ![w] = Left(w)] /\ doc' = [doc EXCEPT ![w] = Empty]
        /\ hurt' = (hurt \/ pc[w] = "cut")
    BY <1>4 DEF SaveFails
  <2>2. /\ pc' \in [Writers -> Positions] /\ DOMAIN doc' = Writers
        /\ \A v \in Writers : pc'[v] = IF v = w THEN Left(w) ELSE pc[v]
        /\ \A v \in Writers : doc'[v] = IF v = w THEN Empty ELSE doc[v]
    BY <1>1, <2>1 DEF DocInv, Positions
  <2>3. DocInv'
    <3>1. \A r \in Runs : pc'[r] # "merge" \/ Names(rows'[r]) = {r}
      BY <1>1, <2>1, <2>2 DEF DocInv
    <3>2. IsDocument(ledger)' /\ \A v \in Writers : IsDocument(doc[v])'
      BY <1>1, <2>1, <2>2 DEF DocInv, IsDocument
    <3> QED
      BY <2>1, <2>2, <3>1, <3>2 DEF DocInv
  <2>4. LossInv'
    <3> SUFFICES ASSUME ~hurt' PROVE Busy' = {} /\ merged' \cap Runs = Names(ledger'.iterations)
      BY DEF LossInv
    <3>1. ~hurt /\ pc[w] # "cut"
      BY <2>1
    <3>2. Busy = {w}
      BY <2>1, <3>1 DEF LossInv
    <3>3. Busy' = {}
      BY <1>1, <2>2, <3>2 DEF Busy
    <3>4. \A v \in Writers : pc[v] # "cut"
      BY <3>1, <3>2 DEF Busy
    <3> QED
      BY <2>1, <3>1, <3>3, <3>4 DEF LossInv
  <2> QED
    BY <2>3, <2>4
<1> QED
  BY <1>2, <1>3, <1>4

LEMMA InitInv == Init => DocInv /\ LossInv
<1> SUFFICES ASSUME Init PROVE DocInv /\ LossInv
  OBVIOUS
<1>1. IsDocument(Empty) /\ Names(Empty.iterations) = {} /\ Runs \subseteq Writers
  BY EmptyIsDocument DEF Writers
<1>2. DocInv
  BY <1>1 DEF Init, DocInv, Positions
<1>3. Busy = {}
  BY DEF Init, Busy
<1> QED
  BY <1>1, <1>2, <1>3 DEF Init, LossInv

LEMMA InvStep == DocInv /\ LossInv /\ [Next]_vars => DocInv' /\ LossInv'
<1> SUFFICES ASSUME DocInv, LossInv, [Next]_vars PROVE DocInv' /\ LossInv'
  OBVIOUS
<1>1. CASE UNCHANGED vars
  BY <1>1 DEF vars, DocInv, LossInv, IsDocument, Busy
<1>2. CASE Save
  BY <1>2, SaveSteps DEF Save
<1> QED
  BY <1>1, <1>2, RunSteps, LoadSteps DEF Next

\* The efficacy in the file is that of its rows, in whatever order agents, fleet
\* and owner load and save, and whatever save fails: EfficacyIsCurrent of
\* append_run_metrics.
THEOREM EfficacyFollowsRows == Spec => []EfficacyIsCurrent
<1>1. DocInv => EfficacyIsCurrent
  BY DEF DocInv, IsDocument, EfficacyIsCurrent
<1> QED
  BY InitInv, InvStep, <1>1, PTL DEF Spec

----------------------------------------------------------------------------
(* A run's rows stay together.                                             *)

\* The rows of run r in s are the sequence b, next to each other.
IsBlock(s, r, b) ==
  \E k \in 0..(Len(s) - Len(b)) :
    /\ \A n \in DOMAIN s : s[n].run = r <=> n \in (k + 1)..(k + Len(b))
    /\ \A n \in 1..Len(b) : s[k + n] = b[n]

\* Every run in s has ended and is there with all its rows.
WholeIn(s, at, ended) ==
  \A r \in Names(s) : at[r] \notin {"run", "merge"} /\ IsBlock(s, r, ended[r])

WholeInv ==
  /\ WholeIn(ledger.iterations, pc, rows)
  /\ \A w \in Writers : WholeIn(doc[w].iterations, pc, rows)

LEMMA ConcatRows ==
  ASSUME NEW s \in Seq(RunRow), NEW t \in Seq(RunRow)
  PROVE  /\ Len(s) \in Nat /\ Len(t) \in Nat /\ Len(s \o t) = Len(s) + Len(t)
         /\ DOMAIN s = 1..Len(s) /\ DOMAIN t = 1..Len(t) /\ DOMAIN (s \o t) = 1..(Len(s) + Len(t))
         /\ \A n \in 1..Len(s) : (s \o t)[n] = s[n]
         /\ \A n \in 1..Len(t) : (s \o t)[Len(s) + n] = t[n]
<1>1. s \o t \in Seq(RunRow) /\ Len(s \o t) = Len(s) + Len(t) /\ Len(s) \in Nat /\ Len(t) \in Nat
  OBVIOUS
<1>2. \A i \in 1..(Len(s) + Len(t)) :
        (s \o t)[i] = IF i <= Len(s) THEN s[i] ELSE t[i - Len(s)]
  BY ConcatProperties
<1>3. DOMAIN s = 1..Len(s) /\ DOMAIN t = 1..Len(t) /\ DOMAIN (s \o t) = 1..(Len(s) + Len(t))
  BY <1>1
<1>4. \A n \in 1..Len(s) : (s \o t)[n] = s[n]
  BY <1>1, <1>2
<1>5. ASSUME NEW n \in 1..Len(t) PROVE (s \o t)[Len(s) + n] = t[n]
  <2>1. Len(s) + n \in 1..(Len(s) + Len(t)) /\ ~(Len(s) + n <= Len(s)) /\ (Len(s) + n) - Len(s) = n
    BY <1>1
  <2> QED
    BY <1>2, <2>1
<1> QED
  BY <1>1, <1>3, <1>4, <1>5

\* Rows of other runs after it do not disturb a block.
LEMMA BlockStays ==
  ASSUME NEW s \in Seq(RunRow), NEW t \in Seq(RunRow), NEW r, NEW b \in Seq(RunRow),
         IsBlock(s, r, b), r \notin Names(t)
  PROVE  IsBlock(s \o t, r, b)
<1>1. PICK k \in 0..(Len(s) - Len(b)) :
        /\ \A n \in DOMAIN s : s[n].run = r <=> n \in (k + 1)..(k + Len(b))
        /\ \A n \in 1..Len(b) : s[k + n] = b[n]
  BY DEF IsBlock
<1> DEFINE u == s \o t
<1>2. /\ Len(s) \in Nat /\ Len(t) \in Nat /\ Len(b) \in Nat /\ Len(u) = Len(s) + Len(t)
      /\ DOMAIN s = 1..Len(s) /\ DOMAIN t = 1..Len(t) /\ DOMAIN u = 1..(Len(s) + Len(t))
      /\ \A n \in 1..Len(s) : u[n] = s[n]
      /\ \A n \in 1..Len(t) : u[Len(s) + n] = t[n]
  BY ConcatRows
<1> HIDE DEF u
<1>3. k \in 0..(Len(u) - Len(b))
  BY <1>2
<1>4. ASSUME NEW n \in DOMAIN u PROVE u[n].run = r <=> n \in (k + 1)..(k + Len(b))
  <2>1. CASE n <= Len(s)
    BY <1>1, <1>2, <2>1
  <2>2. CASE ~(n <= Len(s))
    <3>1. n - Len(s) \in 1..Len(t) /\ Len(s) + (n - Len(s)) = n
      BY <1>2, <2>2
    <3>2. u[n] = t[n - Len(s)]
      BY <1>2, <3>1
    <3>3. u[n].run # r
      BY <1>2, <3>1, <3>2 DEF Names
    <3> QED
      BY <1>2, <2>2, <3>3
  <2> QED
    BY <2>1, <2>2
<1>5. ASSUME NEW n \in 1..Len(b) PROVE u[k + n] = b[n]
  <2>1. k + n \in 1..Len(s)
    BY <1>2
  <2> QED
    BY <1>1, <1>2, <2>1
<1> QED
  BY <1>3, <1>4, <1>5 DEF IsBlock, u

\* The rows of a new run are a block of their own.
LEMMA BlockAdded ==
  ASSUME NEW s \in Seq(RunRow), NEW r, NEW b \in Seq(RunRow), Names(b) = {r}, r \notin Names(s)
  PROVE  IsBlock(s \o b, r, b)
<1> DEFINE u == s \o b
<1>2. /\ Len(s) \in Nat /\ Len(b) \in Nat /\ Len(u) = Len(s) + Len(b)
      /\ DOMAIN s = 1..Len(s) /\ DOMAIN b = 1..Len(b) /\ DOMAIN u = 1..(Len(s) + Len(b))
      /\ \A n \in 1..Len(s) : u[n] = s[n]
      /\ \A n \in 1..Len(b) : u[Len(s) + n] = b[n]
  BY ConcatRows
<1> HIDE DEF u
<1>3. Len(s) \in 0..(Len(u) - Len(b))
  BY <1>2
<1>4. ASSUME NEW n \in DOMAIN u PROVE u[n].run = r <=> n \in (Len(s) + 1)..(Len(s) + Len(b))
  <2>1. CASE n <= Len(s)
    BY <1>2, <2>1 DEF Names
  <2>2. CASE ~(n <= Len(s))
    <3>1. n - Len(s) \in 1..Len(b) /\ Len(s) + (n - Len(s)) = n
      BY <1>2, <2>2
    <3>2. u[n] = b[n - Len(s)]
      BY <1>2, <3>1
    <3>3. u[n].run = r
      BY <1>2, <3>1, <3>2 DEF Names
    <3> QED
      BY <1>2, <2>2, <3>3
  <2> QED
    BY <2>1, <2>2
<1> QED
  BY <1>2, <1>3, <1>4 DEF IsBlock, u

\* What is whole stays so when no run that has ended changes.
LEMMA WholeStays ==
  ASSUME NEW s, NEW p, NEW b, NEW q, NEW c, WholeIn(s, p, b),
         \A r \in Names(s) : p[r] \notin {"run", "merge"} => q[r] \notin {"run", "merge"} /\ c[r] = b[r]
  PROVE  WholeIn(s, q, c)
BY Zenon DEF WholeIn

\* An append of a run that was not there.
LEMMA WholeGrows ==
  ASSUME NEW s \in Seq(RunRow), NEW r, NEW p, NEW b, NEW q, Names(b[r]) = {r},
         \A x \in Names(s) \cup {r} : b[x] \in Seq(RunRow),
         WholeIn(s, p, b), p[r] \in {"run", "merge"}, q[r] \notin {"run", "merge"},
         \A x \in Names(s) : q[x] = p[x]
  PROVE  WholeIn(s \o b[r], q, b)
<1>1. r \notin Names(s)
  BY DEF WholeIn
<1>2. Names(s \o b[r]) = Names(s) \cup {r}
  BY NamesOfBoth
<1>3. ASSUME NEW x \in Names(s) PROVE q[x] \notin {"run", "merge"} /\ IsBlock(s \o b[r], x, b[x])
  <2>1. x # r /\ x \notin Names(b[r]) /\ b[x] \in Seq(RunRow) /\ b[r] \in Seq(RunRow)
    BY <1>1
  <2>2. q[x] \notin {"run", "merge"} /\ IsBlock(s, x, b[x])
    BY DEF WholeIn
  <2> QED
    BY <2>1, <2>2, BlockStays
<1>4. IsBlock(s \o b[r], r, b[r])
  <2>1. b[r] \in Seq(RunRow)
    OBVIOUS
  <2> QED
    BY <1>1, <2>1, BlockAdded
<1> QED
  BY <1>2, <1>3, <1>4 DEF WholeIn

LEMMA WholeEmpty == \A p, b : WholeIn(Empty.iterations, p, b)
BY EmptyIsDocument DEF WholeIn

LEMMA NamesAreRuns == ASSUME NEW s \in Seq(RunRow) PROVE Names(s) \subseteq Runs
<1>1. \A n \in DOMAIN s : s[n] \in RunRow
  OBVIOUS
<1> QED
  BY <1>1 DEF Names, RunRow

\* No step changes a run that has ended, but to say how its save went.
LEMMA EndedStays ==
  ASSUME DocInv, [Next]_vars, NEW r \in Runs, pc[r] \notin {"run", "merge"}
  PROVE  pc'[r] \notin {"run", "merge"} /\ rows'[r] = rows[r]
<1>0. r \in Writers /\ r # "owner" /\ r # "main" /\ DOMAIN pc = Writers /\ Left(r) = "over"
      /\ DOMAIN rows = Runs
  BY LedgerAssumption DEF LedgerAssumption, DocInv, Writers, Left
<1>1. CASE UNCHANGED vars
  BY <1>1 DEF vars
<1>2. ASSUME NEW q \in Runs, RunEnds(q) \/ RunDies(q) \/ RunLoads(q)
      PROVE  pc'[r] \notin {"run", "merge"} /\ rows'[r] = rows[r]
  <2>1. CASE RunEnds(q)
    BY <1>0, <2>1 DEF RunEnds
  <2>2. CASE RunDies(q)
    BY <1>0, <2>2 DEF RunDies
  <2>3. CASE RunLoads(q)
    BY <1>0, <2>3 DEF RunLoads, Hold
  <2> QED
    BY <1>2, <2>1, <2>2, <2>3
<1>3. CASE MainLoads
  BY <1>0, <1>3 DEF MainLoads, Hold
<1>4. CASE OwnerLoads
  <2>1. UNCHANGED rows /\ \E d, e : Hold("owner", d, e)
    BY <1>4 DEF OwnerLoads, Record, Regrade
  <2> QED
    BY <1>0, <2>1 DEF Hold
<1>5. ASSUME NEW w \in Writers, Truncate(w) \/ Write(w) \/ SaveFails(w)
      PROVE  pc'[r] \notin {"run", "merge"} /\ rows'[r] = rows[r]
  BY <1>0, <1>5 DEF Truncate, Write, SaveFails
<1> QED
  BY <1>1, <1>2, <1>3, <1>4, <1>5 DEF Next, Save

\* A document with the rows of the file, in a step that ends no new run.
LEMMA WholeKept ==
  ASSUME DocInv, [Next]_vars, NEW s \in Seq(RunRow), WholeIn(s, pc, rows)
  PROVE  WholeIn(s, pc', rows')
<1>1. Names(s) \subseteq Runs
  BY NamesAreRuns
<1>2. \A r \in Names(s) : pc[r] \notin {"run", "merge"} =>
                            pc'[r] \notin {"run", "merge"} /\ rows'[r] = rows[r]
  BY <1>1, EndedStays
<1> QED
  BY <1>2, WholeStays

\* What a step writes into the file or into a writer's copy.
LEMMA WholeStep ==
  ASSUME DocInv, WholeInv, [Next]_vars
  PROVE  WholeInv'
<1> DEFINE Whole(s) == WholeIn(s, pc', rows')
<1>1. ledger.iterations \in Seq(RunRow) /\ Whole(ledger.iterations)
  <2>1. ledger.iterations \in Seq(RunRow) /\ WholeIn(ledger.iterations, pc, rows)
    BY DEF DocInv, IsDocument, WholeInv
  <2> QED
    BY <2>1, WholeKept
<1>2. ASSUME NEW w \in Writers PROVE Whole(doc[w].iterations)
  <2>1. doc[w].iterations \in Seq(RunRow) /\ WholeIn(doc[w].iterations, pc, rows)
    BY DEF DocInv, IsDocument, WholeInv
  <2> QED
    BY <2>1, WholeKept
<1>3. Whole(Empty.iterations)
  BY WholeEmpty
<1>4. /\ {"main", "owner"} \subseteq Writers /\ Runs \subseteq Writers
      /\ \A d \in {ledger, Empty} :
           /\ IsDocument(d) /\ d.iterations \in Seq(RunRow)
           /\ WholeIn(d.iterations, pc, rows) /\ Whole(d.iterations)
      /\ DOMAIN pc = Writers /\ DOMAIN doc = Writers
  <2>1. \A d \in {ledger, Empty} : IsDocument(d) /\ WholeIn(d.iterations, pc, rows)
    BY EmptyIsDocument, WholeEmpty DEF DocInv, WholeInv
  <2>2. \A d \in {ledger, Empty} : Whole(d.iterations)
    BY <1>1, <1>3
  <2> HIDE DEF Whole
  <2> QED
    BY <2>1, <2>2 DEF DocInv, Writers, IsDocument
<1> HIDE DEF Whole
<1>5. ASSUME NEW w \in Writers, NEW d, NEW e, Hold(w, d, e), ledger' = ledger, Whole(e.iterations)
      PROVE  WholeInv'
  <2>1. \A v \in Writers : doc'[v] = IF v = w THEN e ELSE doc[v]
    BY <1>4, <1>5 DEF Hold
  <2>2. \A v \in Writers : Whole(doc'[v].iterations)
    BY <1>2, <1>5, <2>1
  <2> QED
    BY <1>1, <1>5, <2>2 DEF WholeInv, Whole
<1>6. ASSUME NEW r \in Runs, RunEnds(r) \/ RunDies(r) PROVE WholeInv'
  <2>1. UNCHANGED <<ledger, doc>>
    BY <1>6 DEF RunEnds, RunDies
  <2> QED
    BY <1>1, <1>2, <2>1 DEF WholeInv, Whole
<1>7. ASSUME NEW r \in Runs, RunLoads(r) PROVE WholeInv'
  <2>1. PICK d \in {ledger, Empty} : Hold(r, d, Appended(d, rows[r], <<>>))
    BY <1>7 DEF RunLoads
  <2> DEFINE e == Appended(d, rows[r], <<>>)
  <2>2. pc[r] = "merge" /\ Hold(r, d, e) /\ UNCHANGED <<ledger, rows>> /\ r \in Writers
    BY <1>4, <1>7, <2>1 DEF RunLoads
  <2>3. rows[r] \in Seq(RunRow) /\ Names(rows[r]) = {r} /\ \A q \in Runs : rows[q] \in Seq(RunRow)
    BY <2>2 DEF DocInv
  <2>4. e.iterations = d.iterations \o rows[r]
    BY <1>4, <2>3, AppendedIsDocument
  <2> HIDE DEF e
  <2>5. \A q \in Writers : pc'[q] = IF q = r THEN "loaded" ELSE pc[q]
    BY <1>4, <2>2 DEF Hold
  <2>6. Names(d.iterations) \subseteq Runs
    BY <1>4, NamesAreRuns
  <2>7. WholeIn(d.iterations, pc, rows) /\ d.iterations \in Seq(RunRow)
    BY <1>4
  <2>8. \A q \in Names(d.iterations) : pc'[q] = pc[q]
    <3>1. r \notin Names(d.iterations)
      BY <2>2, <2>7 DEF WholeIn
    <3> QED
      BY <1>4, <2>5, <2>6, <3>1
  <2>9. WholeIn(d.iterations \o rows[r], pc', rows)
    <3>1. \A q \in Names(d.iterations) \cup {r} : rows[q] \in Seq(RunRow)
      BY <2>3, <2>6
    <3>2. pc[r] \in {"run", "merge"} /\ pc'[r] \notin {"run", "merge"}
      BY <2>2, <2>5
    <3> QED
      BY <2>3, <2>7, <2>8, <3>1, <3>2, WholeGrows
  <2>10. Whole(e.iterations) /\ ledger' = ledger
    BY <2>2, <2>4, <2>9 DEF Whole
  <2> QED
    BY <1>5, <2>2, <2>10
<1>8. CASE MainLoads
  <2>1. PICK d \in {ledger, Empty} : Hold("main", d, Appended(d, <<>>, <<Summary>>))
    BY <1>8 DEF MainLoads
  <2> DEFINE e == Appended(d, <<>>, <<Summary>>)
  <2>2. e.iterations = d.iterations
    <3>1. <<>> \in Seq(RunRow)
      OBVIOUS
    <3>2. e.iterations = d.iterations \o <<>>
      BY <1>4, <3>1, AppendedIsDocument
    <3> HIDE DEF e
    <3> QED
      BY <1>4, <3>2, ConcatEmptySeq
  <2>3. Hold("main", d, e) /\ ledger' = ledger
    BY <1>8, <2>1 DEF MainLoads
  <2> HIDE DEF e
  <2> QED
    BY <1>4, <1>5, <2>2, <2>3
<1>9. CASE OwnerLoads
  <2>1. PICK d, e :
          d \in {ledger, Empty} /\ Hold("owner", d, e) /\ e.iterations = d.iterations
    BY <1>4, <1>9, OwnerHolds
  <2>2. ledger' = ledger
    BY <1>9 DEF OwnerLoads
  <2> QED
    BY <1>4, <1>5, <2>1, <2>2
<1>10. ASSUME NEW w \in Writers, Truncate(w) \/ Write(w) \/ SaveFails(w) PROVE WholeInv'
  <2>1. /\ ledger' \in {ledger, doc[w], Empty}
        /\ \A v \in Writers : doc'[v] \in {doc[v], Empty}
    BY <1>4, <1>10 DEF Truncate, Write, SaveFails
  <2>2. Whole(ledger'.iterations) /\ \A v \in Writers : Whole(doc'[v].iterations)
    BY <1>1, <1>2, <1>3, <2>1
  <2> QED
    BY <2>2 DEF WholeInv, Whole
<1>11. CASE UNCHANGED vars
  BY <1>11 DEF vars, WholeInv, WholeIn, Names
<1> QED
  BY <1>6, <1>7, <1>8, <1>9, <1>10, <1>11 DEF Next, Save

\* The rows of r in s, from the first on, are those of b and no others.
Gathered(s, r, b) ==
  LET at == {n \in DOMAIN s : s[n].run = r}
      first == CHOOSE n \in at : \A m \in at : n <= m
  IN  Cardinality(at) = Len(b) /\ SubSeq(s, first, first + Len(b) - 1) = b

\* A block is what RowsComeWhole asks for.
LEMMA BlockIsWhole ==
  ASSUME NEW s \in Seq(RunRow), NEW r \in Names(s), NEW b \in Seq(RunRow), IsBlock(s, r, b)
  PROVE  Gathered(s, r, b)
<1>1. PICK k \in 0..(Len(s) - Len(b)) :
        /\ \A n \in DOMAIN s : s[n].run = r <=> n \in (k + 1)..(k + Len(b))
        /\ \A n \in 1..Len(b) : s[k + n] = b[n]
  BY DEF IsBlock
<1> DEFINE at == {n \in DOMAIN s : s[n].run = r}
           first == CHOOSE n \in at : \A m \in at : n <= m
           L == Len(b)
<1>2. L \in Nat /\ Len(s) \in Nat /\ DOMAIN s = 1..Len(s) /\ DOMAIN b = 1..L /\ k \in Nat
  OBVIOUS
<1>3. at = (k + 1)..(k + L)
  BY <1>1, <1>2
<1>4. at # {}
  BY DEF Names
<1>5. L >= 1
  <2> HIDE DEF at, L
  <2> QED
    BY <1>2, <1>3, <1>4
<1>6. Cardinality(at) = L
  <2>1. k + 1 \in Int /\ k + L \in Int /\ ~(k + 1 > k + L) /\ (k + L) - (k + 1) + 1 = L
    BY <1>2, <1>5
  <2> HIDE DEF at, L
  <2> QED
    BY <1>3, <2>1, FS_Interval
<1>7. first = k + 1
  <2>1. k + 1 \in at /\ \A m \in at : k + 1 <= m
    BY <1>2, <1>3, <1>5
  <2>2. \A n \in at : (\A m \in at : n <= m) => n = k + 1
    <3> HIDE DEF at
    <3> QED
      BY <1>2, <1>3, <2>1
  <2> HIDE DEF at
  <2> QED
    BY <2>1, <2>2
<1>8. SubSeq(s, k + 1, k + L) = b
  <2> DEFINE u == SubSeq(s, k + 1, k + L)
  <2>1. \A i \in (k + 1)..(k + L) : s[i] \in RunRow
    BY <1>2
  <2>2. /\ u \in Seq(RunRow)
        /\ Len(u) = IF k + 1 <= k + L THEN (k + L) - (k + 1) + 1 ELSE 0
        /\ \A i \in 1..((k + L) - (k + 1) + 1) : u[i] = s[(k + 1) + i - 1]
    <3> HIDE DEF L
    <3> QED
      BY <1>2, <2>1, SubSeqProperties
  <2> HIDE DEF u
  <2>3. Len(u) = L
    BY <1>2, <1>5, <2>2
  <2>4. \A i \in 1..L : u[i] = b[i]
    <3> SUFFICES ASSUME NEW i \in 1..L PROVE u[i] = b[i]
      OBVIOUS
    <3>1. i \in 1..((k + L) - (k + 1) + 1) /\ (k + 1) + i - 1 = k + i
      BY <1>2
    <3> QED
      BY <1>1, <2>2, <3>1
  <2>5. u = b
    BY <2>2, <2>3, <2>4, SeqEqual
  <2> QED
    BY <2>5 DEF u
<1>9. first + L - 1 = k + L
  <2> HIDE DEF first, L
  <2> QED
    BY <1>2, <1>7
<1> QED
  BY <1>6, <1>7, <1>8, <1>9 DEF Gathered

\* Whatever is lost and whatever save fails, a run is in the file with all its
\* rows, next to each other and in their order, or not at all: RowsComeWhole of
\* append_run_metrics.
THEOREM NoHalfRun == Spec => []RowsComeWhole
<1>1. Init => WholeInv
  <2>1. Init => ledger = Empty /\ \A w \in Writers : doc[w] = Empty
    BY DEF Init
  <2> QED
    BY <2>1, WholeEmpty DEF WholeInv
<1>2. DocInv /\ WholeInv => RowsComeWhole
  <2> SUFFICES ASSUME DocInv, WholeInv, NEW r \in Names(ledger.iterations)
               PROVE  Gathered(ledger.iterations, r, rows[r])
    BY DEF RowsComeWhole, Names, Gathered
  <2>1. ledger.iterations \in Seq(RunRow)
    BY DEF DocInv, IsDocument
  <2>2. r \in Runs /\ rows[r] \in Seq(RunRow) /\ IsBlock(ledger.iterations, r, rows[r])
    BY <2>1, NamesAreRuns DEF DocInv, WholeInv, WholeIn
  <2> QED
    BY <2>1, <2>2, BlockIsWhole
<1>3. DocInv /\ LossInv /\ WholeInv /\ [Next]_vars => (DocInv /\ LossInv /\ WholeInv)'
  BY InvStep, WholeStep
<1> QED
  BY InitInv, <1>1, <1>2, <1>3, PTL DEF Spec

----------------------------------------------------------------------------
(* A fleet's summary.                                                      *)

\* Document d has no summary, or the fleet is over and its summary is there.
Summed(d, main, summary) ==
  d.summaries = <<>> \/ (main # "run" /\ d.summaries = <<summary>>)

SummaryInv ==
  /\ pc["main"] # "run" => \A r \in FleetRuns : pc[r] \in {"over", "dead"}
  /\ Summed(ledger, pc["main"], Summary)
  /\ \A w \in Writers : Summed(doc[w], pc["main"], Summary)

\* The main thread waits for every agent, and an agent that has ended stays so.
LEMMA FleetStays ==
  ASSUME DocInv, SummaryInv, [Next]_vars
  PROVE  /\ pc'["main"] # "run" => \A r \in FleetRuns : pc'[r] \in {"over", "dead"}
         /\ pc["main"] # "run" => pc'["main"] # "run" /\ Summary' = Summary
<1>1. /\ "main" \in Writers /\ "owner" \in Writers /\ "main" \notin Runs /\ Runs \subseteq Writers
      /\ FleetRuns \subseteq Runs /\ "owner" \notin Runs
      /\ DOMAIN pc = Writers /\ DOMAIN rows = Runs /\ Left("main") = "over"
  BY LedgerAssumption DEF LedgerAssumption, DocInv, Writers, Left
<1> DEFINE Over(r) == pc[r] \in {"over", "dead"}
<1>2. ASSUME NEW r \in FleetRuns, Over(r) PROVE pc'[r] = pc[r] /\ rows'[r] = rows[r]
  <2>1. CASE UNCHANGED vars
    BY <2>1 DEF vars
  <2>2. ASSUME NEW q \in Runs, RunEnds(q) \/ RunDies(q) \/ RunLoads(q)
        PROVE  pc'[r] = pc[r] /\ rows'[r] = rows[r]
    <3>1. q # r
      BY <1>2, <2>2 DEF RunEnds, RunDies, RunLoads
    <3>2. CASE RunEnds(q)
      BY <1>1, <3>1, <3>2 DEF RunEnds
    <3>3. CASE RunDies(q)
      BY <1>1, <3>1, <3>3 DEF RunDies
    <3>4. CASE RunLoads(q)
      BY <1>1, <3>1, <3>4 DEF RunLoads, Hold
    <3> QED
      BY <2>2, <3>2, <3>3, <3>4
  <2>3. CASE MainLoads
    BY <1>1, <2>3 DEF MainLoads, Hold
  <2>4. CASE OwnerLoads
    <3>1. UNCHANGED rows /\ \E d, e : Hold("owner", d, e)
      BY <2>4 DEF OwnerLoads, Record, Regrade
    <3> QED
      BY <1>1, <3>1 DEF Hold
  <2>5. ASSUME NEW w \in Writers, Truncate(w) \/ Write(w) \/ SaveFails(w)
        PROVE  pc'[r] = pc[r] /\ rows'[r] = rows[r]
    <3>1. w # r
      BY <1>2, <2>5 DEF Truncate, Write, SaveFails, Busy
    <3> QED
      BY <1>1, <2>5, <3>1 DEF Truncate, Write, SaveFails
  <2> QED
    BY <2>1, <2>2, <2>3, <2>4, <2>5 DEF Next, Save
<1>3. ASSUME pc["main"] # "run" PROVE pc'["main"] # "run"
  <2>1. CASE UNCHANGED vars
    BY <1>3, <2>1 DEF vars
  <2>2. ASSUME NEW q \in Runs, RunEnds(q) \/ RunDies(q) \/ RunLoads(q) PROVE pc'["main"] # "run"
    BY <1>1, <1>3, <2>2 DEF RunEnds, RunDies, RunLoads, Hold
  <2>3. CASE MainLoads
    BY <1>3, <2>3 DEF MainLoads
  <2>4. CASE OwnerLoads
    <3>1. \E d, e : Hold("owner", d, e)
      BY <2>4 DEF OwnerLoads, Record, Regrade
    <3> QED
      BY <1>1, <1>3, <3>1 DEF Hold
  <2>5. ASSUME NEW w \in Writers, Truncate(w) \/ Write(w) \/ SaveFails(w) PROVE pc'["main"] # "run"
    BY <1>1, <1>3, <2>5 DEF Truncate, Write, SaveFails
  <2> QED
    BY <1>3, <2>1, <2>2, <2>3, <2>4, <2>5 DEF Next, Save
<1>4. ASSUME \A r \in FleetRuns : Over(r) PROVE Summary' = Summary
  <2>1. Results' = Results
    BY <1>2, <1>4 DEF Results
  <2>2. \A r \in Results : rows'[r] = rows[r]
    BY <1>2, <1>4 DEF Results
  <2>3. [r \in Results' |-> rows'[r]] = [r \in Results |-> rows[r]]
    BY <2>1, <2>2
  <2> QED
    BY <2>3 DEF Summary
<1>5. ASSUME pc'["main"] # "run" PROVE \A r \in FleetRuns : Over(r)
  <2>1. CASE pc["main"] # "run"
    BY <2>1 DEF SummaryInv
  <2>2. CASE pc["main"] = "run"
    <3>1. CASE UNCHANGED vars
      BY <1>5, <2>2, <3>1 DEF vars
    <3>2. ASSUME NEW q \in Runs, RunEnds(q) \/ RunDies(q) \/ RunLoads(q) PROVE FALSE
      BY <1>1, <1>5, <2>2, <3>2 DEF RunEnds, RunDies, RunLoads, Hold
    <3>3. CASE MainLoads
      BY <3>3 DEF MainLoads
    <3>4. CASE OwnerLoads
      <4>1. \E d, e : Hold("owner", d, e)
        BY <3>4 DEF OwnerLoads, Record, Regrade
      <4> QED
        BY <1>1, <1>5, <2>2, <4>1 DEF Hold
    <3>5. ASSUME NEW w \in Writers, Truncate(w) \/ Write(w) \/ SaveFails(w) PROVE FALSE
      <4>1. w # "main"
        BY <2>2, <3>5 DEF Truncate, Write, SaveFails, Busy
      <4> QED
        BY <1>1, <1>5, <2>2, <3>5, <4>1 DEF Truncate, Write, SaveFails
    <3> QED
      BY <3>1, <3>2, <3>3, <3>4, <3>5 DEF Next, Save
  <2> QED
    BY <2>1, <2>2
<1>6. pc'["main"] # "run" => \A r \in FleetRuns : pc'[r] \in {"over", "dead"}
  BY <1>2, <1>5
<1> QED
  BY <1>3, <1>4, <1>6 DEF SummaryInv

LEMMA SummaryStep ==
  ASSUME DocInv, SummaryInv, [Next]_vars
  PROVE  SummaryInv'
<1> DEFINE Fine(d) == Summed(d, pc'["main"], Summary')
<1>1. /\ {"main", "owner"} \subseteq Writers /\ Runs \subseteq Writers
      /\ \A d \in {ledger, Empty} : IsDocument(d)
      /\ DOMAIN pc = Writers /\ DOMAIN doc = Writers
  BY EmptyIsDocument DEF DocInv, Writers
<1>2. Fine(ledger) /\ (\A w \in Writers : Fine(doc[w])) /\ Fine(Empty)
  <2>1. \A d : Summed(d, pc["main"], Summary) => Fine(d)
    BY FleetStays DEF Summed
  <2>2. Fine(Empty)
    BY DEF Summed, Empty
  <2> QED
    BY <2>1, <2>2 DEF SummaryInv
<1> HIDE DEF Fine
<1>3. SUFFICES Fine(ledger') /\ \A w \in Writers : Fine(doc'[w])
  BY FleetStays DEF SummaryInv, Fine
<1>4. ASSUME NEW w \in Writers, NEW d, NEW e, Hold(w, d, e), ledger' = ledger, Fine(e)
      PROVE  Fine(ledger') /\ \A v \in Writers : Fine(doc'[v])
  <2>1. \A v \in Writers : doc'[v] = IF v = w THEN e ELSE doc[v]
    BY <1>1, <1>4 DEF Hold
  <2> QED
    BY <1>2, <1>4, <2>1
<1>5. ASSUME NEW r \in Runs, RunEnds(r) \/ RunDies(r)
      PROVE  Fine(ledger') /\ \A w \in Writers : Fine(doc'[w])
  <2>1. UNCHANGED <<ledger, doc>>
    BY <1>5 DEF RunEnds, RunDies
  <2> QED
    BY <1>2, <2>1
<1>6. ASSUME NEW r \in Runs, RunLoads(r)
      PROVE  Fine(ledger') /\ \A w \in Writers : Fine(doc'[w])
  <2>1. PICK d \in {ledger, Empty} : Hold(r, d, Appended(d, rows[r], <<>>))
    BY <1>6 DEF RunLoads
  <2> DEFINE e == Appended(d, rows[r], <<>>)
  <2>2. Hold(r, d, e) /\ UNCHANGED ledger /\ r \in Writers
    BY <1>1, <1>6, <2>1 DEF RunLoads
  <2>3. e.summaries = d.summaries \o <<>>
    BY <1>1, AppendedSummaries
  <2> HIDE DEF e
  <2>4. Fine(d)
    BY <1>2
  <2>5. e.summaries = d.summaries
    <3>1. d.summaries = <<>> \/ d.summaries = <<Summary'>>
      BY <2>4 DEF Fine, Summed
    <3> QED
      BY <2>3, <3>1
  <2>6. Fine(e)
    BY <2>4, <2>5 DEF Fine, Summed
  <2> QED
    BY <1>4, <2>2, <2>6
<1>7. ASSUME MainLoads PROVE Fine(ledger') /\ \A w \in Writers : Fine(doc'[w])
  <2>1. PICK d \in {ledger, Empty} : Hold("main", d, Appended(d, <<>>, <<Summary>>))
    BY <1>7 DEF MainLoads
  <2> DEFINE e == Appended(d, <<>>, <<Summary>>)
  <2>2. pc["main"] = "run" /\ Hold("main", d, e) /\ UNCHANGED <<ledger, rows>>
        /\ \A r \in FleetRuns : pc[r] \in {"over", "dead"}
    BY <1>7, <2>1 DEF MainLoads
  <2>3. e.summaries = d.summaries \o <<Summary>>
    BY <1>1, AppendedSummaries
  <2>4. d.summaries = <<>>
    BY <2>2 DEF SummaryInv, Summed, Empty
  <2>5. pc'["main"] = "loaded"
    BY <1>1, <2>2 DEF Hold
  <2>6. Summary' = Summary
    <3>1. FleetRuns \subseteq Runs /\ "main" \notin Runs
      BY LedgerAssumption DEF LedgerAssumption
    <3>2. \A r \in FleetRuns : pc'[r] = pc[r]
      BY <1>1, <2>2, <3>1 DEF Hold
    <3>3. Results' = Results
      BY <3>2 DEF Results
    <3> QED
      BY <2>2, <3>3 DEF Summary
  <2> HIDE DEF e
  <2>7. Fine(e)
    BY <2>3, <2>4, <2>5, <2>6 DEF Fine, Summed
  <2> QED
    BY <1>1, <1>4, <2>2, <2>7
<1>8. ASSUME OwnerLoads PROVE Fine(ledger') /\ \A w \in Writers : Fine(doc'[w])
  <2>1. PICK d, e :
          d \in {ledger, Empty} /\ Hold("owner", d, e) /\ e.summaries = d.summaries
    BY <1>1, <1>8, OwnerHolds
  <2>2. ledger' = ledger
    BY <1>8 DEF OwnerLoads
  <2>3. Fine(e)
    BY <1>2, <2>1 DEF Fine, Summed
  <2> QED
    BY <1>1, <1>4, <2>1, <2>2, <2>3
<1>9. ASSUME NEW w \in Writers, Truncate(w) \/ Write(w) \/ SaveFails(w)
      PROVE  Fine(ledger') /\ \A v \in Writers : Fine(doc'[v])
  <2>1. /\ ledger' \in {ledger, doc[w], Empty}
        /\ \A v \in Writers : doc'[v] \in {doc[v], Empty}
    BY <1>1, <1>9 DEF Truncate, Write, SaveFails
  <2> QED
    BY <1>2, <2>1
<1>10. CASE UNCHANGED vars
  BY <1>2, <1>10 DEF vars
<1> QED
  BY <1>5, <1>6, <1>7, <1>8, <1>9, <1>10 DEF Next, Save

LEMMA SummaryInit == Init => SummaryInv
<1> SUFFICES ASSUME Init PROVE SummaryInv
  OBVIOUS
<1>1. "main" \in Writers /\ Empty.summaries = <<>>
  BY DEF Writers, Empty
<1> QED
  BY <1>1 DEF Init, SummaryInv, Summed

\* The file has at most one summary of the fleet, and it is that of every agent
\* with a result and of all its rows, whoever saves over whom: SummaryIsFinal of
\* compute_fleet_summary.
THEOREM SummaryWaitsForAgents == Spec => []SummaryIsFinal
<1>1. SummaryInv => SummaryIsFinal
  <2> SUFFICES ASSUME SummaryInv PROVE SummaryIsFinal
    OBVIOUS
  <2>1. ledger.summaries = <<>> \/ ledger.summaries = <<Summary>>
    BY DEF SummaryInv, Summed
  <2>2. \A x : Len(<<x>>) = 1 /\ \A n \in DOMAIN <<x>> : <<x>>[n] = x
    OBVIOUS
  <2>3. Len(<<>>) = 0 /\ DOMAIN <<>> = {}
    OBVIOUS
  <2>4. CASE ledger.summaries = <<>>
    BY <2>3, <2>4 DEF SummaryIsFinal
  <2>5. CASE ledger.summaries = <<Summary>>
    <3> DEFINE x == Summary
    <3>1. ledger.summaries = <<x>>
      BY <2>5
    <3>2. Len(<<x>>) = 1 /\ \A n \in DOMAIN <<x>> : <<x>>[n] = x
      BY <2>2
    <3> HIDE DEF x
    <3>3. Len(ledger.summaries) <= 1 /\ \A n \in DOMAIN ledger.summaries : ledger.summaries[n] = x
      BY <3>1, <3>2
    <3> QED
      BY <3>3 DEF SummaryIsFinal, x
  <2> QED
    BY <2>1, <2>4, <2>5
<1>2. DocInv /\ LossInv /\ SummaryInv /\ [Next]_vars => (DocInv /\ LossInv /\ SummaryInv)'
  BY InvStep, SummaryStep
<1> QED
  BY InitInv, SummaryInit, <1>1, <1>2, PTL DEF Spec

----------------------------------------------------------------------------
(* What is lost.                                                           *)

\* As long as nothing hurt the file, the summary is there when it was merged.
SummaryKept ==
  ~hurt =>
    /\ (\A w \in Writers : pc[w] # "cut") => ("main" \in merged <=> ledger.summaries # <<>>)
    /\ \A w \in Busy : "main" \in merged \cup {w} <=> doc[w].summaries # <<>>

\* A writer loads the file and adds no summary but the main thread's.
LEMMA SummaryHeld ==
  ASSUME DocInv, SummaryKept, NEW w \in Writers, NEW d, NEW e, Hold(w, d, e),
         e.summaries # <<>> <=> w = "main" \/ d.summaries # <<>>,
         UNCHANGED <<ledger, merged>>
  PROVE  SummaryKept'
<1>1. /\ \A v \in Writers : pc'[v] = IF v = w THEN "loaded" ELSE pc[v]
      /\ doc'[w] = e
  BY DEF DocInv, Hold
<1> SUFFICES ASSUME ~hurt'
             PROVE  /\ "main" \in merged <=> ledger.summaries # <<>>
                    /\ \A v \in Busy' : "main" \in merged \cup {v} <=> doc'[v].summaries # <<>>
  BY DEF SummaryKept
<1>2. ~hurt /\ d = ledger /\ Busy = {} /\ Busy' = {w}
  BY <1>1 DEF Hold, Busy
<1>3. "main" \in merged <=> ledger.summaries # <<>>
  BY <1>2 DEF SummaryKept, Busy
<1> QED
  BY <1>1, <1>2, <1>3

LEMMA SummaryLoads ==
  ASSUME DocInv, SummaryInv, SummaryKept, (\E r \in Runs : RunLoads(r)) \/ MainLoads \/ OwnerLoads
  PROVE  SummaryKept'
<1>1. /\ {"main", "owner"} \subseteq Writers \ Runs /\ Runs \subseteq Writers
      /\ \A d \in {ledger, Empty} : /\ IsDocument(d)
                                    /\ d.summaries = <<>> \/ d.summaries = <<Summary>>
  BY EmptyIsDocument, LedgerAssumption
  DEF DocInv, SummaryInv, Summed, Empty, Writers, LedgerAssumption
<1>2. ASSUME NEW r \in Runs, RunLoads(r) PROVE SummaryKept'
  <2>1. PICK d \in {ledger, Empty} : Hold(r, d, Appended(d, rows[r], <<>>))
    BY <1>2 DEF RunLoads
  <2> DEFINE e == Appended(d, rows[r], <<>>)
  <2>2. Hold(r, d, e) /\ UNCHANGED <<ledger, merged>>
    BY <1>2, <2>1 DEF RunLoads
  <2>3. e.summaries = d.summaries \o <<>>
    BY <1>1, AppendedSummaries
  <2> HIDE DEF e
  <2>4. e.summaries = d.summaries
    <3> DEFINE x == Summary
    <3>1. d.summaries = <<>> \/ d.summaries = <<x>>
      BY <1>1
    <3> HIDE DEF x
    <3> QED
      BY <2>3, <3>1
  <2> QED
    BY <1>1, <2>2, <2>4, SummaryHeld
<1>3. CASE MainLoads
  <2>1. PICK d \in {ledger, Empty} : Hold("main", d, Appended(d, <<>>, <<Summary>>))
    BY <1>3 DEF MainLoads
  <2> DEFINE e == Appended(d, <<>>, <<Summary>>)
  <2>2. Hold("main", d, e) /\ UNCHANGED <<ledger, merged>>
    BY <1>3, <2>1 DEF MainLoads
  <2>3. e.summaries = d.summaries \o <<Summary>>
    BY <1>1, AppendedSummaries
  <2> HIDE DEF e
  <2>4. e.summaries # <<>>
    <3> DEFINE x == Summary
    <3>1. e.summaries = d.summaries \o <<x>> /\ (d.summaries = <<>> \/ d.summaries = <<x>>)
      BY <1>1, <2>3
    <3> HIDE DEF x
    <3> QED
      BY <3>1
  <2> QED
    BY <1>1, <2>2, <2>4, SummaryHeld
<1>4. CASE OwnerLoads
  <2>1. PICK d, e :
          d \in {ledger, Empty} /\ Hold("owner", d, e) /\ e.summaries = d.summaries
    BY <1>1, <1>4, OwnerHolds
  <2>2. UNCHANGED <<ledger, merged>>
    BY <1>4 DEF OwnerLoads
  <2> QED
    BY <1>1, <2>1, <2>2, SummaryHeld
<1> QED
  BY <1>2, <1>3, <1>4

LEMMA SummarySaves ==
  ASSUME DocInv, LossInv, SummaryKept, NEW w \in Writers, Truncate(w) \/ Write(w) \/ SaveFails(w)
  PROVE  SummaryKept'
<1>1. DOMAIN pc = Writers /\ DOMAIN doc = Writers /\ Left(w) \in {"run", "over"}
  BY DEF DocInv, Left
<1>2. CASE Truncate(w)
  <2>1. Busy' = Busy /\ pc'[w] = "cut" /\ UNCHANGED <<doc, merged, hurt>>
    BY <1>1, <1>2 DEF Truncate, Busy
  <2> QED
    BY <2>1 DEF SummaryKept
<1>3. CASE Write(w) \/ SaveFails(w)
  <2> SUFFICES ASSUME ~hurt'
               PROVE  Busy' = {} /\ ("main" \in merged' <=> ledger'.summaries # <<>>)
    BY DEF SummaryKept
  <2>1. w \in Busy /\ ~hurt /\ pc' = [pc EXCEPT ![w] = Left(w)]
    <3>1. CASE Write(w)
      BY <3>1 DEF Write, Busy
    <3>2. CASE SaveFails(w)
      BY <3>2 DEF SaveFails
    <3> QED
      BY <1>3, <3>1, <3>2
  <2>2. Busy = {w}
    BY <2>1 DEF LossInv
  <2>3. Busy' = {}
    BY <1>1, <2>1, <2>2 DEF Busy
  <2>4. CASE Write(w)
    <3>1. ledger' = doc[w] /\ ("main" \in merged' <=> "main" \in merged \cup {w})
      BY <2>4 DEF Write
    <3> QED
      BY <2>1, <2>3, <3>1 DEF SummaryKept
  <2>5. CASE SaveFails(w)
    <3>1. UNCHANGED <<ledger, merged>> /\ pc[w] # "cut"
      BY <2>5 DEF SaveFails
    <3>2. \A v \in Writers : pc[v] # "cut"
      BY <2>2, <3>1 DEF Busy
    <3> QED
      BY <2>1, <2>3, <3>1, <3>2 DEF SummaryKept
  <2> QED
    BY <1>3, <2>4, <2>5
<1> QED
  BY <1>2, <1>3

LEMMA SummaryKeptStep ==
  ASSUME DocInv, LossInv, SummaryInv, SummaryKept, [Next]_vars
  PROVE  SummaryKept'
<1>1. CASE UNCHANGED vars
  BY <1>1 DEF vars, SummaryKept, Busy
<1>2. ASSUME NEW r \in Runs, RunEnds(r) \/ RunDies(r) PROVE SummaryKept'
  <2>1. /\ UNCHANGED <<ledger, doc, merged, hurt>> /\ pc[r] = "run" /\ DOMAIN pc = Writers
        /\ \E p \in {"merge", "over", "dead"} : pc' = [pc EXCEPT ![r] = p]
    BY <1>2 DEF RunEnds, RunDies, DocInv
  <2>2. Busy' = Busy /\ \A w \in Writers : pc'[w] = "cut" <=> pc[w] = "cut"
    BY <2>1 DEF Busy
  <2> QED
    BY <2>1, <2>2 DEF SummaryKept
<1>3. CASE Save
  BY <1>3, SummarySaves DEF Save
<1> QED
  BY <1>1, <1>2, <1>3, SummaryLoads DEF Next

\* A run that was merged is missing from the file, or one is in it that was not
\* merged, or a fleet's summary is, only after two writers overlapped, a read
\* failed or a save was cut short: LossHasACause of append_run_metrics.
THEOREM NothingElseLosesRows == Spec => []LossHasACause
<1>1. Init => SummaryKept
  <2> SUFFICES ASSUME Init PROVE SummaryKept
    OBVIOUS
  <2>1. Busy = {} /\ Empty.summaries = <<>>
    BY DEF Init, Busy, Empty
  <2> QED
    BY <2>1 DEF Init, SummaryKept
<1>2. LossInv /\ SummaryKept => LossHasACause
  BY DEF LossInv, SummaryKept, LossHasACause, Names
<1>3. DocInv /\ LossInv /\ SummaryInv /\ SummaryKept /\ [Next]_vars
        => (DocInv /\ LossInv /\ SummaryInv /\ SummaryKept)'
  BY InvStep, SummaryStep, SummaryKeptStep
<1> QED
  BY InitInv, SummaryInit, <1>1, <1>2, <1>3, PTL DEF Spec

----------------------------------------------------------------------------
(* Windows.                                                                *)

\* The next run id, if it is a new one.
WithRun(ids, id) == IF Contains(ids, id) THEN ids ELSE Append(ids, id)

\* RunIds goes through the rows one by one.
LEMMA RunIdsByRow ==
  ASSUME NEW s \in Seq(RunRow)
  PROVE  \E f \in [0..Len(s) -> Seq(Runs)] :
           /\ f[0] = <<>>
           /\ \A n \in 1..Len(s) : f[n] = WithRun(f[n - 1], s[n].run)
           /\ RunIds(s) = f[Len(s)]
<1> DEFINE N == Len(s)
           S == Seq(Runs)
           F == [x \in Nat \X S |-> IF x[1] \in 1..N THEN WithRun(x[2], s[x[1]].run) ELSE <<>>]
           Body(q) == [n \in 0..N |-> IF n = 0 THEN <<>> ELSE WithRun(q[n - 1], s[n].run)]
<1>1. N \in Nat /\ <<>> \in S /\ \A n \in 1..N : s[n].run \in Runs
  <2>1. \A n \in 1..N : s[n] \in RunRow
    OBVIOUS
  <2> QED
    BY <2>1 DEF RunRow
<1>2. \A b \in S, r \in Runs : WithRun(b, r) \in S
  <2>1. \A b \in S, r \in Runs : Append(b, r) \in S
    OBVIOUS
  <2> QED
    BY <2>1 DEF WithRun
<1>3. F \in [(Nat \X S) -> S]
  <2> HIDE DEF S, N
  <2> QED
    BY <1>1, <1>2
<1>4. PICK f \in [0..N -> S] : Recurs(f, <<>>, F, N)
  <2> HIDE DEF F, N, S
  <2>1. \E f \in [0..N -> S] : Recurs(f, <<>>, F, N)
    BY <1>1, <1>3, RecursionExists, Zenon
  <2> QED
    BY <2>1
<1>5. f[0] = <<>> /\ \A n \in 1..N : f[n] = WithRun(f[n - 1], s[n].run)
  <2>1. f[0] = <<>> /\ \A n \in 1..N : f[n] = F[<<n, f[n - 1]>>]
    BY <1>4 DEF Recurs
  <2>2. ASSUME NEW n \in 1..N PROVE F[<<n, f[n - 1]>>] = WithRun(f[n - 1], s[n].run)
    <3>1. n \in Nat /\ f[n - 1] \in S
      <4> HIDE DEF N, S
      <4> QED
        BY <1>1
    <3> HIDE DEF N, S
    <3> QED
      BY <3>1
  <2> QED
    BY <2>1, <2>2
<1>6. f = Body(f)
  <2> HIDE DEF F, S
  <2> QED
    BY <1>1, <1>5
<1>7. RunIds(s) = (CHOOSE q : q = Body(q))[N]
  BY DEF RunIds, WithRun
<1> DEFINE g == CHOOSE q : q = Body(q)
<1>8. g = Body(g)
  <2> HIDE DEF Body
  <2> QED
    BY <1>6
<1>9. RunIds(s) = g[N]
  BY <1>7
<1> HIDE DEF g, S
<1>10. g[0] = <<>> /\ \A n \in 1..N : g[n] = WithRun(g[n - 1], s[n].run)
  <2>1. \A n \in 0..N : g[n] = IF n = 0 THEN <<>> ELSE WithRun(g[n - 1], s[n].run)
    BY <1>8
  <2> QED
    BY <1>1, <2>1
<1>11. \A n \in 0..N : g[n] \in S
  <2> DEFINE P == {n \in 0..N : g[n] \in S}
  <2>1. 0 \in P
    BY <1>1, <1>10
  <2>2. \A n \in 1..N : n - 1 \in P => n \in P
    BY <1>1, <1>2, <1>10
  <2> HIDE DEF P
  <2>3. \A n \in 0..N : n \in P
    BY <1>1, <2>1, <2>2, BoundedInduction
  <2> QED
    BY <2>3 DEF P
<1>12. g \in [0..N -> S]
  <2>1. g = [n \in 0..N |-> g[n]]
    BY <1>8
  <2> QED
    BY <1>11, <2>1
<1> QED
  BY <1>9, <1>10, <1>12 DEF S

\* The ids of the first k rows of s, in the order of their first rows.
InOrder(s, k, ids) ==
  /\ ids \in Seq(Runs)
  /\ \A n \in 1..k : \E j \in 1..Len(ids) : ids[j] = s[n].run
  /\ \A j \in 1..Len(ids) : \E n \in 1..k : s[n].run = ids[j]
  /\ \A j \in 1..Len(ids), i \in 1..Len(ids) :
       i < j => \E m \in 1..k : s[m].run = ids[i] /\ \A n \in 1..k : s[n].run = ids[j] => m < n

LEMMA OrderGrows ==
  ASSUME NEW s \in Seq(RunRow), NEW k \in 1..Len(s), NEW ids, InOrder(s, k - 1, ids)
  PROVE  InOrder(s, k, WithRun(ids, s[k].run))
<1> DEFINE r == s[k].run
<1>1. k \in Nat /\ k - 1 \in Nat /\ \A n \in 1..k : n = k \/ n \in 1..(k - 1)
  OBVIOUS
<1>2. ids \in Seq(Runs) /\ r \in Runs /\ Len(ids) \in Nat
  <2>1. s[k] \in RunRow
    OBVIOUS
  <2> QED
    BY <2>1 DEF InOrder, RunRow
<1>3. CASE Contains(ids, r)
  <2>1. PICK c \in 1..Len(ids) : ids[c] = r
    BY <1>3 DEF Contains
  <2>2. WithRun(ids, r) = ids
    BY <1>3 DEF WithRun
  <2>3. \A n \in 1..k : \E j \in 1..Len(ids) : ids[j] = s[n].run
    BY <1>1, <2>1 DEF InOrder
  <2>4. \A j \in 1..Len(ids) : \E n \in 1..k : s[n].run = ids[j]
    <3> SUFFICES ASSUME NEW j \in 1..Len(ids) PROVE \E n \in 1..k : s[n].run = ids[j]
      OBVIOUS
    <3>1. PICK n \in 1..(k - 1) : s[n].run = ids[j]
      BY DEF InOrder
    <3> QED
      BY <1>1, <3>1
  <2>5. ASSUME NEW j \in 1..Len(ids), NEW i \in 1..Len(ids), i < j
        PROVE  \E m \in 1..k : s[m].run = ids[i] /\ \A n \in 1..k : s[n].run = ids[j] => m < n
    <3>1. PICK m \in 1..(k - 1) :
            s[m].run = ids[i] /\ \A n \in 1..(k - 1) : s[n].run = ids[j] => m < n
      BY <2>5 DEF InOrder
    <3>2. m \in 1..k /\ m < k
      BY <1>1
    <3> QED
      BY <1>1, <3>1, <3>2
  <2> QED
    BY <1>2, <2>2, <2>3, <2>4, <2>5 DEF InOrder
<1>4. CASE ~Contains(ids, r)
  <2> DEFINE new == Append(ids, r)
             L == Len(ids)
  <2>1. WithRun(ids, r) = new
    BY <1>4 DEF WithRun
  <2>2. new \in Seq(Runs) /\ Len(new) = L + 1 /\ new[L + 1] = r /\ \A j \in 1..L : new[j] = ids[j]
    BY <1>2
  <2>3. L \in Nat /\ \A j \in 1..(L + 1) : j = L + 1 \/ j \in 1..L
    BY <1>2
  <2> HIDE DEF new, L
  <2>4. \A n \in 1..(k - 1) : s[n].run # r
    BY <1>4 DEF InOrder, Contains
  <2>5. ASSUME NEW n \in 1..k PROVE \E j \in 1..(L + 1) : new[j] = s[n].run
    <3>1. CASE n = k
      BY <2>2, <2>3, <3>1
    <3>2. CASE n \in 1..(k - 1)
      <4>1. PICK j \in 1..L : ids[j] = s[n].run
        BY <3>2 DEF InOrder, L
      <4> QED
        BY <2>2, <2>3, <4>1
    <3> QED
      BY <1>1, <3>1, <3>2
  <2>6. ASSUME NEW j \in 1..(L + 1) PROVE \E n \in 1..k : s[n].run = new[j]
    <3>1. CASE j = L + 1
      BY <1>1, <2>2, <3>1
    <3>2. CASE j \in 1..L
      <4>1. PICK n \in 1..(k - 1) : s[n].run = ids[j]
        BY <3>2 DEF InOrder, L
      <4> QED
        BY <1>1, <2>2, <3>2, <4>1
    <3> QED
      BY <2>3, <3>1, <3>2
  <2>7. ASSUME NEW j \in 1..(L + 1), NEW i \in 1..(L + 1), i < j
        PROVE  \E m \in 1..k : s[m].run = new[i] /\ \A n \in 1..k : s[n].run = new[j] => m < n
    <3>0. i \in 1..L
      BY <2>3, <2>7
    <3>1. CASE j = L + 1
      <4>1. PICK m \in 1..(k - 1) : s[m].run = ids[i]
        BY <3>0 DEF InOrder, L
      <4>2. \A n \in 1..k : s[n].run = new[j] => n = k
        BY <1>1, <2>2, <2>4, <3>1
      <4> QED
        BY <1>1, <2>2, <3>0, <4>1, <4>2
    <3>2. CASE j \in 1..L
      <4>1. PICK m \in 1..(k - 1) :
              s[m].run = ids[i] /\ \A n \in 1..(k - 1) : s[n].run = ids[j] => m < n
        BY <2>7, <3>0, <3>2 DEF InOrder, L
      <4>2. m \in 1..k /\ m < k /\ new[i] = ids[i] /\ new[j] = ids[j]
        BY <1>1, <2>2, <3>0, <3>2
      <4> QED
        BY <1>1, <4>1, <4>2
    <3> QED
      BY <2>3, <3>1, <3>2
  <2> QED
    BY <2>1, <2>2, <2>5, <2>6, <2>7 DEF InOrder
<1> QED
  BY <1>3, <1>4

\* Run ids stand in the order of their runs' first rows.
LEMMA RunIdsInOrder ==
  ASSUME NEW s \in Seq(RunRow)
  PROVE  InOrder(s, Len(s), RunIds(s))
<1>1. PICK f \in [0..Len(s) -> Seq(Runs)] :
        /\ f[0] = <<>>
        /\ \A n \in 1..Len(s) : f[n] = WithRun(f[n - 1], s[n].run)
        /\ RunIds(s) = f[Len(s)]
  BY RunIdsByRow
<1> DEFINE P == {n \in 0..Len(s) : InOrder(s, n, f[n])}
<1>2. 0 \in P
  <2>1. InOrder(s, 0, <<>>)
    BY DEF InOrder
  <2> QED
    BY <1>1, <2>1
<1>3. ASSUME NEW n \in 1..Len(s), n - 1 \in P PROVE n \in P
  BY <1>1, <1>3, OrderGrows
<1>4. Len(s) \in Nat /\ Len(s) \in 0..Len(s)
  OBVIOUS
<1>5. \A n \in 0..Len(s) : n \in P
  <2> HIDE DEF P
  <2> QED
    BY <1>2, <1>3, <1>4, BoundedInduction
<1> QED
  BY <1>1, <1>4, <1>5

\* One window is before position c of the run ids, the other after it.
SplitAt(ids, w, c) ==
  /\ \A r : Contains(w.before, r) => \E i \in 1..Len(ids) : i <= c /\ ids[i] = r
  /\ \A r : Contains(w.after, r) => \E j \in 1..Len(ids) : c < j /\ ids[j] = r

LEMMA WindowsSplit ==
  ASSUME NEW s \in Seq(RunRow), NEW boundary
  PROVE  \E c \in Nat : SplitAt(RunIds(s), Windows(s, boundary), c)
<1> DEFINE ids == RunIds(s)
           at == SelectInSeq(ids, LAMBDA id : id = boundary)
           upTo(n) == IF n < Len(ids) THEN n ELSE Len(ids)
           from(n) == IF n > 1 THEN n ELSE 1
           w == Windows(s, boundary)
<1>1. ids \in Seq(Runs) /\ Len(ids) \in Nat /\ Window \in Nat
  BY RunIdsInOrder, LedgerAssumption DEF InOrder, LedgerAssumption
<1>2. at = 0 \/ at \in 1..Len(ids)
  <2> DEFINE I == {i \in 1..Len(ids) : ids[i] = boundary}
  <2>1. at = IF I # {} THEN Min(I) ELSE 0
    BY Zenon DEF SelectInSeq
  <2>2. ASSUME I # {} PROVE Min(I) \in I
    <3>1. I \in SUBSET Nat
      OBVIOUS
    <3>2. PICK n \in I : \A m \in I : n <= m
      BY <2>2, <3>1, LeastNatural
    <3> HIDE DEF I
    <3> QED
      BY <3>2 DEF Min
  <2> HIDE DEF I, at
  <2>3. CASE I = {}
    BY <2>1, <2>3
  <2>4. CASE I # {}
    BY <2>1, <2>2, <2>4 DEF I
  <2> QED
    BY <2>3, <2>4
<1>3. w = IF at = 0 THEN [before |-> <<>>, after |-> <<>>]
          ELSE [before |-> SubSeq(ids, from(at - Window + 1), at),
                after |-> SubSeq(ids, at + 1, upTo(at + Window))]
  BY Zenon DEF Windows
<1> HIDE DEF ids, at, w
<1>4. CASE at = 0
  <2>1. w.before = <<>> /\ w.after = <<>>
    BY <1>3, <1>4
  <2>2. \A r : ~Contains(<<>>, r)
    BY DEF Contains
  <2> QED
    BY <2>1, <2>2 DEF w, ids, SplitAt
<1>5. CASE at \in 1..Len(ids)
  <2>1. PICK a \in Nat, b \in Nat :
          /\ 1 <= a /\ b <= Len(ids)
          /\ w.before = SubSeq(ids, a, at) /\ w.after = SubSeq(ids, at + 1, b)
    <3>1. from(at - Window + 1) \in Nat /\ 1 <= from(at - Window + 1)
      BY <1>1, <1>5
    <3>2. upTo(at + Window) \in Nat /\ upTo(at + Window) <= Len(ids)
      BY <1>1, <1>5
    <3>3. w = [before |-> SubSeq(ids, from(at - Window + 1), at),
               after |-> SubSeq(ids, at + 1, upTo(at + Window))]
      BY <1>3, <1>5
    <3> HIDE DEF from, upTo
    <3> QED
      BY <3>1, <3>2, <3>3
  <2>2. ASSUME NEW m \in Nat, NEW n \in Nat, 1 <= m, n <= Len(ids), NEW r,
               Contains(SubSeq(ids, m, n), r)
        PROVE  \E i \in 1..Len(ids) : m <= i /\ i <= n /\ ids[i] = r
    <3> DEFINE u == SubSeq(ids, m, n)
    <3>1. \A i \in m..n : ids[i] \in Runs
      BY <1>1, <2>2
    <3>2. /\ Len(u) = IF m <= n THEN n - m + 1 ELSE 0
          /\ \A i \in 1..(n - m + 1) : u[i] = ids[m + i - 1]
      <4>1. m \in Int /\ n \in Int
        OBVIOUS
      <4> QED
        BY <3>1, <4>1, SubSeqProperties
    <3>3. PICK i \in 1..Len(u) : u[i] = r
      BY <2>2 DEF Contains
    <3> HIDE DEF u
    <3>4. m <= n /\ i \in 1..(n - m + 1)
      BY <3>2, <3>3
    <3>5. m + i - 1 \in 1..Len(ids) /\ m <= m + i - 1 /\ m + i - 1 <= n
      BY <1>1, <2>2, <3>4
    <3> QED
      BY <3>2, <3>3, <3>4, <3>5
  <2>3. at \in Nat /\ at + 1 \in Nat /\ at <= Len(ids) /\ 1 <= at + 1
    BY <1>1, <1>5
  <2>4. ASSUME NEW r, Contains(w.before, r)
        PROVE  \E i \in 1..Len(ids) : i <= at /\ ids[i] = r
    BY <2>1, <2>2, <2>3, <2>4
  <2>5. ASSUME NEW r, Contains(w.after, r)
        PROVE  \E j \in 1..Len(ids) : at < j /\ ids[j] = r
    <3>1. PICK j \in 1..Len(ids) : at + 1 <= j /\ ids[j] = r
      BY <2>1, <2>2, <2>3, <2>5
    <3>2. at < j
      BY <1>1, <2>3, <3>1
    <3> QED
      BY <3>1, <3>2
  <2> QED
    BY <2>3, <2>4, <2>5 DEF w, ids, SplitAt
<1> QED
  BY <1>2, <1>4, <1>5

\* All rows of a run before the split come before all rows of a run after it,
\* in a file in which the runs are whole.
LEMMA BlocksInOrder ==
  ASSUME NEW s \in Seq(RunRow), NEW p, NEW b, WholeIn(s, p, b),
         \A r \in Names(s) : b[r] \in Seq(RunRow),
         NEW i \in 1..Len(RunIds(s)), NEW j \in 1..Len(RunIds(s)), i < j,
         NEW m \in DOMAIN s, NEW n \in DOMAIN s,
         s[m].run = RunIds(s)[i], s[n].run = RunIds(s)[j]
  PROVE  m < n
<1> DEFINE r == RunIds(s)[i]
           q == RunIds(s)[j]
<1>1. DOMAIN s = 1..Len(s) /\ Len(s) \in Nat
  OBVIOUS
<1>2. PICK f \in 1..Len(s) : s[f].run = r /\ \A x \in 1..Len(s) : s[x].run = q => f < x
  BY RunIdsInOrder DEF InOrder
<1> HIDE DEF r, q
<1>3. s[m].run = r /\ s[n].run = q
  BY DEF r, q
<1>4. r \in Names(s)
  BY <1>3 DEF Names
<1>5. b[r] \in Seq(RunRow) /\ IsBlock(s, r, b[r])
  BY <1>4 DEF WholeIn
<1>6. PICK k \in 0..(Len(s) - Len(b[r])) :
        \A x \in DOMAIN s : s[x].run = r <=> x \in (k + 1)..(k + Len(b[r]))
  BY <1>5 DEF IsBlock
<1>7. Len(b[r]) \in Nat
  BY <1>5
<1>8. f < n /\ r # q
  BY <1>1, <1>2, <1>3
<1>9. f \in (k + 1)..(k + Len(b[r])) /\ m \in (k + 1)..(k + Len(b[r])) /\ n \notin (k + 1)..(k + Len(b[r]))
  BY <1>1, <1>2, <1>3, <1>6, <1>8
<1> QED
  BY <1>1, <1>7, <1>8, <1>9

\* The rows before a proposal's merge and those after it do not mix in the file,
\* whatever run it names and however long the window: WindowsAreApart of
\* split_proposal_run_windows.
THEOREM WindowsDoNotMeet == Spec => []WindowsAreApart
<1>1. Init => WholeInv
  <2>1. Init => ledger = Empty /\ \A w \in Writers : doc[w] = Empty
    BY DEF Init
  <2> QED
    BY <2>1, WholeEmpty DEF WholeInv
<1>2. DocInv /\ WholeInv => WindowsAreApart
  <2> SUFFICES ASSUME DocInv, WholeInv, NEW p \in Proposals,
                      NEW m \in DOMAIN ledger.iterations, NEW n \in DOMAIN ledger.iterations,
                      LET w == Windows(ledger.iterations, ledger.outcomes[p].boundary)
                      IN  /\ Contains(w.before, ledger.iterations[m].run)
                          /\ Contains(w.after, ledger.iterations[n].run)
               PROVE  m < n
    BY DEF WindowsAreApart
  <2> DEFINE s == ledger.iterations
             boundary == ledger.outcomes[p].boundary
  <2>1. s \in Seq(RunRow) /\ WholeIn(s, pc, rows)
    BY DEF DocInv, IsDocument, WholeInv
  <2>2. \A r \in Names(s) : rows[r] \in Seq(RunRow)
    BY <2>1, NamesAreRuns DEF DocInv
  <2>3. Contains(Windows(s, boundary).before, s[m].run) /\ Contains(Windows(s, boundary).after, s[n].run)
    OBVIOUS
  <2>4. m \in DOMAIN s /\ n \in DOMAIN s
    OBVIOUS
  <2> HIDE DEF s, boundary
  <2>5. PICK c \in Nat : SplitAt(RunIds(s), Windows(s, boundary), c)
    BY <2>1, WindowsSplit
  <2>6. PICK i \in 1..Len(RunIds(s)) : i <= c /\ RunIds(s)[i] = s[m].run
    BY <2>3, <2>5 DEF SplitAt
  <2>7. PICK j \in 1..Len(RunIds(s)) : c < j /\ RunIds(s)[j] = s[n].run
    BY <2>3, <2>5 DEF SplitAt
  <2>8. i < j
    BY <2>5, <2>6, <2>7
  <2> QED
    BY <2>1, <2>2, <2>4, <2>6, <2>7, <2>8, BlocksInOrder
<1>3. DocInv /\ LossInv /\ WholeInv /\ [Next]_vars => (DocInv /\ LossInv /\ WholeInv)'
  BY InvStep, WholeStep
<1> QED
  BY InitInv, <1>1, <1>2, <1>3, PTL DEF Spec
=============================================================================
