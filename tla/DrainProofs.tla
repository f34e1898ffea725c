---------------------------- MODULE DrainProofs ----------------------------
(***************************************************************************)
(* The waves of a backlog, the fleet hook's choice and lint's search for   *)
(* a cycle, for backlogs of any length.  The two recursions are unfolded   *)
(* once each, in PlacedRounds and SearchRuns; what follows are inductions  *)
(* over the rounds of the waves and over the steps of the search.          *)
(***************************************************************************)
EXTENDS LintDrain, Inductions, FiniteSetTheorems, SequenceTheorems

\* A task of a plan that is worked on.  "done" and "blocked" are words too, but
\* the provers do not know that a literal is a member of STRING.
PlanTask ==
  [id : STRING, status : STRING \cup {"done", "blocked"}, by : STRING, deps : SUBSET STRING,
   phase : STRING, prio : Nat, reqs : SUBSET STRING]

LEMMA TaskOfBacklog == \A ts \in Seq(PlanTask) : \A i \in DOMAIN ts : ts[i] \in PlanTask
  OBVIOUS

----------------------------------------------------------------------------
(* The rounds of waves().                                                  *)

\* The recursive function has the value its definition suggests.
LEMMA PlacedRounds ==
  ASSUME NEW ts \in Seq(PlanTask)
  PROVE  /\ Placed(ts) \in [0..Len(ts) -> SUBSET (DOMAIN ts)]
         /\ Placed(ts)[0] = {}
         /\ \A n \in 1..Len(ts) :
              Placed(ts)[n] = Round(ts, DoneIds(ts, DOMAIN ts), Placed(ts)[n - 1])
  <1> DEFINE done == DoneIds(ts, DOMAIN ts)
             D == DOMAIN ts
             N == Len(ts)
             F == [x \in Nat \X (SUBSET D) |-> Round(ts, done, x[2])]
             Body(q) == [n \in 0..N |-> IF n = 0 THEN {} ELSE Round(ts, done, q[n - 1])]
  <1>1. \A S \in SUBSET D : Round(ts, done, S) \in SUBSET D
    BY DEF Round
  <1>2. F \in [(Nat \X (SUBSET D)) -> SUBSET D]
    BY <1>1
  <1>3. N \in Nat /\ {} \in SUBSET D
    OBVIOUS
  <1>4. PICK f \in [0..N -> SUBSET D] : Recurs(f, {}, F, N)
    <2> DEFINE S == SUBSET D
    <2>1. F \in [(Nat \X S) -> S] /\ {} \in S
      BY <1>2, <1>3
    <2> HIDE DEF F, N, S
    <2>2. \E f \in [0..N -> S] : Recurs(f, {}, F, N)
      BY <1>3, <2>1, RecursionExists, Zenon
    <2> QED
      BY <2>2 DEF S
  <1>5. f[0] = {} /\ \A n \in 1..N : f[n] = Round(ts, done, f[n - 1])
    BY <1>3, <1>4 DEF Recurs
  <1>6. f = Body(f)
    <2> HIDE DEF done, F
    <2> QED
      BY <1>3, <1>5
  <1>7. Placed(ts) = CHOOSE q : q = Body(q)
    BY DEF Placed
  <1> DEFINE p == Placed(ts)
  <1>8. p = Body(p)
    <2> HIDE DEF Body
    <2> QED
      BY <1>6, <1>7
  <1> HIDE DEF p, done
  <1>9. p[0] = {} /\ \A n \in 1..N : p[n] = Round(ts, done, p[n - 1])
    <2>1. \A n \in 0..N : p[n] = IF n = 0 THEN {} ELSE Round(ts, done, p[n - 1])
      BY <1>8
    <2> QED
      BY <1>3, <2>1
  <1>10. \A n \in 0..N : p[n] \in SUBSET D
    <2> DEFINE P == {n \in 0..N : p[n] \in SUBSET D}
    <2>1. 0 \in P
      BY <1>3, <1>9
    <2>2. \A n \in 1..N : n - 1 \in P => n \in P
      BY <1>1, <1>3, <1>9
    <2> HIDE DEF P
    <2>3. \A n \in 0..N : n \in P
      BY <1>3, <2>1, <2>2, BoundedInduction
    <2> QED
      BY <2>3 DEF P
  <1>11. p \in [0..N -> SUBSET D]
    <2>1. p = [n \in 0..N |-> p[n]]
      BY <1>8
    <2> QED
      BY <1>10, <2>1
  <1> QED
    BY <1>9, <1>11 DEF p, done

\* A round only adds to what is placed, and so do later rounds.
LEMMA PlacedGrows ==
  ASSUME NEW ts \in Seq(PlanTask), NEW m \in 0..Len(ts), NEW n \in 0..Len(ts), m <= n
  PROVE  Placed(ts)[m] \subseteq Placed(ts)[n]
  <1> DEFINE p == Placed(ts)
             P == {k \in 0..Len(ts) : k >= m => p[m] \subseteq p[k]}
  <1>1. \A k \in 1..Len(ts) : p[k - 1] \subseteq p[k]
    BY PlacedRounds DEF Round
  <1> HIDE DEF p
  <1>2. 0 \in P
    OBVIOUS
  <1>3. \A k \in 1..Len(ts) : k - 1 \in P => k \in P
    BY <1>1
  <1>4. Len(ts) \in Nat
    OBVIOUS
  <1> HIDE DEF P
  <1>5. \A k \in 0..Len(ts) : k \in P
    BY <1>2, <1>3, <1>4, BoundedInduction
  <1> QED
    BY <1>5 DEF P, p

\* As many rounds as there are tasks are enough: one more places nothing.
LEMMA PlacedEnds ==
  ASSUME NEW ts \in Seq(PlanTask)
  PROVE  Round(ts, DoneIds(ts, DOMAIN ts), Placed(ts)[Len(ts)]) = Placed(ts)[Len(ts)]
  <1> DEFINE p == Placed(ts)
             N == Len(ts)
             D == DOMAIN ts
             R(S) == Round(ts, DoneIds(ts, DOMAIN ts), S)
  <1>1. N \in Nat /\ D = 1..N
    OBVIOUS
  <1>2. p \in [0..N -> SUBSET D] /\ \A n \in 1..N : p[n] = R(p[n - 1])
    BY PlacedRounds
  <1>3. \A S \in SUBSET D : R(S) \in SUBSET D /\ S \subseteq R(S)
    BY DEF Round
  <1> HIDE DEF p, N, D, R
  <1> SUFFICES ASSUME R(p[N]) # p[N] PROVE FALSE
    BY DEF p, N, R
  <1>4. IsFiniteSet(D) /\ Cardinality(D) = N
    BY <1>1, FS_Interval
  <1>5. ASSUME NEW n \in 1..N PROVE p[n - 1] # p[n]
    <2> SUFFICES ASSUME p[n - 1] = p[n] PROVE FALSE
      OBVIOUS
    <2> DEFINE P == {k \in 0..N : k >= n => p[k] = p[n]}
    <2>1. 0 \in P
      BY <1>1
    <2>2. ASSUME NEW k \in 1..N, k - 1 \in P PROVE k \in P
      <3>1. CASE k - 1 >= n
        <4>1. p[k] = R(p[n]) /\ p[n] = R(p[n - 1])
          BY <1>1, <1>2, <2>2, <3>1
        <4> QED
          BY <2>2, <4>1
      <3>2. CASE k - 1 < n
        BY <1>1, <3>2
      <3> QED
        BY <1>1, <3>1, <3>2
    <2> HIDE DEF P
    <2>3. \A k \in 0..N : k \in P
      BY <1>1, <2>1, <2>2, BoundedInduction
    <2>4. N \in 0..N /\ n <= N
      BY <1>1
    <2>5. p[N] = p[n]
      BY <1>1, <2>3, <2>4 DEF P
    <2>6. p[n] = R(p[n - 1])
      BY <1>2
    <2> QED
      BY <2>5, <2>6
  <1>6. \A n \in 0..N : IsFiniteSet(p[n]) /\ Cardinality(p[n]) >= n
    <2> DEFINE P == {n \in 0..N : IsFiniteSet(p[n]) /\ Cardinality(p[n]) >= n}
    <2>1. \A n \in 0..N : IsFiniteSet(p[n]) /\ Cardinality(p[n]) \in Nat
      <3>1. \A n \in 0..N : p[n] \subseteq D
        BY <1>2
      <3> QED
        BY <1>4, <3>1, FS_Subset, FS_CardinalityType
    <2>2. 0 \in P
      BY <1>1, <2>1
    <2>3. ASSUME NEW n \in 1..N, n - 1 \in P PROVE n \in P
      <3>1. n - 1 \in 0..N /\ n \in 0..N
        BY <1>1
      <3>2. p[n - 1] \subseteq p[n] /\ p[n - 1] # p[n]
        BY <1>2, <1>3, <1>5, <3>1
      <3>3. Cardinality(p[n - 1]) <= Cardinality(p[n]) /\ Cardinality(p[n - 1]) # Cardinality(p[n])
        BY <2>1, <3>1, <3>2, FS_Subset
      <3>4. Cardinality(p[n]) >= n
        BY <1>1, <2>1, <2>3, <3>1, <3>3
      <3> QED
        BY <2>1, <3>1, <3>4
    <2> HIDE DEF P
    <2>4. \A n \in 0..N : n \in P
      BY <1>1, <2>2, <2>3, BoundedInduction
    <2> QED
      BY <2>4 DEF P
  <1>7. N \in 0..N
    BY <1>1
  <1>8. p[N] \subseteq D /\ Cardinality(p[N]) >= N
    BY <1>2, <1>6, <1>7
  <1>9. p[N] = D
    <2>1. Cardinality(p[N]) <= Cardinality(D) /\ Cardinality(p[N]) \in Nat
      BY <1>4, <1>6, <1>7, <1>8, FS_Subset, FS_CardinalityType
    <2>2. Cardinality(p[N]) = Cardinality(D)
      BY <1>1, <1>4, <1>8, <2>1
    <2> QED
      BY <1>4, <1>8, <2>2, FS_Subset
  <1>10. R(D) \subseteq D /\ D \subseteq R(D)
    BY <1>3
  <1> QED
    BY <1>9, <1>10

\* The waves are the rounds up to some depth, where nothing more is placed, and
\* the stuck tasks.
LEMMA WavesShape ==
  ASSUME NEW ts \in Seq(PlanTask)
  PROVE  \E depth \in 0..Len(ts) :
           /\ Placed(ts)[depth] = Placed(ts)[Len(ts)]
           /\ \A n \in 1..depth : Waves(ts)[n] = Placed(ts)[n] \ Placed(ts)[n - 1]
           /\ Stuck(ts) = {} => DOMAIN Waves(ts) = 1..depth
           /\ Stuck(ts) # {} => /\ DOMAIN Waves(ts) = 1..(depth + 1)
                                /\ Waves(ts)[depth + 1] = Stuck(ts)
  <1> DEFINE p == Placed(ts)
             N == Len(ts)
             IsDepth(n) == p[n] = p[N] /\ \A m \in 0..(n - 1) : p[m] # p[N]
             T == {n \in 0..N : p[n] = p[N]}
  <1>1. N \in Nat
    OBVIOUS
  <1>2. \E n \in 0..N : IsDepth(n)
    <2>1. T \in SUBSET Nat /\ N \in T
      BY <1>1
    <2> HIDE DEF T
    <2>2. PICK n \in T : \A m \in T : n <= m
      BY <2>1, LeastNatural
    <2>3. n \in 0..N /\ p[n] = p[N]
      BY DEF T
    <2>4. ASSUME NEW m \in 0..(n - 1), p[m] = p[N] PROVE FALSE
      <3>1. m \in T /\ m < n
        BY <1>1, <2>3, <2>4 DEF T
      <3> QED
        BY <1>1, <2>2, <2>3, <3>1
    <2> QED
      BY <2>3, <2>4
  <1> DEFINE depth == CHOOSE n \in 0..N : IsDepth(n)
  <1>3. depth \in 0..N /\ IsDepth(depth)
    BY <1>2
  <1> DEFINE rounds == [n \in 1..depth |-> p[n] \ p[n - 1]]
  <1>4. Waves(ts) = IF Stuck(ts) = {} THEN rounds ELSE Append(rounds, Stuck(ts))
    BY DEF Waves
  <1> HIDE DEF depth
  <1>5. depth \in Nat
    BY <1>1, <1>3
  <1>6. CASE Stuck(ts) = {}
    BY <1>3, <1>4, <1>6
  <1>7. CASE Stuck(ts) # {}
    <2> DEFINE w == Append(rounds, Stuck(ts))
             S == SUBSET (DOMAIN ts)
    <2>0. rounds \in [1..depth -> S]
      <3>1. p \in [0..N -> S]
        BY PlacedRounds
      <3>2. ASSUME NEW n \in 1..depth PROVE p[n] \ p[n - 1] \in S
        <4>1. n \in 0..N /\ n - 1 \in 0..N
          BY <1>1, <1>3
        <4>2. p[n] \in S
          BY <3>1, <4>1
        <4> QED
          BY <4>2
      <3> QED
        BY <3>2
    <2>1. /\ DOMAIN w = 1..(depth + 1) /\ w[depth + 1] = Stuck(ts)
          /\ \A n \in 1..depth : w[n] = rounds[n]
      <3>1. rounds \in Seq(S) /\ Len(rounds) = depth
        BY <1>5, <2>0
      <3> QED
        BY <1>5, <2>0, <3>1
    <2>2. Waves(ts) = w
      BY <1>4, <1>7
    <2> HIDE DEF w
    <2> QED
      BY <1>3, <1>7, <2>1, <2>2
  <1> QED
    BY <1>6, <1>7

----------------------------------------------------------------------------
(* The waves are dependency levels.                                        *)

\* The stuck tasks wait for one another or for a missing task, and every set of
\* tasks that does so is among them.
LEMMA StuckIsLargest ==
  ASSUME NEW ts \in Seq(PlanTask)
  PROVE  /\ WaitsWithin(ts, Stuck(ts))
         /\ \A T \in SUBSET (DOMAIN ts) : WaitsWithin(ts, T) => T \subseteq Stuck(ts)
  <1> DEFINE p == Placed(ts)
             N == Len(ts)
             done == DoneIds(ts, DOMAIN ts)
  <1>1. N \in Nat /\ N \in 0..N
    OBVIOUS
  <1>2. WaitsWithin(ts, Stuck(ts))
    <2> SUFFICES ASSUME NEW i \in DOMAIN ts, i \notin p[N]
                 PROVE  \E d \in ts[i].deps :
                          /\ d \notin done
                          /\ \A j \in DOMAIN ts : ts[j].id = d => j \notin p[N]
      BY DEF WaitsWithin, Stuck
    <2>1. i \notin Round(ts, done, p[N])
      BY PlacedEnds
    <2> QED
      BY <2>1 DEF Round
  <1>3. ASSUME NEW T \in SUBSET (DOMAIN ts), WaitsWithin(ts, T) PROVE T \subseteq Stuck(ts)
    <2> DEFINE P == {n \in 0..N : T \cap p[n] = {}}
    <2>1. 0 \in P
      BY <1>1, PlacedRounds
    <2>2. ASSUME NEW n \in 1..N, n - 1 \in P PROVE n \in P
      <3> SUFFICES ASSUME NEW i \in T, i \in p[n] PROVE FALSE
        OBVIOUS
      <3>1. n - 1 \in 0..N /\ T \cap p[n - 1] = {} /\ p[n] = Round(ts, done, p[n - 1])
        BY <1>1, <2>2, PlacedRounds
      <3>2. ts[i].deps \subseteq done \cup {ts[j].id : j \in p[n - 1]}
        BY <3>1 DEF Round
      <3>3. PICK d \in ts[i].deps :
              d \notin done /\ \A j \in DOMAIN ts : ts[j].id = d => j \in T
        BY <1>3 DEF WaitsWithin
      <3>4. p[n - 1] \subseteq DOMAIN ts
        BY <3>1, PlacedRounds
      <3> QED
        BY <3>1, <3>2, <3>3, <3>4
    <2> HIDE DEF P
    <2>3. \A n \in 0..N : n \in P
      BY <1>1, <2>1, <2>2, BoundedInduction
    <2>4. T \cap p[N] = {}
      BY <1>1, <2>3 DEF P
    <2> QED
      BY <2>4 DEF Stuck
  <1> QED
    BY <1>2, <1>3

Level(ts, i) == CHOOSE n \in DOMAIN Waves(ts) : i \in Waves(ts)[n]

\* The wave of a task is the first round that places it.
LEMMA LevelIsFirstRound ==
  ASSUME NEW ts \in Seq(PlanTask), NEW i \in DOMAIN ts \ Stuck(ts)
  PROVE  /\ Level(ts, i) \in 1..Len(ts)
         /\ i \in Placed(ts)[Level(ts, i)]
         /\ \A m \in 0..Len(ts) : i \in Placed(ts)[m] <=> Level(ts, i) <= m
  <1> DEFINE p == Placed(ts)
             N == Len(ts)
             w == Waves(ts)
             T == {n \in 0..N : i \in p[n]}
  <1>1. N \in Nat /\ N \in 0..N
    OBVIOUS
  <1>2. PICK depth \in 0..N :
          /\ p[depth] = p[N]
          /\ \A n \in 1..depth : w[n] = p[n] \ p[n - 1]
          /\ Stuck(ts) = {} => DOMAIN w = 1..depth
          /\ Stuck(ts) # {} => DOMAIN w = 1..(depth + 1) /\ w[depth + 1] = Stuck(ts)
    BY WavesShape
  <1> HIDE DEF p, N, w
  <1>3. i \in p[depth]
    BY <1>2 DEF Stuck, p, N
  <1>4. PICK n \in T : \A m \in T : n <= m
    <2>1. T \in SUBSET Nat /\ depth \in T
      BY <1>1, <1>3
    <2> HIDE DEF T
    <2> QED
      BY <2>1, LeastNatural
  <1>5. n \in 0..N /\ i \in p[n] /\ n <= depth
    BY <1>3, <1>4
  <1>6. \A m \in 0..N : i \in p[m] <=> n <= m
    <2>1. \A m \in 0..N : n <= m => p[n] \subseteq p[m]
      BY <1>5, PlacedGrows DEF p, N
    <2> QED
      BY <1>4, <1>5, <2>1
  <1>7. n \in 1..depth
    <2>1. i \notin p[0]
      BY PlacedRounds DEF p
    <2> QED
      BY <1>1, <1>5, <2>1
  <1>8. \A m \in DOMAIN w : i \in w[m] <=> m = n
    <2>1. \A m \in 1..depth : i \in w[m] <=> m = n
      <3>1. ASSUME NEW m \in 1..depth PROVE i \in w[m] <=> m = n
        <4>1. m \in 0..N /\ m - 1 \in 0..N /\ w[m] = p[m] \ p[m - 1]
          BY <1>1, <1>2
        <4>2. i \in w[m] <=> n <= m /\ ~(n <= m - 1)
          BY <1>6, <4>1
        <4> QED
          BY <1>1, <1>5, <4>1, <4>2
      <3> QED
        BY <3>1
    <2>2. \A m \in DOMAIN w : m \in 1..depth \/ w[m] = Stuck(ts)
      BY <1>1, <1>2
    <2>3. i \notin Stuck(ts) /\ n \in 1..depth
      BY <1>7
    <2> QED
      BY <2>1, <2>2, <2>3
  <1>9. n \in DOMAIN w
    BY <1>1, <1>2, <1>7
  <1>10. Level(ts, i) = n
    BY <1>8, <1>9 DEF Level, w
  <1>11. n \in 1..N
    BY <1>1, <1>7
  <1> QED
    BY <1>5, <1>6, <1>10, <1>11 DEF p, N

\* A placed task is one wave after the last of its unfinished dependencies.
LEMMA LevelsStep ==
  ASSUME NEW ts \in Seq(PlanTask), UniqueIds(ts), NEW i \in DOMAIN ts \ Stuck(ts)
  PROVE  LET open == {j \in DOMAIN ts :
                        ts[j].id \in ts[i].deps /\ ts[j].id \notin DoneIds(ts, DOMAIN ts)}
         IN  /\ \A j \in open : Level(ts, j) < Level(ts, i)
             /\ Level(ts, i) > 1 => \E j \in open : Level(ts, j) = Level(ts, i) - 1
  <1> DEFINE p == Placed(ts)
             N == Len(ts)
             D == DOMAIN ts
             done == DoneIds(ts, DOMAIN ts)
             n == Level(ts, i)
             open == {j \in D : ts[j].id \in ts[i].deps /\ ts[j].id \notin done}
  <1>1. N \in Nat /\ n \in 1..N /\ i \in p[n] /\ \A m \in 0..N : i \in p[m] <=> n <= m
    BY LevelIsFirstRound
  <1>2. p \in [0..N -> SUBSET D] /\ \A m \in 1..N : p[m] = Round(ts, done, p[m - 1])
    BY PlacedRounds
  <1>3. \A m \in 0..N : \A j \in p[m] : Level(ts, j) \in 1..N /\ Level(ts, j) <= m
    <2>1. ASSUME NEW m \in 0..N, NEW j \in p[m] PROVE Level(ts, j) \in 1..N /\ Level(ts, j) <= m
      <3>1. j \in D /\ p[m] \subseteq p[N]
        BY <1>1, <1>2, PlacedGrows
      <3>2. j \in D \ Stuck(ts)
        BY <3>1 DEF Stuck
      <3> QED
        BY <3>2, LevelIsFirstRound
    <2> QED
      BY <2>1
  <1>4. \A m \in 0..N : \A j \in D \ Stuck(ts) : Level(ts, j) <= m => j \in p[m]
    BY LevelIsFirstRound
  <1> HIDE DEF p, N, D, done, n
  <1>5. n - 1 \in 0..N /\ i \in Round(ts, done, p[n - 1]) /\ i \notin p[n - 1]
    BY <1>1, <1>2
  <1>6. ts[i].deps \subseteq done \cup {ts[k].id : k \in p[n - 1]}
    BY <1>5 DEF Round
  <1>7. \A j \in open : Level(ts, j) < n
    <2> SUFFICES ASSUME NEW j \in open PROVE Level(ts, j) < n
      OBVIOUS
    <2>1. PICK k \in p[n - 1] : ts[k].id = ts[j].id
      BY <1>6
    <2>2. k \in D /\ j \in D
      BY <1>2, <1>5
    <2>3. k = j
      BY <2>1, <2>2 DEF UniqueIds, D
    <2> QED
      BY <1>1, <1>3, <1>5, <2>1, <2>3
  <1>8. ASSUME n > 1 PROVE \E j \in open : Level(ts, j) = n - 1
    <2>1. n - 1 \in 1..N /\ n - 2 \in 0..N /\ (n - 1) - 1 = n - 2
      BY <1>1, <1>8
    <2>2. i \notin Round(ts, done, p[n - 2])
      BY <1>2, <1>5, <2>1
    <2>3. PICK d \in ts[i].deps : d \notin done \cup {ts[k].id : k \in p[n - 2]}
      BY <2>2 DEF Round, D
    <2>4. PICK j \in p[n - 1] : ts[j].id = d
      BY <1>6, <2>3
    <2>5. j \in open /\ j \notin p[n - 2]
      BY <1>2, <1>5, <2>3, <2>4
    <2>6. Level(ts, j) \in 1..N /\ Level(ts, j) <= n - 1
      BY <1>3, <1>5, <2>4
    <2>7. j \in D \ Stuck(ts)
      <3>1. p[n - 1] \subseteq p[N] /\ p[N] \subseteq D
        BY <1>1, <1>2, <1>5, PlacedGrows DEF p, N
      <3> QED
        BY <2>4, <3>1 DEF Stuck, p, N
    <2>8. ~(Level(ts, j) <= n - 2)
      BY <1>4, <2>1, <2>5, <2>7
    <2> QED
      BY <1>1, <2>5, <2>6, <2>8
  <1> QED
    BY <1>7, <1>8 DEF open, D, done, n

----------------------------------------------------------------------------
(* The hook's choice.                                                      *)

\* If anything could run, all of it is in the first wave, and so is every done
\* task: what the first wave hides is neither a candidate nor a dependency.
LEMMA HookCandidates ==
  ASSUME NEW ts \in Seq(PlanTask), DoneClosed(ts),
         NEW S, S = {i \in DOMAIN ts : ts[i].id \in AllowedIds(ts) \ {}}
  PROVE  Candidates(ts, S, Autonomy) = Candidates(ts, DOMAIN ts, Autonomy)
  <1> DEFINE p == Placed(ts)
             N == Len(ts)
             D == DOMAIN ts
             done == DoneIds(ts, D)
             w == Waves(ts)
             first == {i \in D : ts[i].deps \subseteq done}
  <1>1. N \in Nat /\ D = 1..N /\ S \subseteq D
    OBVIOUS
  <1>2. N > 0 => p[1] = first
    <2>1. ASSUME N > 0 PROVE p[1] = Round(ts, done, p[0]) /\ p[0] = {}
      <3>1. 1 \in 1..N /\ 1 - 1 = 0
        BY <1>1, <2>1
      <3> QED
        BY <3>1, PlacedRounds
    <2> QED
      BY <2>1 DEF Round
  <1>3. \A i \in D : IsDone(ts[i]) => i \in first
    BY DEF DoneClosed
  <1>4. \A T \in SUBSET D : Candidates(ts, T, Autonomy) \subseteq {i \in first : ~IsDone(ts[i])}
    BY DEF Candidates, Candidate, DoneIds, IsDone
  <1>5. CASE \A i \in first : IsDone(ts[i])
    <2>1. {i \in first : ~IsDone(ts[i])} = {}
      BY <1>5
    <2>2. D \in SUBSET D /\ S \in SUBSET D
      BY <1>1
    <2> QED
      BY <1>4, <2>1, <2>2
  <1>6. CASE \E i \in first : ~IsDone(ts[i])
    <2>1. N > 0 /\ p[1] = first /\ p[0] = {}
      BY <1>1, <1>2, <1>6, PlacedRounds
    <2>2. PICK depth \in 0..N :
            /\ p[depth] = p[N]
            /\ \A n \in 1..depth : w[n] = p[n] \ p[n - 1]
            /\ Stuck(ts) = {} => DOMAIN w = 1..depth
            /\ Stuck(ts) # {} => DOMAIN w = 1..(depth + 1) /\ w[depth + 1] = Stuck(ts)
      BY WavesShape
    <2>3. p[1] \subseteq p[N]
      <3>1. 1 \in 0..N /\ N \in 0..N /\ 1 <= N
        BY <1>1, <2>1
      <3> QED
        BY <3>1, PlacedGrows
    <2> HIDE DEF p, N, D, w, first
    <2>4. depth >= 1
      BY <1>1, <1>6, <2>1, <2>2, <2>3
    <2>5. w[1] = first /\ 1 \in DOMAIN w /\ DOMAIN w \subseteq Nat \ {0}
      <3>1. 1 \in 1..depth /\ 1 - 1 = 0
        BY <1>1, <2>4
      <3>2. w[1] = first
        BY <2>1, <2>2, <3>1
      <3> QED
        BY <1>1, <2>2, <3>1, <3>2
    <2> DEFINE open == {n \in DOMAIN w : \E i \in w[n] : ~IsDone(ts[i])}
    <2>6. 1 \in open /\ open \subseteq Nat \ {0}
      BY <1>6, <2>5
    <2> DEFINE least == CHOOSE n \in open : \A m \in open : n <= m
    <2>7. least = 1
      <3> HIDE DEF open
      <3>1. \A n \in open : (\A m \in open : n <= m) <=> n = 1
        BY <2>6
      <3> QED
        BY <2>6, <3>1
    <2>8. AllowedIds(ts) = {ts[i].id : i \in w[least]}
      BY <2>6 DEF AllowedIds, w
    <2> HIDE DEF least, open
    <2>9. first \subseteq S
      <3>1. first \subseteq D
        BY DEF first
      <3> QED
        BY <2>5, <2>7, <2>8, <3>1 DEF D
    <2>10. DoneIds(ts, S) = done
      BY <1>1, <1>3, <2>9 DEF DoneIds, D
    <2> QED
      BY <1>1, <1>4, <2>9, <2>10 DEF Candidates, D
  <1> QED
    BY <1>5, <1>6

\* Where done tasks wait for nothing open, the wave filter changes no choice.
LEMMA PickIsSelectNext ==
  ASSUME tasks \in Seq(PlanTask), DoneClosed(tasks)
  PROVE  Pick = SelectNext(tasks, Autonomy, "")
  <1> DEFINE S == {i \in DOMAIN tasks : tasks[i].id \in AllowedIds(tasks) \ {}}
  <1>1. Candidates(tasks, S, Autonomy) = Candidates(tasks, DOMAIN tasks, Autonomy)
    BY HookCandidates
  <1>2. Firsts(tasks, S, Autonomy, "") = Firsts(tasks, DOMAIN tasks, Autonomy, "")
    <2> HIDE DEF S
    <2> QED
      BY <1>1 DEF Firsts
  <1> DEFINE Of(F) == IF F = {} THEN NoTask ELSE CHOOSE i \in F : TRUE
  <1>3. Pick = Of(Firsts(tasks, S, Autonomy, ""))
    BY DEF Pick, HookSelect, SelectFrom
  <1>4. SelectNext(tasks, Autonomy, "") = Of(Firsts(tasks, DOMAIN tasks, Autonomy, ""))
    BY DEF SelectNext, SelectFrom
  <1> HIDE DEF S, Of
  <1> QED
    BY <1>2, <1>3, <1>4

\* A choice is one of the candidates, and no candidate comes before it.
LEMMA ChosenIsFirst ==
  ASSUME NEW ts \in Seq(PlanTask), NEW S \in SUBSET (DOMAIN ts), NEW active,
         SelectFrom(ts, S, Autonomy, active) # NoTask
  PROVE  LET c == SelectFrom(ts, S, Autonomy, active)
         IN  /\ c \in Candidates(ts, S, Autonomy)
             /\ \A i \in Candidates(ts, S, Autonomy) \ {c} :
                  \/ KeyLess(SortKey(ts[c], active), SortKey(ts[i], active))
                  \/ ~KeyLess(SortKey(ts[i], active), SortKey(ts[c], active))
  <1> DEFINE c == SelectFrom(ts, S, Autonomy, active)
  <1>1. c \in Firsts(ts, S, Autonomy, active)
    BY DEF SelectFrom
  <1> HIDE DEF c
  <1>2. c \in Candidates(ts, S, Autonomy)
    BY <1>1 DEF Firsts
  <1>3. ASSUME NEW i \in Candidates(ts, S, Autonomy) \ {c}
        PROVE  \/ KeyLess(SortKey(ts[c], active), SortKey(ts[i], active))
               \/ ~KeyLess(SortKey(ts[i], active), SortKey(ts[c], active))
    BY <1>1 DEF Firsts
  <1> QED
    BY <1>2, <1>3 DEF c

\* Python's order on tuples, written out.
LEMMA KeyLessCases ==
  ASSUME NEW k1, NEW k2, NEW k3, NEW k4, NEW l1, NEW l2, NEW l3, NEW l4
  PROVE  KeyLess(<<k1, k2, k3, k4>>, <<l1, l2, l3, l4>>) <=>
           \/ k1 < l1
           \/ k1 = l1 /\ k2 < l2
           \/ k1 = l1 /\ k2 = l2 /\ k3 < l3
           \/ k1 = l1 /\ k2 = l2 /\ k3 = l3 /\ k4 < l4
  <1> DEFINE k == <<k1, k2, k3, k4>>
             l == <<l1, l2, l3, l4>>
  <1>1. 1..4 = {1, 2, 3, 4} /\ 1..(1 - 1) = {} /\ 1..(2 - 1) = {1} /\ 1..(3 - 1) = {1, 2}
        /\ 1..(4 - 1) = {1, 2, 3}
    OBVIOUS
  <1>2. /\ k[1] = k1 /\ k[2] = k2 /\ k[3] = k3 /\ k[4] = k4
        /\ l[1] = l1 /\ l[2] = l2 /\ l[3] = l3 /\ l[4] = l4
    OBVIOUS
  <1> HIDE DEF k, l
  <1>3. KeyLess(k, l) <=> \/ k[1] < l[1]
                          \/ k[1] = l[1] /\ k[2] < l[2]
                          \/ k[1] = l[1] /\ k[2] = l[2] /\ k[3] < l[3]
                          \/ k[1] = l[1] /\ k[2] = l[2] /\ k[3] = l[3] /\ k[4] < l[4]
    BY <1>1 DEF KeyLess
  <1> QED
    BY <1>2, <1>3, Zenon DEF k, l

\* Of two keys of an author flag, a status flag and a priority, the first is not
\* greater.
LEMMA KeyNotGreater ==
  ASSUME NEW b \in {0, 1}, NEW s \in {0, 1}, NEW p \in Nat,
         NEW c \in {0, 1}, NEW r \in {0, 1}, NEW q \in Nat,
         \/ KeyLess(<<b, s, 0, -p>>, <<c, r, 0, -q>>)
         \/ ~KeyLess(<<c, r, 0, -q>>, <<b, s, 0, -p>>)
  PROVE  /\ c = 0 => b = 0
         /\ b = c /\ r = 0 => s = 0
         /\ b = c /\ s = r => p >= q
  <1>1. /\ KeyLess(<<b, s, 0, -p>>, <<c, r, 0, -q>>) <=>
             \/ b < c
             \/ b = c /\ s < r
             \/ b = c /\ s = r /\ 0 < 0
             \/ b = c /\ s = r /\ 0 = 0 /\ -p < -q
        /\ KeyLess(<<c, r, 0, -q>>, <<b, s, 0, -p>>) <=>
             \/ c < b
             \/ c = b /\ r < s
             \/ c = b /\ r = s /\ 0 < 0
             \/ c = b /\ r = s /\ 0 = 0 /\ -q < -p
    BY KeyLessCases
  <1>2. \/ b < c
        \/ b = c /\ s < r
        \/ b = c /\ s = r /\ -p < -q
        \/ ~(c < b) /\ ~(c = b /\ r < s) /\ ~(c = b /\ r = s /\ -q < -p)
    BY <1>1
  <1> QED
    BY <1>2

LEMMA Flag == \A v, w : (IF v = w THEN 0 ELSE 1) = 0 <=> v = w
  <1> TAKE v, w
  <1> QED
    OBVIOUS

\* What Python's order on the sort key comes to, without an active phase.
LEMMA KeyOrder ==
  ASSUME NEW t, t.prio \in Nat, NEW u, u.prio \in Nat,
         \/ KeyLess(SortKey(t, ""), SortKey(u, ""))
         \/ ~KeyLess(SortKey(u, ""), SortKey(t, ""))
  PROVE  /\ u.by = "owner" => t.by = "owner"
         /\ u.by = t.by /\ u.status = "ready" => t.status = "ready"
         /\ u.by = t.by /\ u.status = t.status => t.prio >= u.prio
  <1> DEFINE b == IF t.by = "owner" THEN 0 ELSE 1
             s == IF t.status = "ready" THEN 0 ELSE 1
             c == IF u.by = "owner" THEN 0 ELSE 1
             r == IF u.status = "ready" THEN 0 ELSE 1
  <1>1. SortKey(t, "") = <<b, s, 0, -t.prio>> /\ SortKey(u, "") = <<c, r, 0, -u.prio>>
    BY DEF SortKey, PhaseRank
  <1>2. b \in {0, 1} /\ s \in {0, 1} /\ c \in {0, 1} /\ r \in {0, 1}
    OBVIOUS
  <1>3. (b = 0 <=> t.by = "owner") /\ (c = 0 <=> u.by = "owner")
    BY Flag, Zenon
  <1>4. (s = 0 <=> t.status = "ready") /\ (r = 0 <=> u.status = "ready")
    BY Flag, Zenon
  <1>5. (u.by = t.by => b = c) /\ (u.status = t.status => s = r)
    OBVIOUS
  <1> HIDE DEF b, s, c, r
  <1>6. \/ KeyLess(<<b, s, 0, -t.prio>>, <<c, r, 0, -u.prio>>)
        \/ ~KeyLess(<<c, r, 0, -u.prio>>, <<b, s, 0, -t.prio>>)
    BY <1>1, Zenon
  <1>7. /\ c = 0 => b = 0
        /\ b = c /\ r = 0 => s = 0
        /\ b = c /\ s = r => t.prio >= u.prio
    BY <1>2, <1>6, KeyNotGreater, Zenon
  <1> QED
    BY <1>3, <1>4, <1>5, <1>7, Zenon

\* The sort key of a task is a tuple of four integers.
IsKey(k) == \E k1, k2, k3, k4 \in Int : k = <<k1, k2, k3, k4>>

LEMMA NegativeIsInt == \A n \in Nat : -n \in Int
  OBVIOUS

LEMMA SortKeyIsKey ==
  ASSUME NEW t, t.prio \in Nat, NEW active
  PROVE  IsKey(SortKey(t, active))
  <1> DEFINE b == IF t.by = "owner" THEN 0 ELSE 1
             s == IF t.status = "ready" THEN 0 ELSE 1
             f == PhaseRank(t, active)
             q == -t.prio
  <1>1. SortKey(t, active) = <<b, s, f, q>>
    BY DEF SortKey
  <1>2. b \in Int /\ s \in Int
    OBVIOUS
  <1>3. f \in Int
    BY DEF PhaseRank
  <1>4. q \in Int
    BY NegativeIsInt, Zenon
  <1> HIDE DEF b, s, f, q
  <1> QED
    BY <1>1, <1>2, <1>3, <1>4, Zenon DEF IsKey

\* Python's order on such tuples is asymmetric, and what is before l is before m
\* or m is before l.
LEMMA KeyLessOrders ==
  ASSUME NEW k, NEW l, NEW m, IsKey(k), IsKey(l), IsKey(m), KeyLess(k, l)
  PROVE  ~KeyLess(l, k) /\ (KeyLess(k, m) \/ KeyLess(m, l))
  <1>1. PICK k1, k2, k3, k4 \in Int : k = <<k1, k2, k3, k4>>
    BY Zenon DEF IsKey
  <1>2. PICK l1, l2, l3, l4 \in Int : l = <<l1, l2, l3, l4>>
    BY Zenon DEF IsKey
  <1>3. PICK m1, m2, m3, m4 \in Int : m = <<m1, m2, m3, m4>>
    BY Zenon DEF IsKey
  <1>4. KeyLess(<<k1, k2, k3, k4>>, <<l1, l2, l3, l4>>)
    BY <1>1, <1>2, Zenon
  <1>5. \/ k1 < l1
        \/ k1 = l1 /\ k2 < l2
        \/ k1 = l1 /\ k2 = l2 /\ k3 < l3
        \/ k1 = l1 /\ k2 = l2 /\ k3 = l3 /\ k4 < l4
    BY <1>4, KeyLessCases
  <1>6. KeyLess(<<l1, l2, l3, l4>>, <<k1, k2, k3, k4>>) <=>
           \/ l1 < k1
           \/ l1 = k1 /\ l2 < k2
           \/ l1 = k1 /\ l2 = k2 /\ l3 < k3
           \/ l1 = k1 /\ l2 = k2 /\ l3 = k3 /\ l4 < k4
    BY KeyLessCases
  <1>7. KeyLess(<<k1, k2, k3, k4>>, <<m1, m2, m3, m4>>) <=>
           \/ k1 < m1
           \/ k1 = m1 /\ k2 < m2
           \/ k1 = m1 /\ k2 = m2 /\ k3 < m3
           \/ k1 = m1 /\ k2 = m2 /\ k3 = m3 /\ k4 < m4
    BY KeyLessCases
  <1>8. KeyLess(<<m1, m2, m3, m4>>, <<l1, l2, l3, l4>>) <=>
           \/ m1 < l1
           \/ m1 = l1 /\ m2 < l2
           \/ m1 = l1 /\ m2 = l2 /\ m3 < l3
           \/ m1 = l1 /\ m2 = l2 /\ m3 = l3 /\ m4 < l4
    BY KeyLessCases
  <1>9. ~KeyLess(<<l1, l2, l3, l4>>, <<k1, k2, k3, k4>>)
    BY <1>5, <1>6
  <1>10. \/ KeyLess(<<k1, k2, k3, k4>>, <<m1, m2, m3, m4>>)
        \/ KeyLess(<<m1, m2, m3, m4>>, <<l1, l2, l3, l4>>)
    BY <1>5, <1>7, <1>8
  <1> QED
    BY <1>1, <1>2, <1>3, <1>9, <1>10, Zenon

\* min() finds a task whenever there is a candidate.
LEMMA SomeoneIsFirst ==
  ASSUME NEW ts \in Seq(PlanTask), NEW S \in SUBSET (DOMAIN ts), NEW active,
         Candidates(ts, S, Autonomy) # {}
  PROVE  Firsts(ts, S, Autonomy, active) # {}
  <1> DEFINE C == Candidates(ts, S, Autonomy)
             N == Len(ts)
             Before(i, j) == KeyLess(SortKey(ts[i], active), SortKey(ts[j], active))
             Ahead(i, j) == Before(i, j) \/ (i < j /\ ~Before(j, i))
             Best(n, i) == \A j \in C \cap (1..n) : j # i => Ahead(i, j)
             P == {n \in 0..N : C \cap (1..n) = {} \/ \E i \in C \cap (1..n) : Best(n, i)}
  <1>1. N \in Nat /\ C \subseteq 1..N
    BY DEF Candidates
  <1>2. ASSUME NEW i \in C, NEW j \in C, NEW n \in C, Before(n, i)
        PROVE  ~Before(i, n) /\ (Before(n, j) \/ Before(j, i))
    <2>1. \A h \in C : IsKey(SortKey(ts[h], active))
      <3> SUFFICES ASSUME NEW h \in C PROVE IsKey(SortKey(ts[h], active))
        OBVIOUS
      <3>1. h \in DOMAIN ts
        BY DEF Candidates
      <3>2. ts[h] \in PlanTask
        BY <3>1, TaskOfBacklog, Zenon
      <3>3. ts[h].prio \in Nat
        BY <3>2 DEF PlanTask
      <3> QED
        BY <3>3, SortKeyIsKey, Zenon
    <2> HIDE DEF C
    <2> QED
      BY <1>2, <2>1, KeyLessOrders, Zenon
  <1> HIDE DEF C, Before, N
  <1>3. 0 \in P
    <2>1. 1..0 = {} /\ 0 \in 0..N
      BY <1>1
    <2> QED
      BY <2>1
  <1>4. ASSUME NEW n \in 1..N, n - 1 \in P PROVE n \in P
    <2>0. /\ n \in Nat /\ n - 1 \in Nat /\ n \in 0..N
          /\ n \notin 1..(n - 1) /\ 1..n = (1..(n - 1)) \cup {n}
          /\ \A i \in 1..(n - 1) : i < n
      BY <1>1
    <2>1. CASE n \notin C
      <3>1. C \cap (1..n) = C \cap (1..(n - 1))
        BY <2>0, <2>1
      <3> QED
        BY <1>4, <2>0, <3>1
    <2>2. CASE n \in C /\ C \cap (1..(n - 1)) = {}
      <3>1. C \cap (1..n) = {n}
        BY <2>0, <2>2
      <3> QED
        BY <2>0, <3>1
    <2>3. CASE n \in C /\ C \cap (1..(n - 1)) # {}
      <3>1. PICK i \in C \cap (1..(n - 1)) : Best(n - 1, i)
        BY <1>4, <2>3
      <3>2. C \cap (1..n) = (C \cap (1..(n - 1))) \cup {n} /\ i < n
        BY <2>0, <2>3
      <3>3. CASE ~Before(n, i)
        <4>1. Ahead(i, n)
          BY <3>2, <3>3
        <4>2. Best(n, i) /\ i \in C \cap (1..n)
          BY <3>1, <3>2, <4>1
        <4> QED
          BY <2>0, <4>2
      <3>4. CASE Before(n, i)
        <4>1. ASSUME NEW j \in C \cap (1..(n - 1)) PROVE Before(n, j)
          <5>1. j = i \/ Ahead(i, j)
            BY <3>1
          <5>2. CASE j = i
            BY <3>4, <5>2
          <5>3. CASE Ahead(i, j)
            <6>1. ~Before(j, i)
              BY <1>2, <2>3, <5>3
            <6> QED
              BY <1>2, <2>3, <3>4, <6>1
          <5> QED
            BY <5>1, <5>2, <5>3
        <4>2. Best(n, n) /\ n \in C \cap (1..n)
          BY <3>2, <4>1
        <4> QED
          BY <2>0, <4>2
      <3> QED
        BY <3>3, <3>4
    <2> QED
      BY <2>1, <2>2, <2>3
  <1>5. N \in P
    <2> HIDE DEF P
    <2>1. \A n \in 0..N : n \in P
      BY <1>1, <1>3, <1>4, BoundedInduction
    <2> QED
      BY <1>1, <2>1
  <1>6. C \cap (1..N) = C
    BY <1>1
  <1>7. PICK i \in C : \A j \in C \ {i} : Ahead(i, j)
    <2>1. C # {}
      BY DEF C
    <2> QED
      BY <1>5, <1>6, <2>1
  <1>8. i \in Firsts(ts, S, Autonomy, active)
    BY <1>7 DEF Firsts, C, Before
  <1> QED
    BY <1>8

\* select_next's None means that there is no candidate.
LEMMA NobodyIsChosen ==
  ASSUME NEW ts \in Seq(PlanTask), NEW active, SelectNext(ts, Autonomy, active) = NoTask
  PROVE  Candidates(ts, DOMAIN ts, Autonomy) = {}
  <1> DEFINE F == Firsts(ts, DOMAIN ts, Autonomy, active)
  <1>1. NoTask = IF F = {} THEN NoTask ELSE CHOOSE i \in F : TRUE
    BY DEF SelectNext, SelectFrom
  <1>2. F \subseteq DOMAIN ts
    BY DEF Firsts, Candidates
  <1>3. NoTask \notin DOMAIN ts
    BY DEF NoTask
  <1> HIDE DEF F
  <1>4. F = {}
    BY <1>1, <1>2, <1>3
  <1> QED
    BY <1>4, SomeoneIsFirst, Zenon DEF F

----------------------------------------------------------------------------
(* The steps of a drain.                                                   *)

Typed == tasks \in Seq(PlanTask)

\* A pick is an open task of the backlog, with its dependencies done.
LEMMA PickIsOpen ==
  ASSUME Typed, Pick # NoTask
  PROVE  /\ Pick \in DOMAIN tasks
         /\ ~IsDone(tasks[Pick])
         /\ tasks[Pick].deps \subseteq DoneIds(tasks, DOMAIN tasks)
  <1> DEFINE S == {i \in DOMAIN tasks : tasks[i].id \in AllowedIds(tasks) \ {}}
  <1>1. Pick = SelectFrom(tasks, S, Autonomy, "") /\ S \in SUBSET (DOMAIN tasks)
    BY DEF Pick, HookSelect
  <1> HIDE DEF S
  <1>2. Pick \in Candidates(tasks, S, Autonomy)
    BY <1>1, ChosenIsFirst DEF Typed
  <1> QED
    BY <1>1, <1>2 DEF Candidates, Candidate, IsDone, DoneIds

\* What an assignment to a status field makes of a task.
LEMMA StatusSet ==
  ASSUME NEW t \in PlanTask, NEW s \in {"done", "blocked"}
  PROVE  LET r == [t EXCEPT !.status = s]
         IN  r \in PlanTask /\ r.id = t.id /\ r.deps = t.deps
  <1> DEFINE r == [t EXCEPT !.status = s]
  <1>1. r = [id |-> t.id, status |-> s, by |-> t.by, deps |-> t.deps, phase |-> t.phase,
             prio |-> t.prio, reqs |-> t.reqs]
    BY DEF PlanTask
  <1>2. /\ t.id \in STRING /\ t.by \in STRING /\ t.deps \in SUBSET STRING
        /\ t.phase \in STRING /\ t.prio \in Nat /\ t.reqs \in SUBSET STRING
    BY DEF PlanTask
  <1> HIDE DEF r
  <1> QED
    BY <1>1, <1>2 DEF r, PlanTask

\* A session changes one status and nothing else.
LEMMA WorkEffect ==
  ASSUME Typed, Work
  PROVE  /\ Typed'
         /\ DOMAIN tasks' = DOMAIN tasks
         /\ \A i \in DOMAIN tasks : tasks'[i].id = tasks[i].id /\ tasks'[i].deps = tasks[i].deps
         /\ \A i \in DOMAIN tasks \ {Pick} : tasks'[i].status = tasks[i].status
  <1>1. PICK s \in {"done", "blocked"} : tasks' = [tasks EXCEPT ![Pick].status = s]
    BY DEF Work
  <1>2. Pick \in DOMAIN tasks
    BY PickIsOpen DEF Work
  <1>3. tasks[Pick] \in PlanTask
    BY <1>2 DEF Typed
  <1> DEFINE r == [tasks[Pick] EXCEPT !.status = s]
  <1>4. r \in PlanTask /\ r.id = tasks[Pick].id /\ r.deps = tasks[Pick].deps
    BY <1>3, StatusSet
  <1>5. tasks' = [tasks EXCEPT ![Pick] = r]
    BY <1>1
  <1> HIDE DEF r
  <1>6. Typed'
    BY <1>2, <1>4, <1>5, ExceptSeq DEF Typed
  <1>7. tasks'[Pick] = r /\ \A i \in DOMAIN tasks \ {Pick} : tasks'[i] = tasks[i]
    BY <1>2, <1>5
  <1>8. DOMAIN tasks' = DOMAIN tasks
    BY <1>5
  <1> QED
    BY <1>4, <1>6, <1>7, <1>8

\* It stays well-formed,
LEMMA TypedStays == Typed /\ [Next]_vars => Typed'
  BY WorkEffect DEF Next, Complete, vars, Typed

\* and keeps its ids apart.
LEMMA UniqueIdsStay == Typed /\ UniqueIds(tasks) /\ [Next]_vars => UniqueIds(tasks)'
  <1>1. ASSUME Typed, UniqueIds(tasks), Work PROVE UniqueIds(tasks)'
    BY <1>1, WorkEffect DEF UniqueIds
  <1> QED
    BY <1>1 DEF Next, Complete, vars, UniqueIds

\* What a session ends as done had its dependencies done, and nothing that was
\* done is reopened.
LEMMA DoneClosedStays == Typed /\ DoneClosed(tasks) /\ [Next]_vars => DoneClosed(tasks)'
  <1>1. ASSUME Typed, DoneClosed(tasks), Work PROVE DoneClosed(tasks)'
    <2>1. Pick \in DOMAIN tasks /\ ~IsDone(tasks[Pick])
          /\ tasks[Pick].deps \subseteq DoneIds(tasks, DOMAIN tasks)
      BY <1>1, PickIsOpen DEF Work
    <2>2. DoneIds(tasks, DOMAIN tasks) \subseteq DoneIds(tasks, DOMAIN tasks)'
      BY <1>1, <2>1, WorkEffect DEF DoneIds, IsDone
    <2> QED
      BY <1>1, <2>1, <2>2, WorkEffect DEF DoneClosed, IsDone
  <1> QED
    BY <1>1 DEF Next, Complete, vars, DoneClosed, DoneIds, IsDone

\* A run starts from a well-formed plan.
LEMMA InitTyped == Init => Typed
  <1> SUFFICES ASSUME Init PROVE Typed
    OBVIOUS
  <1>1. tasks \in Seq(TaskRecord)
    BY DrainAssumption DEF Init
  <1>2. TaskRecord \subseteq PlanTask
    BY DEF TaskRecord, PlanTask
  <1> QED
    BY <1>1, <1>2 DEF Typed

\* Whatever a plan looks like, as long as no two tasks share an id: at every
\* point of a drain waves() puts aside exactly the tasks that wait for one
\* another or for a missing task, and places each other task right after the
\* last of its unfinished dependencies (backlog.py, waves).
THEOREM WavesAreDependencyLevels ==
  ASSUME \A ts \in Bases : UniqueIds(ts)
  PROVE  Spec => []WavesAreLevels
  <1>1. Init => Typed /\ UniqueIds(tasks)
    BY InitTyped DEF Init
  <1>2. Typed /\ UniqueIds(tasks) => WavesAreLevels
    <2> SUFFICES ASSUME Typed, UniqueIds(tasks) PROVE WavesAreLevels
      OBVIOUS
    <2>1. tasks \in Seq(PlanTask)
      BY DEF Typed
    <2> QED
      BY <2>1, StuckIsLargest, LevelsStep DEF WavesAreLevels, Level
  <1> QED
    BY <1>1, <1>2, TypedStays, UniqueIdsStay, PTL DEF Spec

\* A loop that has ended left nothing behind that could run.
LEMMA NothingIsLeft ==
  LET Left == ended => Candidates(tasks, DOMAIN tasks, Autonomy) = {}
  IN  Typed /\ DoneClosed(tasks) /\ Left /\ [Next]_vars => Left'
  <1> DEFINE Left == ended => Candidates(tasks, DOMAIN tasks, Autonomy) = {}
  <1> SUFFICES ASSUME Typed, DoneClosed(tasks), Left, [Next]_vars PROVE Left'
    OBVIOUS
  <1>1. CASE Complete
    <2>1. Pick = NoTask /\ tasks' = tasks
      BY <1>1 DEF Complete
    <2>2. SelectNext(tasks, Autonomy, "") = NoTask
      BY <2>1, PickIsSelectNext DEF Typed
    <2>3. Candidates(tasks, DOMAIN tasks, Autonomy) = {}
      BY <2>2, NobodyIsChosen DEF Typed
    <2> QED
      BY <2>1, <2>3
  <1>2. CASE Work
    BY <1>2 DEF Work
  <1>3. CASE UNCHANGED vars
    BY <1>3 DEF vars
  <1> QED
    BY <1>1, <1>2, <1>3 DEF Next

\* For any backlog whose done tasks do not wait for open ones, every choice of
\* the fleet's claim hook is the one select_next makes on the whole backlog, and
\* stays so however the sessions end; and the hook ends the loop only when no
\* task could run: the wave filter is never the reason that an agent works on
\* something else or stops (fleet.py, _wave_allowed_task_ids).
THEOREM HookChoosesLikeSelectNext ==
  ASSUME \A ts \in Bases : DoneClosed(ts)
  PROVE  Spec => []HookIsSelectNext
  <1> DEFINE Left == ended => Candidates(tasks, DOMAIN tasks, Autonomy) = {}
  <1>1. Init => Typed /\ DoneClosed(tasks) /\ Left
    BY InitTyped DEF Init
  <1>2. Typed /\ DoneClosed(tasks) /\ Left => HookIsSelectNext
    BY PickIsSelectNext DEF Typed, HookIsSelectNext
  <1>3. Typed /\ DoneClosed(tasks) /\ Left /\ [Next]_vars => (Typed /\ DoneClosed(tasks) /\ Left)'
    BY TypedStays, DoneClosedStays, NothingIsLeft
  <1> HIDE DEF Left
  <1> QED
    BY <1>1, <1>2, <1>3, PTL DEF Spec

\* In such a backlog the hook never passes over an owner task that could run for
\* one Kelix proposed, nor a ready task for a proposed one, nor a task for one
\* of the same kind and lower priority (backlog.py, sort_key).
THEOREM NothingIsPassedOver ==
  ASSUME \A ts \in Bases : DoneClosed(ts)
  PROVE  Spec => []NeverPassedOver
  <1>1. Init => Typed /\ DoneClosed(tasks)
    BY InitTyped DEF Init
  <1>2. Typed /\ DoneClosed(tasks) => NeverPassedOver
    <2> SUFFICES ASSUME Typed, DoneClosed(tasks), Pick # NoTask,
                        NEW i \in Candidates(tasks, DOMAIN tasks, Autonomy)
                 PROVE  /\ tasks[i].by = "owner" => tasks[Pick].by = "owner"
                        /\ tasks[i].by = tasks[Pick].by /\ tasks[i].status = "ready"
                             => tasks[Pick].status = "ready"
                        /\ tasks[i].by = tasks[Pick].by /\ tasks[i].status = tasks[Pick].status
                             => tasks[Pick].prio >= tasks[i].prio
      BY DEF NeverPassedOver
    <2>1. tasks \in Seq(PlanTask) /\ Pick = SelectFrom(tasks, DOMAIN tasks, Autonomy, "")
      BY PickIsSelectNext DEF Typed, SelectNext
    <2>2. /\ Pick \in Candidates(tasks, DOMAIN tasks, Autonomy)
          /\ i # Pick => \/ KeyLess(SortKey(tasks[Pick], ""), SortKey(tasks[i], ""))
                         \/ ~KeyLess(SortKey(tasks[i], ""), SortKey(tasks[Pick], ""))
      BY <2>1, ChosenIsFirst
    <2>3. tasks[i] \in PlanTask /\ tasks[Pick] \in PlanTask
      <3>1. i \in DOMAIN tasks /\ Pick \in DOMAIN tasks
        BY <2>2 DEF Candidates
      <3> QED
        BY <2>1, <3>1, TaskOfBacklog, Zenon
    <2>6. tasks[i].prio \in Nat /\ tasks[Pick].prio \in Nat
      BY <2>3 DEF PlanTask
    <2>4. CASE i = Pick
      BY <2>4, <2>6
    <2>5. CASE i # Pick
      BY <2>2, <2>5, <2>6, KeyOrder
    <2> QED
      BY <2>4, <2>5
  <1> QED
    BY <1>1, <1>2, TypedStays, DoneClosedStays, PTL DEF Spec

----------------------------------------------------------------------------
(* The cycle search of lint.  Its invariant: the stack is a path without   *)
(* repetition, what is visited has no circle in it and depends on visited  *)
(* nodes only, and what a node on the stack has looked at is visited or    *)
(* next on the stack.                                                      *)

\* A state of the search, whatever step it comes from.
SearchState(K) ==
  [stack : Seq(K), left : [K -> SUBSET K], visited : SUBSET K, cycle : Seq(K)]

\* The four kinds of steps, field by field.
Enters(K, s, t) ==
  \E id \in K \ s.visited :
    /\ s.stack = <<>> /\ t.stack = Append(s.stack, id)
    /\ t.left = s.left /\ t.visited = s.visited /\ t.cycle = <<>>

Leaves(s, t) ==
  /\ s.stack # <<>> /\ s.left[s.stack[Len(s.stack)]] = {}
  /\ t.stack = SubSeq(s.stack, 1, Len(s.stack) - 1)
  /\ t.visited = s.visited \cup {s.stack[Len(s.stack)]}
  /\ t.left = s.left /\ t.cycle = <<>>

LooksAt(s, t, id) ==
  /\ s.stack # <<>> /\ id \in s.left[s.stack[Len(s.stack)]]
  /\ t.left = [s.left EXCEPT ![s.stack[Len(s.stack)]] = @ \ {id}]
  /\ t.visited = s.visited

Closes(s, t, id) ==
  \E n \in DOMAIN s.stack :
    /\ s.stack[n] = id /\ t.stack = s.stack
    /\ t.cycle = Append(SubSeq(s.stack, n, Len(s.stack)), id)

Skips(s, t, id) ==
  /\ id \in s.visited /\ \A n \in DOMAIN s.stack : s.stack[n] # id
  /\ t.stack = s.stack /\ t.cycle = <<>>

Descends(s, t, id) ==
  /\ id \notin s.visited /\ \A n \in DOMAIN s.stack : s.stack[n] # id
  /\ t.stack = Append(s.stack, id) /\ t.cycle = <<>>

Looks(s, t) ==
  \E id : LooksAt(s, t, id) /\ (Closes(s, t, id) \/ Skips(s, t, id) \/ Descends(s, t, id))

\* What EXCEPT makes of a state of the search.
Settable(s, k, l, v, c) ==
  /\ s.stack = k /\ s.left = l /\ s.visited = v /\ s.cycle = c
  /\ \A x : [s EXCEPT !.stack = x] = [stack |-> x, left |-> l, visited |-> v, cycle |-> c]
  /\ \A x : [s EXCEPT !.left = x] = [stack |-> k, left |-> x, visited |-> v, cycle |-> c]
  /\ \A x : [s EXCEPT !.cycle = x] = [stack |-> k, left |-> l, visited |-> v, cycle |-> x]
  /\ \A x, y : [s EXCEPT !.stack = x, !.visited = y]
                 = [stack |-> x, left |-> l, visited |-> y, cycle |-> c]

\* EXCEPT on a record with these four fields, spelt out for the provers.
LEMMA RecordSet ==
  ASSUME NEW s, NEW k, NEW l, NEW v, NEW c,
         s = [stack |-> k, left |-> l, visited |-> v, cycle |-> c]
  PROVE  Settable(s, k, l, v, c)
  <1>1. s.stack = k /\ s.left = l /\ s.visited = v /\ s.cycle = c
    OBVIOUS
  <1>2. ASSUME NEW x
        PROVE  [s EXCEPT !.stack = x] = [stack |-> x, left |-> l, visited |-> v, cycle |-> c]
    OBVIOUS
  <1>3. ASSUME NEW x
        PROVE  [s EXCEPT !.left = x] = [stack |-> k, left |-> x, visited |-> v, cycle |-> c]
    OBVIOUS
  <1>4. ASSUME NEW x
        PROVE  [s EXCEPT !.cycle = x] = [stack |-> k, left |-> l, visited |-> v, cycle |-> x]
    OBVIOUS
  <1>5. ASSUME NEW x, NEW y
        PROVE  [s EXCEPT !.stack = x, !.visited = y]
                 = [stack |-> x, left |-> l, visited |-> y, cycle |-> c]
    <2> DEFINE f == [s EXCEPT !.stack = x, !.visited = y]
    <2>1. DOMAIN s = {"stack", "left", "visited", "cycle"} /\ s.left = l /\ s.cycle = c
      OBVIOUS
    <2>2. /\ f = [n \in DOMAIN s |-> f[n]]
          /\ f.stack = x /\ f.left = l /\ f.visited = y /\ f.cycle = c
      BY <2>1
    <2> HIDE DEF f
    <2>3. f = [stack |-> x, left |-> l, visited |-> y, cycle |-> c]
      BY <2>1, <2>2
    <2> QED
      BY <2>3 DEF f
  <1> QED
    BY <1>1, <1>2, <1>3, <1>4, <1>5, Zenon DEF Settable

\* A state of the search is its fields.
LEMMA StateFields ==
  ASSUME NEW K, NEW s \in SearchState(K)
  PROVE  /\ s = [stack |-> s.stack, left |-> s.left, visited |-> s.visited, cycle |-> s.cycle]
         /\ s.stack \in Seq(K) /\ s.left \in [K -> SUBSET K] /\ s.visited \in SUBSET K
         /\ s.cycle \in Seq(K)
  BY DEF SearchState

\* Popping a stack leaves the elements below the top.
LEMMA FrontOfStack ==
  ASSUME NEW K, NEW q \in Seq(K), q # <<>>
  PROVE  /\ Len(q) \in Nat \ {0} /\ DOMAIN q = 1..Len(q) /\ q[Len(q)] \in K
         /\ SubSeq(q, 1, Len(q) - 1) \in Seq(K) /\ Len(SubSeq(q, 1, Len(q) - 1)) = Len(q) - 1
         /\ \A n \in 1..(Len(q) - 1) : SubSeq(q, 1, Len(q) - 1)[n] = q[n]
  <1> DEFINE L == Len(q)
             f == SubSeq(q, 1, L - 1)
  <1>1. L \in Nat \ {0} /\ DOMAIN q = 1..L /\ \A n \in 1..L : q[n] \in K
    OBVIOUS
  <1>2. \A i \in 1..(L - 1) : q[i] \in K
    BY <1>1
  <1>3. 1 \in Int /\ L - 1 \in Int
    BY <1>1
  <1>4. /\ f \in Seq(K)
        /\ Len(f) = IF 1 <= L - 1 THEN (L - 1) - 1 + 1 ELSE 0
        /\ \A i \in 1..((L - 1) - 1 + 1) : f[i] = q[1 + i - 1]
    <2> HIDE DEF L
    <2> QED
      BY <1>2, <1>3, SubSeqProperties
  <1> HIDE DEF f, L
  <1>5. Len(f) = L - 1
    BY <1>1, <1>4
  <1>6. \A n \in 1..(L - 1) : f[n] = q[n]
    <2> SUFFICES ASSUME NEW n \in 1..(L - 1) PROVE f[n] = q[n]
      OBVIOUS
    <2>1. n \in 1..((L - 1) - 1 + 1) /\ 1 + n - 1 = n
      BY <1>1
    <2> QED
      BY <1>4, <2>1
  <1>7. q[L] \in K
    BY <1>1
  <1> QED
    BY <1>1, <1>4, <1>5, <1>6, <1>7 DEF f, L

\* A step of a search that is not over is one of the four.
LEMMA StepKinds ==
  ASSUME NEW ts, NEW s \in SearchState(Known(ts)), ~Over(ts, s)
  PROVE  LET t == SearchStep(ts, s)
         IN  /\ s.cycle = <<>>
             /\ t = [stack |-> t.stack, left |-> t.left, visited |-> t.visited, cycle |-> t.cycle]
             /\ Enters(Known(ts), s, t) \/ Leaves(s, t) \/ Looks(s, t)
  <1> DEFINE K == Known(ts)
             t == SearchStep(ts, s)
             IsRecord(x) == x = [stack |-> x.stack, left |-> x.left, visited |-> x.visited,
                                 cycle |-> x.cycle]
  <1>1. /\ s = [stack |-> s.stack, left |-> s.left, visited |-> s.visited, cycle |-> s.cycle]
        /\ s.stack \in Seq(K) /\ s.left \in [K -> SUBSET K] /\ s.visited \in SUBSET K
    BY StateFields
  <1>2. s.cycle = <<>>
    BY DEF Over
  <1>3. PICK k, l, v : s = [stack |-> k, left |-> l, visited |-> v, cycle |-> <<>>]
    BY <1>1, <1>2
  <1>4. Settable(s, k, l, v, <<>>)
    BY <1>3, RecordSet
  <1>5. s.stack = k /\ s.left = l /\ s.visited = v /\ s.cycle = <<>>
    BY <1>4 DEF Settable
  <1>6. CASE s.stack = <<>>
    <2>1. PICK id \in K \ v : t = [s EXCEPT !.stack = Append(k, id)]
      <3>1. K \ v # {}
        BY <1>2, <1>5, <1>6 DEF Over
      <3>2. t = Enter(s, CHOOSE id \in K \ v : TRUE)
        BY <1>5, <1>6 DEF SearchStep
      <3> QED
        BY <1>5, <3>1, <3>2 DEF Enter
    <2>2. t = [stack |-> Append(k, id), left |-> l, visited |-> v, cycle |-> <<>>]
      BY <1>4, <2>1 DEF Settable
    <2> HIDE DEF t, K
    <2>3. t.stack = Append(k, id) /\ t.left = l /\ t.visited = v /\ t.cycle = <<>> /\ IsRecord(t)
      BY <2>2
    <2>4. Enters(K, s, t)
      BY <1>5, <1>6, <2>3 DEF Enters
    <2> QED
      BY <1>2, <2>3, <2>4 DEF t, K
  <1>7. CASE s.stack # <<>> /\ s.left[Last(s.stack)] = {}
    <2>1. t = [s EXCEPT !.stack = SubSeq(k, 1, Len(k) - 1), !.visited = v \cup {k[Len(k)]}]
      BY <1>5, <1>7 DEF SearchStep, Leave, Front, Last
    <2>2. t = [stack |-> SubSeq(k, 1, Len(k) - 1), left |-> l, visited |-> v \cup {k[Len(k)]},
               cycle |-> <<>>]
      BY <1>4, <2>1 DEF Settable
    <2> HIDE DEF t
    <2>3. /\ t.stack = SubSeq(k, 1, Len(k) - 1) /\ t.left = l /\ t.visited = v \cup {k[Len(k)]}
          /\ t.cycle = <<>> /\ IsRecord(t)
      BY <2>2
    <2>4. Leaves(s, t)
      BY <1>5, <1>7, <2>3 DEF Leaves, Last
    <2> QED
      BY <1>2, <2>3, <2>4 DEF t
  <1>8. CASE s.stack # <<>> /\ s.left[Last(s.stack)] # {}
    <2> DEFINE u == k[Len(k)]
    <2>1. PICK id \in l[u] : t = Look(s, id)
      BY <1>5, <1>8 DEF SearchStep, Last
    <2> DEFINE m == [l EXCEPT ![u] = @ \ {id}]
               r == Looked(s, id)
    <2>2. r = [stack |-> k, left |-> m, visited |-> v, cycle |-> <<>>]
      <3>1. r = [s EXCEPT !.left = m]
        BY <1>5 DEF Looked, Last
      <3> HIDE DEF r, m
      <3> QED
        BY <1>4, <3>1 DEF Settable
    <2>3. Settable(r, k, m, v, <<>>)
      BY <2>2, RecordSet
    <2>9. r.stack = k
      BY <2>3 DEF Settable
    <2>4. ASSUME t.left = m, t.visited = v PROVE LooksAt(s, t, id)
      BY <1>5, <1>8, <2>1, <2>4 DEF LooksAt
    <2>5. CASE id \in ToSet(k)
      <3> DEFINE n == CHOOSE i \in DOMAIN k : k[i] = id
                 c == Append(SubSeq(k, n, Len(k)), id)
      <3>1. n \in DOMAIN k /\ k[n] = id
        BY <2>5 DEF ToSet
      <3>2. t = [r EXCEPT !.cycle = c]
        BY <1>5, <2>1, <2>5 DEF Look
      <3> HIDE DEF c, n, t, m, r
      <3>3. t = [stack |-> k, left |-> m, visited |-> v, cycle |-> c]
        BY <2>3, <3>2 DEF Settable
      <3>4. t.stack = k /\ t.left = m /\ t.visited = v /\ t.cycle = c /\ IsRecord(t)
        BY <3>3
      <3>5. Closes(s, t, id)
        BY <1>5, <3>1, <3>4 DEF Closes, c
      <3>6. Looks(s, t)
        BY <2>4, <3>4, <3>5 DEF Looks
      <3> QED
        BY <1>2, <3>4, <3>6 DEF t
    <2>6. CASE id \notin ToSet(k) /\ id \in v
      <3>1. t = r
        BY <1>5, <2>1, <2>6 DEF Look
      <3>2. \A n \in DOMAIN k : k[n] # id
        BY <2>6 DEF ToSet
      <3> HIDE DEF t, m, r
      <3>4. t.stack = k /\ t.left = m /\ t.visited = v /\ t.cycle = <<>> /\ IsRecord(t)
        BY <2>2, <3>1
      <3>5. Skips(s, t, id)
        BY <1>5, <2>6, <3>2, <3>4 DEF Skips
      <3>6. Looks(s, t)
        BY <2>4, <3>4, <3>5 DEF Looks
      <3> QED
        BY <1>2, <3>4, <3>6 DEF t
    <2>7. CASE id \notin ToSet(k) /\ id \notin v
      <3>1. t = [r EXCEPT !.stack = Append(k, id)]
        BY <1>5, <2>1, <2>9, <2>7 DEF Look, Enter
      <3>2. \A n \in DOMAIN k : k[n] # id
        BY <2>7 DEF ToSet
      <3> HIDE DEF t, m, r
      <3>3. t = [stack |-> Append(k, id), left |-> m, visited |-> v, cycle |-> <<>>]
        BY <2>3, <3>1 DEF Settable
      <3>4. t.stack = Append(k, id) /\ t.left = m /\ t.visited = v /\ t.cycle = <<>> /\ IsRecord(t)
        BY <3>3
      <3>5. Descends(s, t, id)
        BY <1>5, <2>7, <3>2, <3>4 DEF Descends
      <3>6. Looks(s, t)
        BY <2>4, <3>4, <3>5 DEF Looks
      <3> QED
        BY <1>2, <3>4, <3>6 DEF t
    <2> QED
      BY <2>5, <2>6, <2>7
  <1> QED
    BY <1>6, <1>7, <1>8

----------------------------------------------------------------------------
(* Its invariant.                                                          *)

\* The nodes of T name one another in a circle, at least.
Circle(ts, T) == T # {} /\ \A u \in T : \E d \in T : d \in DepsOf(ts, u)

IsCycle(ts, c) ==
  /\ c \in Seq(Known(ts)) /\ Len(c) >= 2 /\ c[1] = c[Len(c)]
  /\ \A n \in 2..Len(c) : c[n] \in DepsOf(ts, c[n - 1])

\* The stack is a path without repetition.
PathInv(ts, s) ==
  /\ \A m, n \in DOMAIN s.stack : s.stack[m] = s.stack[n] => m = n
  /\ \A n \in DOMAIN s.stack : s.stack[n] \notin s.visited
  /\ \A n \in DOMAIN s.stack : n + 1 \in DOMAIN s.stack => s.stack[n + 1] \in DepsOf(ts, s.stack[n])

\* What is visited has its dependencies visited and no circle in it.
VisitedInv(ts, s) ==
  /\ \A u \in s.visited : DepsOf(ts, u) \subseteq s.visited
  /\ \A T \in SUBSET s.visited : ~Circle(ts, T)

\* What a node on the stack has looked at is visited or next on the stack.
LeftInv(ts, s) ==
  /\ \A u \in Known(ts) :
       u \notin s.visited /\ (\A n \in DOMAIN s.stack : s.stack[n] # u) =>
         DepsOf(ts, u) \subseteq s.left[u]
  /\ \A u \in Known(ts) : s.left[u] \subseteq DepsOf(ts, u)
  /\ \A n \in DOMAIN s.stack : \A d \in DepsOf(ts, s.stack[n]) \ s.left[s.stack[n]] :
       d \in s.visited \/ (n + 1 \in DOMAIN s.stack /\ s.stack[n + 1] = d)

SearchInv(ts, s) ==
  /\ s \in SearchState(Known(ts))
  /\ s.cycle = <<>> => PathInv(ts, s) /\ VisitedInv(ts, s) /\ LeftInv(ts, s)
  /\ s.cycle # <<>> => IsCycle(ts, s.cycle)

\* deps_map drops what is not an id of the backlog.
LEMMA DepsAreKnown == \A ts, u : DepsOf(ts, u) \subseteq Known(ts)
  BY DEF DepsOf

\* A record with the right fields is a state of the search.
LEMMA StateFromFields ==
  ASSUME NEW K, NEW t,
         t = [stack |-> t.stack, left |-> t.left, visited |-> t.visited, cycle |-> t.cycle],
         t.stack \in Seq(K), t.left \in [K -> SUBSET K], t.visited \in SUBSET K, t.cycle \in Seq(K)
  PROVE  t \in SearchState(K)
  BY DEF SearchState

\* Pushing leaves the elements of the stack where they are.
LEMMA AppendedStack ==
  ASSUME NEW K, NEW q \in Seq(K), NEW id \in K
  PROVE  /\ Append(q, id) \in Seq(K) /\ Len(Append(q, id)) = Len(q) + 1 /\ Len(q) \in Nat
         /\ DOMAIN q = 1..Len(q) /\ DOMAIN Append(q, id) = 1..(Len(q) + 1)
         /\ \A n \in 1..Len(q) : Append(q, id)[n] = q[n] /\ n \in 1..(Len(q) + 1)
         /\ Append(q, id)[Len(q) + 1] = id
  OBVIOUS

\* The invariant survives the start of a new root,
LEMMA EnterKeeps ==
  ASSUME NEW ts, NEW s, SearchInv(ts, s), s.cycle = <<>>, NEW t,
         t = [stack |-> t.stack, left |-> t.left, visited |-> t.visited, cycle |-> t.cycle],
         Enters(Known(ts), s, t)
  PROVE  SearchInv(ts, t)
  <1> DEFINE K == Known(ts)
  <1>1. PICK id \in K \ s.visited :
          /\ s.stack = <<>> /\ t.stack = Append(s.stack, id)
          /\ t.left = s.left /\ t.visited = s.visited /\ t.cycle = <<>>
    BY DEF Enters
  <1>2. /\ s.stack \in Seq(K) /\ s.left \in [K -> SUBSET K] /\ s.visited \in SUBSET K
        /\ PathInv(ts, s) /\ VisitedInv(ts, s) /\ LeftInv(ts, s)
    BY StateFields DEF SearchInv
  <1>3. t.stack \in Seq(K) /\ Len(t.stack) = 1 /\ DOMAIN t.stack = {1} /\ t.stack[1] = id
        /\ DOMAIN s.stack = {}
    BY <1>1, <1>2
  <1>4. t.cycle \in Seq(K)
    BY <1>1
  <1>5. t \in SearchState(K)
    BY <1>1, <1>2, <1>3, <1>4, StateFromFields
  <1> HIDE DEF K
  <1>6. PathInv(ts, t)
    BY <1>1, <1>3 DEF PathInv
  <1>7. VisitedInv(ts, t)
    BY <1>1, <1>2 DEF VisitedInv
  <1>8. LeftInv(ts, t)
    <2>1. DepsOf(ts, id) \subseteq s.left[id]
      BY <1>1, <1>2, <1>3 DEF LeftInv, K
    <2> QED
      BY <1>1, <1>2, <1>3, <2>1 DEF LeftInv
  <1> QED
    BY <1>1, <1>5, <1>6, <1>7, <1>8 DEF SearchInv, K

\* the return of a call, where what is left has no circle because all of its
\* dependencies were visited before it,
LEMMA LeaveKeeps ==
  ASSUME NEW ts, NEW s, SearchInv(ts, s), s.cycle = <<>>, NEW t,
         t = [stack |-> t.stack, left |-> t.left, visited |-> t.visited, cycle |-> t.cycle],
         Leaves(s, t)
  PROVE  SearchInv(ts, t)
  <1> DEFINE K == Known(ts)
             q == s.stack
             L == Len(q)
             u == q[L]
  <1>1. /\ q \in Seq(K) /\ s.left \in [K -> SUBSET K] /\ s.visited \in SUBSET K
        /\ PathInv(ts, s) /\ VisitedInv(ts, s) /\ LeftInv(ts, s)
    BY StateFields DEF SearchInv
  <1>2. /\ q # <<>> /\ s.left[u] = {} /\ t.stack = SubSeq(q, 1, L - 1)
        /\ t.visited = s.visited \cup {u} /\ t.left = s.left /\ t.cycle = <<>>
    BY DEF Leaves
  <1>3. /\ L \in Nat \ {0} /\ DOMAIN q = 1..L /\ u \in K
        /\ t.stack \in Seq(K) /\ Len(t.stack) = L - 1
        /\ \A n \in 1..(L - 1) : t.stack[n] = q[n]
    BY <1>1, <1>2, FrontOfStack
  <1>4. DOMAIN t.stack = 1..(L - 1) /\ t.cycle \in Seq(K)
    BY <1>2, <1>3
  <1>5. t \in SearchState(K)
    BY <1>1, <1>2, <1>3, <1>4, StateFromFields
  <1> HIDE DEF K, q, L, u
  <1>6. \A n \in 1..(L - 1) : n \in DOMAIN q /\ n # L /\ q[n] # u
    <2> SUFFICES ASSUME NEW n \in 1..(L - 1) PROVE n \in DOMAIN q /\ n # L /\ q[n] # u
      OBVIOUS
    <2>1. n \in DOMAIN q /\ L \in DOMAIN q /\ n # L
      BY <1>3
    <2> QED
      BY <1>1, <2>1 DEF PathInv, u, q
  <1>7. u \notin s.visited /\ L \in DOMAIN q
    <2>1. L \in DOMAIN q
      BY <1>3
    <2> QED
      BY <1>1, <2>1 DEF PathInv, u, q
  <1>8. PathInv(ts, t)
    <2>1. \A m, n \in DOMAIN t.stack : t.stack[m] = t.stack[n] => m = n
      BY <1>1, <1>3, <1>4, <1>6 DEF PathInv, q
    <2>2. \A n \in DOMAIN t.stack : t.stack[n] \notin t.visited
      BY <1>1, <1>2, <1>3, <1>4, <1>6 DEF PathInv, q
    <2>3. \A n \in DOMAIN t.stack :
            n + 1 \in DOMAIN t.stack => t.stack[n + 1] \in DepsOf(ts, t.stack[n])
      BY <1>1, <1>3, <1>4, <1>6 DEF PathInv, q
    <2> QED
      BY <2>1, <2>2, <2>3 DEF PathInv
  <1>9. DepsOf(ts, u) \subseteq s.visited
    <2>1. L + 1 \notin DOMAIN q
      BY <1>3
    <2> QED
      BY <1>1, <1>2, <1>7, <2>1 DEF LeftInv, q, u
  <1>10. VisitedInv(ts, t)
    <2>1. \A v \in t.visited : DepsOf(ts, v) \subseteq t.visited
      BY <1>1, <1>2, <1>9 DEF VisitedInv
    <2>2. ASSUME NEW T \in SUBSET t.visited, Circle(ts, T) PROVE FALSE
      <3>1. T \ {u} \in SUBSET s.visited
        BY <1>2
      <3>2. Circle(ts, T \ {u})
        <4>1. ASSUME NEW v \in T PROVE \E d \in T \ {u} : d \in DepsOf(ts, v)
          <5>1. PICK d \in T : d \in DepsOf(ts, v)
            BY <2>2 DEF Circle
          <5>2. d \in s.visited
            BY <1>1, <1>2, <1>9, <5>1 DEF VisitedInv
          <5> QED
            BY <1>7, <5>1, <5>2
        <4>2. T # {}
          BY <2>2 DEF Circle
        <4> QED
          BY <4>1, <4>2 DEF Circle
      <3> QED
        BY <1>1, <3>1, <3>2 DEF VisitedInv
    <2> QED
      BY <2>1, <2>2 DEF VisitedInv
  <1>11. LeftInv(ts, t)
    <2>1. ASSUME NEW v \in Known(ts), v \notin t.visited, \A n \in DOMAIN t.stack : t.stack[n] # v
          PROVE  DepsOf(ts, v) \subseteq t.left[v]
      <3>1. \A n \in DOMAIN q : q[n] # v
        <4> SUFFICES ASSUME NEW n \in DOMAIN q, q[n] = v PROVE FALSE
          OBVIOUS
        <4>1. n # L
          BY <1>2, <2>1 DEF u
        <4>2. n \in 1..(L - 1)
          BY <1>3, <4>1
        <4> QED
          BY <1>3, <1>4, <2>1, <4>2
      <3> QED
        BY <1>1, <1>2, <2>1, <3>1 DEF LeftInv, q
    <2>2. ASSUME NEW n \in DOMAIN t.stack, NEW d \in DepsOf(ts, t.stack[n]) \ t.left[t.stack[n]]
          PROVE  d \in t.visited \/ (n + 1 \in DOMAIN t.stack /\ t.stack[n + 1] = d)
      <3>1. n \in DOMAIN q /\ t.stack[n] = q[n] /\ n \in 1..(L - 1)
        BY <1>3, <1>4, <1>6
      <3>2. d \in s.visited \/ (n + 1 \in DOMAIN q /\ q[n + 1] = d)
        BY <1>1, <1>2, <2>2, <3>1 DEF LeftInv, q
      <3>3. CASE d \in s.visited
        BY <1>2, <3>3
      <3>4. CASE n + 1 \in DOMAIN q /\ q[n + 1] = d
        <4>1. CASE n + 1 = L
          BY <1>2, <3>4, <4>1 DEF u
        <4>2. CASE n + 1 # L
          <5>1. n + 1 \in 1..(L - 1)
            BY <1>3, <3>1, <4>2
          <5> QED
            BY <1>3, <1>4, <3>4, <5>1
        <4> QED
          BY <4>1, <4>2
      <3> QED
        BY <3>2, <3>3, <3>4
    <2>3. \A v \in Known(ts) : t.left[v] \subseteq DepsOf(ts, v)
      BY <1>1, <1>2 DEF LeftInv
    <2> QED
      BY <2>1, <2>2, <2>3 DEF LeftInv
  <1> QED
    BY <1>2, <1>5, <1>8, <1>10, <1>11 DEF SearchInv, K

\* The next dependency is on the stack: what is from there on is a cycle.
LEMMA CycleFound ==
  ASSUME NEW ts, NEW s, SearchInv(ts, s), s.cycle = <<>>, s.stack # <<>>,
         NEW id \in DepsOf(ts, s.stack[Len(s.stack)]), NEW n \in DOMAIN s.stack, s.stack[n] = id
  PROVE  IsCycle(ts, Append(SubSeq(s.stack, n, Len(s.stack)), id))
  <1> DEFINE K == Known(ts)
             q == s.stack
             L == Len(q)
             b == SubSeq(q, n, L)
             c == Append(b, id)
  <1>1. q \in Seq(K) /\ PathInv(ts, s) /\ id \in K
    BY StateFields, DepsAreKnown DEF SearchInv
  <1>2. L \in Nat /\ DOMAIN q = 1..L /\ n \in 1..L /\ \A i \in 1..L : q[i] \in K
    BY <1>1
  <1> HIDE DEF K, L
  <1>3. /\ b \in Seq(K) /\ Len(b) = L - n + 1
        /\ \A i \in 1..(L - n + 1) : b[i] = q[n + i - 1]
    <2>1. \A i \in n..L : q[i] \in K
      BY <1>2
    <2>2. n \in Int /\ L \in Int /\ n <= L
      BY <1>2
    <2>3. /\ b \in Seq(K)
          /\ Len(b) = IF n <= L THEN L - n + 1 ELSE 0
          /\ \A i \in 1..(L - n + 1) : b[i] = q[n + i - 1]
      BY <2>1, <2>2, SubSeqProperties
    <2> QED
      BY <2>2, <2>3
  <1> HIDE DEF b
  <1> DEFINE m == L - n + 1
  <1>4. m \in Nat \ {0} /\ Len(b) = m
    BY <1>2, <1>3
  <1>5. /\ c \in Seq(K) /\ Len(c) = m + 1 /\ c[m + 1] = id
        /\ \A i \in 1..m : c[i] = b[i]
    BY <1>1, <1>3, <1>4, AppendedStack
  <1>6. \A i \in 1..m : c[i] = q[n + i - 1] /\ n + i - 1 \in 1..L
    BY <1>2, <1>3, <1>5
  <1>7. c[1] = id
    <2>1. 1 \in 1..m /\ n + 1 - 1 = n
      BY <1>2, <1>4
    <2> QED
      BY <1>6, <2>1
  <1>8. ASSUME NEW i \in 2..(m + 1) PROVE c[i] \in DepsOf(ts, c[i - 1])
    <2>1. i - 1 \in 1..m
      BY <1>4
    <2>2. c[i - 1] = q[n + (i - 1) - 1] /\ n + (i - 1) - 1 \in 1..L
      BY <1>6, <2>1
    <2>3. CASE i = m + 1
      <3>1. n + (i - 1) - 1 = L
        BY <1>2, <2>3
      <3> QED
        BY <1>5, <2>2, <2>3, <3>1 DEF L
    <2>4. CASE i # m + 1
      <3>1. i \in 1..m
        BY <1>4, <2>4
      <3>2. c[i] = q[n + i - 1] /\ n + i - 1 \in 1..L
        BY <1>6, <3>1
      <3>3. n + i - 1 = (n + (i - 1) - 1) + 1
        BY <1>2
      <3> DEFINE j == n + (i - 1) - 1
      <3>4. j \in DOMAIN q /\ j + 1 \in DOMAIN q /\ c[i - 1] = q[j] /\ c[i] = q[j + 1]
        BY <1>2, <2>2, <3>2, <3>3
      <3> HIDE DEF j
      <3> QED
        BY <1>1, <3>4 DEF PathInv
    <2> QED
      BY <2>3, <2>4
  <1>9. Len(c) >= 2 /\ c[Len(c)] = id
    BY <1>4, <1>5
  <1> HIDE DEF c, m
  <1>10. IsCycle(ts, c)
    BY <1>4, <1>5, <1>7, <1>8, <1>9 DEF IsCycle, K
  <1> QED
    BY <1>10 DEF c, b, L

\* and the look at a dependency.
LEMMA LookKeeps ==
  ASSUME NEW ts, NEW s, SearchInv(ts, s), s.cycle = <<>>, NEW t,
         t = [stack |-> t.stack, left |-> t.left, visited |-> t.visited, cycle |-> t.cycle],
         Looks(s, t)
  PROVE  SearchInv(ts, t)
  <1> DEFINE K == Known(ts)
             q == s.stack
             L == Len(q)
             u == q[L]
  <1>1. PICK id : LooksAt(s, t, id) /\ (Closes(s, t, id) \/ Skips(s, t, id) \/ Descends(s, t, id))
    BY DEF Looks
  <1>2. /\ q \in Seq(K) /\ s.left \in [K -> SUBSET K] /\ s.visited \in SUBSET K
        /\ PathInv(ts, s) /\ VisitedInv(ts, s) /\ LeftInv(ts, s)
    BY StateFields DEF SearchInv
  <1>3. /\ q # <<>> /\ id \in s.left[u] /\ t.left = [s.left EXCEPT ![u] = @ \ {id}]
        /\ t.visited = s.visited
    BY <1>1 DEF LooksAt
  <1>4. L \in Nat \ {0} /\ DOMAIN q = 1..L /\ u \in K /\ L \in DOMAIN q
    BY <1>2, <1>3, FrontOfStack
  <1>5. id \in DepsOf(ts, u) /\ id \in K
    <2> HIDE DEF u
    <2>1. \A v \in K : s.left[v] \subseteq DepsOf(ts, v)
      BY <1>2 DEF LeftInv
    <2>2. id \in DepsOf(ts, u)
      BY <1>3, <1>4, <2>1
    <2> QED
      BY <2>2, DepsAreKnown
  <1>6. t.left \in [K -> SUBSET K] /\ t.left[u] = s.left[u] \ {id}
        /\ \A v \in K : v # u => t.left[v] = s.left[v]
    BY <1>2, <1>3, <1>4
  <1>7. CASE Closes(s, t, id)
    <2>1. PICK n \in DOMAIN q : /\ q[n] = id /\ t.stack = q
                                /\ t.cycle = Append(SubSeq(q, n, L), id)
      BY <1>7 DEF Closes
    <2>2. IsCycle(ts, t.cycle)
      <3>1. IsCycle(ts, Append(SubSeq(q, n, L), id))
        BY <1>3, <1>5, <2>1, CycleFound
      <3> QED
        BY <2>1, <3>1
    <2>3. t.cycle \in Seq(K) /\ t.cycle # <<>>
      BY <2>2 DEF IsCycle
    <2>4. t \in SearchState(K)
      BY <1>2, <1>3, <1>6, <2>1, <2>3, StateFromFields
    <2> QED
      BY <2>2, <2>3, <2>4 DEF SearchInv
  <1> HIDE DEF K, q, L, u
  <1>8. \A v \in Known(ts) : t.left[v] \subseteq DepsOf(ts, v)
    BY <1>2, <1>4, <1>6 DEF LeftInv, K
  <1>9. \A n \in DOMAIN q : q[n] \in K /\ (q[n] = u => n = L)
    <2>1. \A n \in DOMAIN q : q[n] \in K
      BY <1>2
    <2> QED
      BY <1>2, <1>4, <2>1 DEF PathInv, q, u
  <1>10. VisitedInv(ts, t)
    BY <1>2, <1>3 DEF VisitedInv
  <1>11. CASE Skips(s, t, id)
    <2>1. id \in s.visited /\ t.stack = q /\ t.cycle = <<>>
      BY <1>11 DEF Skips, q
    <2>2. t \in SearchState(K)
      <3>1. t.cycle \in Seq(K)
        BY <2>1
      <3> QED
        BY <1>2, <1>3, <1>6, <2>1, <3>1, StateFromFields
    <2>3. PathInv(ts, t)
      BY <1>2, <1>3, <2>1 DEF PathInv, q
    <2>4. LeftInv(ts, t)
      <3>1. ASSUME NEW v \in Known(ts), v \notin t.visited, \A n \in DOMAIN t.stack : t.stack[n] # v
            PROVE  DepsOf(ts, v) \subseteq t.left[v]
        <4>1. v # u
          BY <1>4, <2>1, <3>1 DEF u
        <4> QED
          BY <1>2, <1>3, <1>6, <2>1, <3>1, <4>1 DEF LeftInv, q, K
      <3>2. ASSUME NEW n \in DOMAIN t.stack, NEW d \in DepsOf(ts, t.stack[n]) \ t.left[t.stack[n]]
            PROVE  d \in t.visited \/ (n + 1 \in DOMAIN t.stack /\ t.stack[n + 1] = d)
        <4>1. n \in DOMAIN q /\ t.stack[n] = q[n] /\ q[n] \in K
          BY <1>9, <2>1
        <4>2. CASE d = id
          BY <1>3, <2>1, <4>2
        <4>3. CASE d # id
          <5>1. d \notin s.left[q[n]]
            BY <1>6, <3>2, <4>1, <4>3
          <5> QED
            BY <1>2, <1>3, <2>1, <3>2, <4>1, <5>1 DEF LeftInv, q
        <4> QED
          BY <4>2, <4>3
      <3> QED
        BY <1>8, <3>1, <3>2 DEF LeftInv
    <2> QED
      BY <1>10, <2>1, <2>2, <2>3, <2>4 DEF SearchInv, K
  <1>12. CASE Descends(s, t, id)
    <2>1. id \notin s.visited /\ (\A n \in DOMAIN q : q[n] # id) /\ t.stack = Append(q, id)
          /\ t.cycle = <<>>
      BY <1>12 DEF Descends, q
    <2>2. /\ t.stack \in Seq(K) /\ DOMAIN t.stack = 1..(L + 1)
          /\ (\A n \in 1..L : t.stack[n] = q[n]) /\ t.stack[L + 1] = id
      BY <1>2, <1>5, <2>1, AppendedStack DEF L
    <2>3. t \in SearchState(K)
      <3>1. t.cycle \in Seq(K)
        BY <2>1
      <3> QED
        BY <1>2, <1>3, <1>6, <2>2, <3>1, StateFromFields
    <2>4. \A n \in DOMAIN t.stack : n = L + 1 \/ (n \in 1..L /\ n \in DOMAIN q)
      BY <1>4, <2>2
    <2>5. PathInv(ts, t)
      <3>1. \A m, n \in DOMAIN t.stack : t.stack[m] = t.stack[n] => m = n
        BY <1>2, <2>1, <2>2, <2>4 DEF PathInv, q
      <3>2. \A n \in DOMAIN t.stack : t.stack[n] \notin t.visited
        BY <1>2, <1>3, <2>1, <2>2, <2>4 DEF PathInv, q
      <3>3. ASSUME NEW n \in DOMAIN t.stack, n + 1 \in DOMAIN t.stack
            PROVE  t.stack[n + 1] \in DepsOf(ts, t.stack[n])
        <4>1. n \in 1..L /\ n \in DOMAIN q
          BY <1>4, <2>2, <3>3
        <4>2. CASE n = L
          BY <1>5, <2>2, <4>1, <4>2 DEF u
        <4>3. CASE n # L
          <5>1. n + 1 \in 1..L /\ n + 1 \in DOMAIN q
            BY <1>4, <4>1, <4>3
          <5> QED
            BY <1>2, <2>2, <4>1, <5>1 DEF PathInv, q
        <4> QED
          BY <4>2, <4>3
      <3> QED
        BY <3>1, <3>2, <3>3 DEF PathInv
    <2>6. LeftInv(ts, t)
      <3>1. ASSUME NEW v \in Known(ts), v \notin t.visited, \A n \in DOMAIN t.stack : t.stack[n] # v
            PROVE  DepsOf(ts, v) \subseteq t.left[v]
        <4>1. \A n \in DOMAIN q : q[n] # v
          <5>1. \A n \in DOMAIN q : n \in 1..L /\ n \in DOMAIN t.stack
            BY <1>4, <2>2
          <5> QED
            BY <2>2, <3>1, <5>1
        <4>2. v # u
          BY <1>4, <4>1 DEF u
        <4> QED
          BY <1>2, <1>3, <1>6, <3>1, <4>1, <4>2 DEF LeftInv, q, K
      <3>2. ASSUME NEW n \in DOMAIN t.stack, NEW d \in DepsOf(ts, t.stack[n]) \ t.left[t.stack[n]]
            PROVE  d \in t.visited \/ (n + 1 \in DOMAIN t.stack /\ t.stack[n + 1] = d)
        <4>1. CASE n = L + 1
          <5>1. t.stack[n] = id /\ id # u
            BY <1>4, <2>1, <2>2, <4>1 DEF u
          <5>2. t.left[id] = s.left[id]
            BY <1>5, <1>6, <5>1
          <5>3. DepsOf(ts, id) \subseteq s.left[id]
            BY <1>2, <1>5, <2>1 DEF LeftInv, q, K
          <5> QED
            BY <3>2, <5>1, <5>2, <5>3
        <4>2. CASE n \in 1..L
          <5>1. n \in DOMAIN q /\ t.stack[n] = q[n] /\ q[n] \in K
            BY <1>4, <1>9, <2>2, <4>2
          <5>2. CASE d \notin s.left[q[n]]
            <6>1. d \in s.visited \/ (n + 1 \in DOMAIN q /\ q[n + 1] = d)
              BY <1>2, <3>2, <5>1, <5>2 DEF LeftInv, q
            <6>2. n + 1 \in DOMAIN q => n + 1 \in 1..L /\ n + 1 \in DOMAIN t.stack
              BY <1>4, <2>2
            <6> QED
              BY <1>3, <2>2, <6>1, <6>2
          <5>3. CASE d \in s.left[q[n]]
            <6>1. q[n] = u /\ d = id
              BY <1>6, <3>2, <5>1, <5>3
            <6>2. n = L
              BY <1>9, <5>1, <6>1
            <6>3. n + 1 \in DOMAIN t.stack /\ t.stack[n + 1] = id
              BY <1>4, <2>2, <6>2
            <6> QED
              BY <6>1, <6>3
          <5> QED
            BY <5>2, <5>3
        <4> QED
          BY <2>4, <4>1, <4>2
      <3> QED
        BY <1>8, <3>1, <3>2 DEF LeftInv
    <2> QED
      BY <1>10, <2>1, <2>3, <2>5, <2>6 DEF SearchInv, K
  <1> QED
    BY <1>1, <1>7, <1>11, <1>12

----------------------------------------------------------------------------
(* Every step adds to what happened, so the search ends within its bound.  *)

\* The invariant holds before the first step.
LEMMA StartKeeps == ASSUME NEW ts PROVE SearchInv(ts, Start(ts))
  <1> DEFINE K == Known(ts)
             s == Start(ts)
             l == [id \in K |-> DepsOf(ts, id)]
  <1>1. s = [stack |-> <<>>, left |-> l, visited |-> {}, cycle |-> <<>>]
    BY DEF Start
  <1>2. l \in [K -> SUBSET K]
    BY DepsAreKnown
  <1>3. \A u \in K : l[u] = DepsOf(ts, u)
    OBVIOUS
  <1> HIDE DEF l, s
  <1>4. s.stack = <<>> /\ s.left = l /\ s.visited = {} /\ s.cycle = <<>>
    BY <1>1
  <1>5. s \in SearchState(K)
    <2>1. s = [stack |-> s.stack, left |-> s.left, visited |-> s.visited, cycle |-> s.cycle]
      BY <1>1
    <2>2. /\ s.stack \in Seq(K) /\ s.left \in [K -> SUBSET K]
          /\ s.visited \in SUBSET K /\ s.cycle \in Seq(K)
      BY <1>2, <1>4
    <2> HIDE DEF K
    <2> QED
      BY <2>1, <2>2, StateFromFields
  <1>6. DOMAIN s.stack = {}
    BY <1>4
  <1>7. PathInv(ts, s)
    BY <1>6 DEF PathInv
  <1>8. VisitedInv(ts, s)
    BY <1>4 DEF VisitedInv, Circle
  <1>9. LeftInv(ts, s)
    BY <1>3, <1>4, <1>6 DEF LeftInv
  <1> QED
    BY <1>4, <1>5, <1>7, <1>8, <1>9 DEF SearchInv, s

\* No step breaks it.
LEMMA SearchStepKeeps ==
  ASSUME NEW ts, NEW s, SearchInv(ts, s)
  PROVE  SearchInv(ts, SearchStep(ts, s))
  <1>1. CASE Over(ts, s)
    BY <1>1 DEF SearchStep
  <1>2. CASE ~Over(ts, s)
    <2> DEFINE t == SearchStep(ts, s)
    <2>1. s \in SearchState(Known(ts))
      BY DEF SearchInv
    <2>2. /\ s.cycle = <<>>
          /\ t = [stack |-> t.stack, left |-> t.left, visited |-> t.visited, cycle |-> t.cycle]
          /\ Enters(Known(ts), s, t) \/ Leaves(s, t) \/ Looks(s, t)
      BY <1>2, <2>1, StepKinds
    <2> HIDE DEF t
    <2>3. SearchInv(ts, t)
      BY <2>2, EnterKeeps, LeaveKeeps, LookKeeps
    <2> QED
      BY <2>3 DEF t
  <1> QED
    BY <1>1, <1>2

\* What the search has done so far: the nodes it entered, those it left, and
\* the dependencies it looked at.
Events(K) == (0..2) \X (K \X K)

Happened(K, s) ==
  {e \in Events(K) :
     \/ e[1] = 0 /\ (e[2][1] \in s.visited \/ \E n \in DOMAIN s.stack : s.stack[n] = e[2][1])
     \/ e[1] = 1 /\ e[2][1] \in s.visited
     \/ e[1] = 2 /\ e[2][2] \notin s.left[e[2][1]]}

\* A step that is not the last makes something happen.
LEMMA SomethingHappens ==
  ASSUME NEW ts, NEW s, SearchInv(ts, s), ~Over(ts, s)
  PROVE  /\ Happened(Known(ts), s) \subseteq Happened(Known(ts), SearchStep(ts, s))
         /\ Happened(Known(ts), s) # Happened(Known(ts), SearchStep(ts, s))
  <1> DEFINE K == Known(ts)
             t == SearchStep(ts, s)
             q == s.stack
             On(x, id) == \E n \in DOMAIN x.stack : x.stack[n] = id
  <1> SUFFICES Happened(K, s) \subseteq Happened(K, t) /\ Happened(K, s) # Happened(K, t)
    OBVIOUS
  <1>1. s \in SearchState(K)
    BY DEF SearchInv
  <1>2. /\ s.cycle = <<>>
        /\ Enters(K, s, t) \/ Leaves(s, t) \/ Looks(s, t)
    BY <1>1, StepKinds
  <1>3. q \in Seq(K) /\ s.left \in [K -> SUBSET K] /\ s.visited \in SUBSET K /\ PathInv(ts, s)
    BY <1>1, <1>2, StateFields DEF SearchInv
  <1> HIDE DEF t, K
  <1>4. ASSUME s.visited \subseteq t.visited, \A n \in DOMAIN q : q[n] \in t.visited \/ On(t, q[n]),
               \A v \in K : t.left[v] \subseteq s.left[v],
               NEW k \in 0..2, NEW u \in K, NEW d \in K,
               \/ k = 0 /\ u \notin s.visited /\ ~On(s, u) /\ On(t, u)
               \/ k = 1 /\ u \in t.visited \ s.visited
               \/ k = 2 /\ d \in s.left[u] \ t.left[u]
        PROVE  Happened(K, s) \subseteq Happened(K, t) /\ Happened(K, s) # Happened(K, t)
    <2>1. Happened(K, s) \subseteq Happened(K, t)
      <3> SUFFICES ASSUME NEW e \in Happened(K, s) PROVE e \in Happened(K, t)
        OBVIOUS
      <3>1. e \in Events(K) /\ e[2][1] \in K
        BY DEF Happened, Events
      <3>2. CASE e[1] = 0 /\ (e[2][1] \in s.visited \/ On(s, e[2][1]))
        BY <1>4, <3>1, <3>2 DEF Happened
      <3>3. CASE e[1] = 1 /\ e[2][1] \in s.visited
        BY <1>4, <3>1, <3>3 DEF Happened
      <3>4. CASE e[1] = 2 /\ e[2][2] \notin s.left[e[2][1]]
        BY <1>4, <3>1, <3>4 DEF Happened
      <3> QED
        BY <3>2, <3>3, <3>4 DEF Happened
    <2> DEFINE x == <<k, <<u, d>>>>
    <2>2. x \in Events(K) /\ x[1] = k /\ x[2][1] = u /\ x[2][2] = d
      BY DEF Events
    <2> HIDE DEF x
    <2>3. x \in Happened(K, t) /\ x \notin Happened(K, s)
      <3>1. CASE k = 0 /\ u \notin s.visited /\ ~On(s, u) /\ On(t, u)
        BY <2>2, <3>1 DEF Happened
      <3>2. CASE k = 1 /\ u \in t.visited \ s.visited
        BY <2>2, <3>2 DEF Happened
      <3>3. CASE k = 2 /\ d \in s.left[u] \ t.left[u]
        BY <2>2, <3>3 DEF Happened
      <3> QED
        BY <1>4, <3>1, <3>2, <3>3
    <2> QED
      BY <2>1, <2>3
  <1>5. CASE Enters(K, s, t)
    <2>1. PICK id \in K \ s.visited : q = <<>> /\ t.stack = Append(q, id) /\ t.left = s.left
                                      /\ t.visited = s.visited
      BY <1>5 DEF Enters
    <2>2. DOMAIN q = {} /\ DOMAIN t.stack = {1} /\ t.stack[1] = id
      BY <1>3, <2>1
    <2>3. ~On(s, id) /\ On(t, id)
      BY <2>2
    <2> HIDE DEF q, On
    <2>4. 0 \in 0..2 /\ id \in K /\ id \notin s.visited
      BY <2>1
    <2> QED
      BY <1>4, <2>1, <2>2, <2>3, <2>4
  <1>6. CASE Leaves(s, t)
    <2> DEFINE L == Len(q)
               u == q[L]
    <2>1. /\ q # <<>> /\ t.stack = SubSeq(q, 1, L - 1)
          /\ t.visited = s.visited \cup {u} /\ t.left = s.left
      BY <1>6 DEF Leaves
    <2>2. /\ L \in Nat \ {0} /\ DOMAIN q = 1..L /\ u \in K
          /\ t.stack \in Seq(K) /\ Len(t.stack) = L - 1
          /\ \A n \in 1..(L - 1) : t.stack[n] = q[n]
      BY <1>3, <2>1, FrontOfStack
    <2>3. DOMAIN t.stack = 1..(L - 1) /\ L \in DOMAIN q
      BY <2>2
    <2> HIDE DEF L
    <2>4. u \notin s.visited
      BY <1>3, <2>3 DEF PathInv
    <2>5. ASSUME NEW n \in DOMAIN q PROVE q[n] \in t.visited \/ On(t, q[n])
      <3>1. CASE n = L
        BY <2>1, <3>1
      <3>2. CASE n # L
        <4>1. n \in DOMAIN t.stack /\ t.stack[n] = q[n]
          BY <2>2, <2>3, <3>2
        <4> QED
          BY <4>1
      <3> QED
        BY <3>1, <3>2
    <2>6. s.visited \subseteq t.visited /\ (\A v \in K : t.left[v] \subseteq s.left[v])
          /\ u \in t.visited \ s.visited /\ 1 \in 0..2
      BY <2>1, <2>4
    <2> HIDE DEF u, On, q
    <2> QED
      BY <1>4, <2>2, <2>5, <2>6
  <1>7. CASE Looks(s, t)
    <2>1. PICK id : LooksAt(s, t, id) /\ (Closes(s, t, id) \/ Skips(s, t, id) \/ Descends(s, t, id))
      BY <1>7 DEF Looks
    <2> DEFINE L == Len(q)
               u == q[L]
    <2>2. /\ q # <<>> /\ id \in s.left[u] /\ t.left = [s.left EXCEPT ![u] = @ \ {id}]
          /\ t.visited = s.visited
      BY <2>1 DEF LooksAt
    <2>3. L \in Nat \ {0} /\ DOMAIN q = 1..L /\ u \in K
      BY <1>3, <2>2, FrontOfStack
    <2>4. id \in K
      BY <1>3, <2>2, <2>3
    <2>5. t.stack = q \/ t.stack = Append(q, id)
      BY <2>1 DEF Closes, Skips, Descends
    <2>6. \A n \in DOMAIN q : n \in DOMAIN t.stack /\ t.stack[n] = q[n]
      <3>1. CASE t.stack = q
        BY <3>1
      <3>2. CASE t.stack = Append(q, id)
        BY <1>3, <2>4, <3>2, AppendedStack
      <3> QED
        BY <2>5, <3>1, <3>2
    <2>7. \A n \in DOMAIN q : On(t, q[n])
      BY <2>6
    <2> HIDE DEF u, On, q
    <2>8. (\A v \in K : t.left[v] \subseteq s.left[v]) /\ id \in s.left[u] \ t.left[u]
      BY <1>3, <2>2, <2>3
    <2>9. s.visited \subseteq t.visited /\ 2 \in 0..2
      BY <2>2
    <2> QED
      BY <1>4, <2>3, <2>4, <2>7, <2>8, <2>9
  <1> QED
    BY <1>2, <1>5, <1>6, <1>7

\* Arithmetic of the bound.
LEMMA ProductOrder ==
  ASSUME NEW k \in Nat, NEW N \in Nat, k <= N
  PROVE  3 * (k * k) <= 3 * N * N
  <1>1. k * k <= k * N
    OBVIOUS
  <1>2. k * N <= N * N
    OBVIOUS
  <1>3. k * k \in Nat /\ k * N \in Nat /\ N * N \in Nat
    OBVIOUS
  <1>4. 3 * N * N = 3 * (N * N)
    OBVIOUS
  <1> QED
    BY <1>1, <1>2, <1>3, <1>4

\* No more can happen than the bound of the search allows steps.
LEMMA EventsBound ==
  ASSUME NEW ts \in Seq(PlanTask)
  PROVE  /\ IsFiniteSet(Events(Known(ts))) /\ Cardinality(Events(Known(ts))) \in Nat
         /\ Cardinality(Events(Known(ts))) <= 3 * Len(ts) * Len(ts)
  <1> DEFINE K == Known(ts)
             N == Len(ts)
             f == [i \in 1..N |-> ts[i].id]
  <1>1. N \in Nat /\ DOMAIN ts = 1..N
    OBVIOUS
  <1>2. IsFiniteSet(1..N) /\ Cardinality(1..N) = N
    <2>1. Cardinality(1..N) = IF 1 > N THEN 0 ELSE N - 1 + 1
      BY <1>1, FS_Interval
    <2> QED
      BY <1>1, <2>1, FS_Interval
  <1>3. f \in Surjection(1..N, K)
    BY <1>1 DEF Surjection, Known
  <1> HIDE DEF K, f
  <1>5. IsFiniteSet(K) /\ Cardinality(K) \in Nat /\ Cardinality(K) <= N
    BY <1>2, <1>3, FS_Surjection, FS_CardinalityType
  <1>6. IsFiniteSet(0..2) /\ Cardinality(0..2) = 3
    <2>1. 0 \in Int /\ 2 \in Int /\ (IF 0 > 2 THEN 0 ELSE 2 - 0 + 1) = 3
      OBVIOUS
    <2> QED
      BY <2>1, FS_Interval
  <1>7. IsFiniteSet(K \X K) /\ Cardinality(K \X K) = Cardinality(K) * Cardinality(K)
    BY <1>5, FS_Product
  <1>8. IsFiniteSet(Events(K)) /\ Cardinality(Events(K)) = 3 * Cardinality(K \X K)
    BY <1>6, <1>7, FS_Product DEF Events
  <1>9. 3 * (Cardinality(K) * Cardinality(K)) <= 3 * N * N
    <2> HIDE DEF N
    <2> QED
      BY <1>1, <1>5, ProductOrder
  <1>10. Cardinality(Events(K)) \in Nat
    BY <1>8, FS_CardinalityType
  <1> QED
    BY <1>7, <1>8, <1>9, <1>10 DEF K, N

StepBound(ts) == 3 * Len(ts) * Len(ts)

\* The answer of the search is what its last state says, and the invariant
\* holds of all its states.
LEMMA SearchRuns ==
  ASSUME NEW ts \in Seq(PlanTask)
  PROVE  \E p : /\ FindCycle(ts) = p[StepBound(ts)].cycle
                /\ p[0] = Start(ts)
                /\ \A n \in 1..StepBound(ts) : p[n] = SearchStep(ts, p[n - 1])
                /\ \A n \in 0..StepBound(ts) : SearchInv(ts, p[n])
  <1> DEFINE S == {s \in SearchState(Known(ts)) : SearchInv(ts, s)}
             N == StepBound(ts)
             F == [x \in Nat \X S |-> SearchStep(ts, x[2])]
             c == Start(ts)
             Body(q) == [n \in 0..N |-> IF n = 0 THEN Start(ts) ELSE SearchStep(ts, q[n - 1])]
             p == CHOOSE q : q = Body(q)
  <1>1. N \in Nat
    <2>1. Len(ts) \in Nat
      OBVIOUS
    <2> QED
      BY <2>1 DEF StepBound
  <1>2. c \in S
    BY StartKeeps DEF SearchInv
  <1>3. \A s \in S : SearchStep(ts, s) \in S
    BY SearchStepKeeps DEF SearchInv
  <1>4. F \in [(Nat \X S) -> S]
    BY <1>3
  <1>5. PICK f \in [0..N -> S] : Recurs(f, c, F, N)
    <2> HIDE DEF F, N, S, c
    <2> QED
      BY <1>1, <1>2, <1>4, RecursionExists, Zenon
  <1>6. f[0] = c /\ \A n \in 1..N : f[n] = SearchStep(ts, f[n - 1])
    <2> HIDE DEF S, c, N
    <2> QED
      BY <1>1, <1>5 DEF Recurs
  <1>7. f = Body(f)
    <2> HIDE DEF F, S, N
    <2> QED
      BY <1>1, <1>5, <1>6
  <1>8. FindCycle(ts) = p[N].cycle
    BY DEF FindCycle, StepBound
  <1>9. p = Body(p)
    <2> HIDE DEF Body
    <2> QED
      BY <1>7
  <1> HIDE DEF p, N
  <1>10. p[0] = Start(ts) /\ \A n \in 1..N : p[n] = SearchStep(ts, p[n - 1])
    <2>1. \A n \in 0..N : p[n] = IF n = 0 THEN Start(ts) ELSE SearchStep(ts, p[n - 1])
      BY <1>9
    <2> QED
      BY <1>1, <2>1
  <1>11. \A n \in 0..N : SearchInv(ts, p[n])
    <2> DEFINE P == {n \in 0..N : SearchInv(ts, p[n])}
    <2>1. 0 \in P
      BY <1>1, <1>10, StartKeeps
    <2>2. \A n \in 1..N : n - 1 \in P => n \in P
      BY <1>1, <1>10, SearchStepKeeps
    <2> HIDE DEF P
    <2>3. \A n \in 0..N : n \in P
      BY <1>1, <2>1, <2>2, BoundedInduction
    <2> QED
      BY <2>3 DEF P
  <1> QED
    BY <1>8, <1>10, <1>11 DEF N

\* Within its bound the search comes to its end.
LEMMA SearchEnds ==
  ASSUME NEW ts \in Seq(PlanTask), NEW p, p[0] = Start(ts),
         \A n \in 1..StepBound(ts) : p[n] = SearchStep(ts, p[n - 1]),
         \A n \in 0..StepBound(ts) : SearchInv(ts, p[n])
  PROVE  Over(ts, p[StepBound(ts)])
  <1> DEFINE N == StepBound(ts)
             E == Events(Known(ts))
             H(s) == Happened(Known(ts), s)
             P == {n \in 0..N : Over(ts, p[n]) \/ Cardinality(H(p[n])) >= n}
  <1>1. N \in Nat
    <2>1. Len(ts) \in Nat
      OBVIOUS
    <2> QED
      BY <2>1 DEF StepBound
  <1>2. IsFiniteSet(E) /\ Cardinality(E) \in Nat /\ Cardinality(E) <= N
    BY EventsBound DEF StepBound
  <1>3. ASSUME NEW s PROVE H(s) \in SUBSET E
    BY DEF Happened
  <1> HIDE DEF N, E
  <1>4. ASSUME NEW s PROVE /\ IsFiniteSet(H(s)) /\ Cardinality(H(s)) \in Nat
                           /\ Cardinality(H(s)) <= Cardinality(E)
    <2> HIDE DEF H
    <2>1. H(s) \in SUBSET E
      BY <1>3
    <2> QED
      BY <1>2, <2>1, FS_Subset, FS_CardinalityType
  <1>5. ASSUME NEW s, SearchInv(ts, s), ~Over(ts, s)
        PROVE  Cardinality(H(s)) < Cardinality(H(SearchStep(ts, s)))
    <2> DEFINE t == SearchStep(ts, s)
    <2>1. H(s) \in SUBSET H(t) /\ H(s) # H(t)
      BY <1>5, SomethingHappens
    <2> HIDE DEF H, t
    <2>2. IsFiniteSet(H(t)) /\ Cardinality(H(t)) \in Nat /\ Cardinality(H(s)) \in Nat
      BY <1>4
    <2>3. Cardinality(H(s)) <= Cardinality(H(t)) /\ Cardinality(H(s)) # Cardinality(H(t))
      BY <2>1, <2>2, FS_Subset
    <2>4. Cardinality(H(s)) < Cardinality(H(t))
      BY <2>2, <2>3
    <2> QED
      BY <2>4 DEF t
  <1> HIDE DEF H
  <1>6. 0 \in P
    <2>1. Cardinality(H(p[0])) \in Nat
      BY <1>4
    <2> QED
      BY <1>1, <2>1
  <1>7. ASSUME NEW n \in 1..N, n - 1 \in P PROVE n \in P
    <2> DEFINE s == p[n - 1]
               t == SearchStep(ts, s)
    <2>1. p[n] = t /\ SearchInv(ts, s) /\ n \in 0..N
      BY <1>1 DEF N
    <2>2. CASE Over(ts, s)
      <3>1. t = s
        BY <2>2 DEF SearchStep
      <3> QED
        BY <2>1, <2>2, <3>1
    <2>3. CASE ~Over(ts, s)
      <3>1. Cardinality(H(s)) >= n - 1
        BY <1>7, <2>3
      <3>2. Cardinality(H(s)) < Cardinality(H(t)) /\ Cardinality(H(s)) \in Nat
            /\ Cardinality(H(t)) \in Nat
        BY <1>4, <1>5, <2>1, <2>3
      <3>3. Cardinality(H(t)) >= n
        BY <3>1, <3>2
      <3> QED
        BY <2>1, <3>3
    <2> QED
      BY <2>2, <2>3
  <1>8. N \in P
    <2> HIDE DEF P
    <2>1. \A n \in 0..N : n \in P
      BY <1>1, <1>6, <1>7, BoundedInduction
    <2> QED
      BY <1>1, <2>1
  <1>9. SUFFICES ASSUME ~Over(ts, p[N]) PROVE FALSE
    BY DEF N
  <1> DEFINE s == p[N]
             t == SearchStep(ts, s)
  <1>10. Cardinality(H(s)) >= N /\ SearchInv(ts, s)
    BY <1>1, <1>8, <1>9 DEF N
  <1>11. /\ Cardinality(H(s)) < Cardinality(H(t)) /\ Cardinality(H(s)) \in Nat
         /\ Cardinality(H(t)) \in Nat /\ Cardinality(H(t)) <= Cardinality(E)
    BY <1>4, <1>5, <1>9, <1>10
  <1> HIDE DEF s, t
  <1> QED
    BY <1>1, <1>2, <1>10, <1>11

\* kelix lint answers with a cycle exactly when there is one.
LEMMA CycleIsFound ==
  ASSUME NEW ts \in Seq(PlanTask)
  PROVE  /\ FindCycle(ts) # <<>> => IsCycle(ts, FindCycle(ts))
         /\ FindCycle(ts) = <<>> => \A T \in SUBSET Known(ts) : ~Circle(ts, T)
  <1> DEFINE N == StepBound(ts)
  <1>1. PICK p : /\ FindCycle(ts) = p[N].cycle /\ p[0] = Start(ts)
                 /\ \A n \in 1..N : p[n] = SearchStep(ts, p[n - 1])
                 /\ \A n \in 0..N : SearchInv(ts, p[n])
    BY SearchRuns
  <1>2. N \in 0..N
    <2>1. Len(ts) \in Nat
      OBVIOUS
    <2>2. N \in Nat
      BY <2>1 DEF StepBound
    <2> HIDE DEF N
    <2> QED
      BY <2>2
  <1>3. Over(ts, p[N])
    BY <1>1, SearchEnds
  <1> DEFINE s == p[N]
  <1>4. SearchInv(ts, s) /\ s.cycle = FindCycle(ts)
    BY <1>1, <1>2
  <1> HIDE DEF s
  <1>5. Over(ts, s)
    BY <1>3 DEF s
  <1>6. FindCycle(ts) # <<>> => IsCycle(ts, FindCycle(ts))
    BY <1>4 DEF SearchInv
  <1>7. ASSUME FindCycle(ts) = <<>> PROVE \A T \in SUBSET Known(ts) : ~Circle(ts, T)
    <2>1. Known(ts) \subseteq s.visited
      BY <1>4, <1>5, <1>7 DEF Over
    <2>2. \A T \in SUBSET s.visited : ~Circle(ts, T)
      BY <1>4, <1>7 DEF SearchInv, VisitedInv
    <2> QED
      BY <2>1, <2>2
  <1> QED
    BY <1>6, <1>7

----------------------------------------------------------------------------
(* What lint answers, and what waves() says of the same backlog.           *)

\* With unique ids the dependencies of an id are those of its task.
LEMMA DepsOfTask ==
  ASSUME NEW ts, UniqueIds(ts), NEW i \in DOMAIN ts, DOMAIN ts \subseteq Int
  PROVE  DepsOf(ts, ts[i].id) = ts[i].deps \cap Known(ts)
  <1> DEFINE Q(j) == /\ ts[j].id = ts[i].id
                     /\ \A k \in DOMAIN ts : ts[k].id = ts[i].id => k <= j
             j0 == CHOOSE j \in DOMAIN ts : Q(j)
  <1>1. \A k \in DOMAIN ts : ts[k].id = ts[i].id => k = i
    BY DEF UniqueIds
  <1>2. Q(i) /\ \A j \in DOMAIN ts : Q(j) => j = i
    BY <1>1
  <1>3. j0 = i
    <2> HIDE DEF Q
    <2> QED
      BY <1>2
  <1>4. DepsOf(ts, ts[i].id) = ts[j0].deps \cap Known(ts)
    BY DEF DepsOf
  <1> HIDE DEF j0
  <1> QED
    BY <1>3, <1>4

\* A circle of tasks, as the property has it.
TaskCircle(ts, T) == T # {} /\ \A i \in T : \E j \in T : ts[j].id \in ts[i].deps

\* A circle of tasks is one of their ids.
LEMMA TaskCircleIsCircle ==
  ASSUME NEW ts, UniqueIds(ts), DOMAIN ts \subseteq Int, NEW T \in SUBSET (DOMAIN ts),
         TaskCircle(ts, T)
  PROVE  \E U \in SUBSET Known(ts) : Circle(ts, U)
  <1> DEFINE U == {ts[i].id : i \in T}
  <1>1. U \in SUBSET Known(ts) /\ U # {}
    BY DEF Known, TaskCircle
  <1>2. ASSUME NEW u \in U PROVE \E d \in U : d \in DepsOf(ts, u)
    <2>1. PICK i \in T : u = ts[i].id
      OBVIOUS
    <2>2. PICK j \in T : ts[j].id \in ts[i].deps
      BY DEF TaskCircle
    <2>3. ts[j].id \in U /\ ts[j].id \in Known(ts)
      BY DEF Known
    <2>4. DepsOf(ts, u) = ts[i].deps \cap Known(ts)
      BY <2>1, DepsOfTask
    <2> QED
      BY <2>2, <2>3, <2>4
  <1> HIDE DEF U
  <1>3. Circle(ts, U)
    BY <1>1, <1>2 DEF Circle
  <1> QED
    BY <1>1, <1>3

\* Tasks that wait for one another, none for a missing one, are a circle.
LEMMA StuckIsMissingOrCircle ==
  ASSUME NEW ts \in Seq(PlanTask), DoneClosed(ts), Stuck(ts) # {}, Dangling(ts, "active") = {}
  PROVE  TaskCircle(ts, Stuck(ts)) /\ Stuck(ts) \in SUBSET (DOMAIN ts)
  <1>1. WaitsWithin(ts, Stuck(ts)) /\ Stuck(ts) \in SUBSET (DOMAIN ts)
    BY StuckIsLargest DEF Stuck
  <1>2. ASSUME NEW i \in Stuck(ts) PROVE \E j \in Stuck(ts) : ts[j].id \in ts[i].deps
    <2>1. PICK d \in ts[i].deps : /\ d \notin DoneIds(ts, DOMAIN ts)
                                  /\ \A j \in DOMAIN ts : ts[j].id = d => j \in Stuck(ts)
      BY <1>1 DEF WaitsWithin
    <2>2. i \in DOMAIN ts /\ ~IsDone(ts[i])
      BY <1>1, <2>1 DEF DoneClosed
    <2>3. i \in Linted(ts, "active")
      BY <2>2 DEF Linted, IsDone
    <2>4. d \in Known(ts)
      BY <2>3 DEF Dangling
    <2>5. PICK j \in DOMAIN ts : ts[j].id = d
      BY <2>4 DEF Known
    <2> QED
      BY <2>1, <2>5
  <1> QED
    BY <1>1, <1>2 DEF TaskCircle

\* A task that waits for a missing one is stuck.
LEMMA DanglingIsStuck ==
  ASSUME NEW ts \in Seq(PlanTask), Dangling(ts, "active") # {}
  PROVE  Stuck(ts) # {}
  <1>1. PICK i : i \in Dangling(ts, "active")
    OBVIOUS
  <1>2. i \in DOMAIN ts /\ ~(ts[i].deps \subseteq Known(ts))
    BY <1>1 DEF Dangling, Linted
  <1>3. PICK d \in ts[i].deps : d \notin Known(ts)
    BY <1>2
  <1>4. d \notin DoneIds(ts, DOMAIN ts) /\ \A j \in DOMAIN ts : ts[j].id # d
    BY <1>3 DEF DoneIds, Known
  <1>5. WaitsWithin(ts, {i})
    BY <1>3, <1>4 DEF WaitsWithin
  <1>6. {i} \subseteq Stuck(ts)
    BY <1>2, <1>5, StuckIsLargest
  <1> QED
    BY <1>6

\* The done tasks of a circle are one, and a circle without a done task is stuck.
LEMMA CircleIsStuckOrDone ==
  ASSUME NEW ts \in Seq(PlanTask), UniqueIds(ts), DoneClosed(ts),
         NEW U \in SUBSET Known(ts), Circle(ts, U)
  PROVE  \/ Stuck(ts) # {}
         \/ \E T \in SUBSET {i \in DOMAIN ts : IsDone(ts[i])} : TaskCircle(ts, T)
  <1> DEFINE T == {i \in DOMAIN ts : ts[i].id \in U}
             D == {i \in T : IsDone(ts[i])}
  <1>1. DOMAIN ts \subseteq Int
    OBVIOUS
  <1>2. ASSUME NEW i \in T PROVE \E j \in T : ts[j].id \in ts[i].deps
    <2>1. PICK d \in U : d \in DepsOf(ts, ts[i].id)
      BY DEF Circle
    <2>2. d \in ts[i].deps
      BY <1>1, <2>1, DepsOfTask
    <2>3. PICK j \in DOMAIN ts : ts[j].id = d
      BY DEF Known
    <2> QED
      BY <2>1, <2>2, <2>3
  <1>3. T # {}
    <2>1. PICK u \in U : TRUE
      BY DEF Circle
    <2>2. PICK j \in DOMAIN ts : ts[j].id = u
      BY DEF Known
    <2> QED
      BY <2>1, <2>2
  <1>4. ASSUME NEW i \in DOMAIN ts, NEW j \in DOMAIN ts, IsDone(ts[i]), ts[j].id \in ts[i].deps
        PROVE  IsDone(ts[j])
    <2>1. ts[j].id \in DoneIds(ts, DOMAIN ts)
      BY <1>4 DEF DoneClosed
    <2>2. PICK k \in DOMAIN ts : IsDone(ts[k]) /\ ts[k].id = ts[j].id
      BY <2>1 DEF DoneIds
    <2> QED
      BY <2>2 DEF UniqueIds
  <1>5. CASE D # {}
    <2>1. ASSUME NEW i \in D PROVE \E j \in D : ts[j].id \in ts[i].deps
      <3>1. PICK j \in T : ts[j].id \in ts[i].deps
        BY <1>2
      <3> QED
        BY <1>4, <3>1
    <2>2. D \in SUBSET {i \in DOMAIN ts : IsDone(ts[i])}
      OBVIOUS
    <2> HIDE DEF D
    <2>3. TaskCircle(ts, D)
      BY <1>5, <2>1 DEF TaskCircle
    <2> QED
      BY <2>2, <2>3
  <1>6. CASE D = {}
    <2>1. ASSUME NEW i \in T
          PROVE  \E d \in ts[i].deps : /\ d \notin DoneIds(ts, DOMAIN ts)
                                       /\ \A j \in DOMAIN ts : ts[j].id = d => j \in T
      <3>1. PICK j \in T : ts[j].id \in ts[i].deps
        BY <1>2
      <3>2. ~IsDone(ts[j]) /\ j \in DOMAIN ts
        BY <1>6
      <3>3. ts[j].id \notin DoneIds(ts, DOMAIN ts)
        BY <3>2 DEF DoneIds, UniqueIds
      <3>4. \A k \in DOMAIN ts : ts[k].id = ts[j].id => k \in T
        OBVIOUS
      <3> QED
        BY <3>1, <3>3, <3>4
    <2>2. T \in SUBSET (DOMAIN ts)
      OBVIOUS
    <2> HIDE DEF T
    <2>3. WaitsWithin(ts, T)
      BY <2>1 DEF WaitsWithin
    <2>4. T \subseteq Stuck(ts)
      BY <2>2, <2>3, StuckIsLargest
    <2> QED
      BY <1>3, <2>4
  <1> QED
    BY <1>5, <1>6

\* The nodes of a cycle are a circle.
LEMMA CycleIsCircle ==
  ASSUME NEW ts, NEW c, IsCycle(ts, c)
  PROVE  \E U \in SUBSET Known(ts) : Circle(ts, U)
  <1> DEFINE N == Len(c)
             U == {c[n] : n \in 1..N}
  <1>1. c \in Seq(Known(ts)) /\ N \in Nat /\ N >= 2 /\ c[1] = c[N]
        /\ \A n \in 2..N : c[n] \in DepsOf(ts, c[n - 1])
    BY DEF IsCycle
  <1>2. \A n \in 1..N : c[n] \in Known(ts)
    BY <1>1
  <1> HIDE DEF N
  <1>3. U \in SUBSET Known(ts)
    BY <1>2
  <1>4. c[1] \in U /\ 1 \in 1..N
    BY <1>1
  <1>5. ASSUME NEW u \in U PROVE \E d \in U : d \in DepsOf(ts, u)
    <2>1. PICK n \in 1..N : u = c[n]
      OBVIOUS
    <2>2. PICK m \in 1..N : m + 1 \in 2..N /\ c[m] = u /\ m + 1 \in 1..N
      <3>1. CASE n = N
        <4>1. 1 + 1 \in 2..N /\ c[1] = u /\ 1 + 1 \in 1..N
          BY <1>1, <2>1, <3>1
        <4> QED
          BY <1>4, <4>1
      <3>2. CASE n # N
        <4>1. n + 1 \in 2..N /\ n + 1 \in 1..N
          BY <1>1, <3>2
        <4> QED
          BY <2>1, <4>1
      <3> QED
        BY <3>1, <3>2
    <2>3. c[m + 1] \in DepsOf(ts, c[(m + 1) - 1]) /\ (m + 1) - 1 = m
      BY <1>1, <2>2
    <2> QED
      BY <2>2, <2>3
  <1> HIDE DEF U
  <1>6. Circle(ts, U)
    BY <1>4, <1>5 DEF Circle
  <1> QED
    BY <1>3, <1>6

\* What a plan without two tasks of one id and without a done task that waits
\* for an open one looks like to lint.
LEMMA LintAnswers ==
  ASSUME NEW ts \in Seq(PlanTask), UniqueIds(ts), DoneClosed(ts)
  PROVE  ShapeFindings(ts, "active") <=>
           \/ Stuck(ts) # {}
           \/ \E T \in SUBSET {i \in DOMAIN ts : IsDone(ts[i])} : TaskCircle(ts, T)
  <1>1. DOMAIN ts \subseteq Int
    OBVIOUS
  <1>2. FindCycle(ts) # <<>> <=> \E U \in SUBSET Known(ts) : Circle(ts, U)
    BY CycleIsFound, CycleIsCircle
  <1>3. ASSUME NEW T \in SUBSET (DOMAIN ts), TaskCircle(ts, T) PROVE FindCycle(ts) # <<>>
    BY <1>1, <1>2, <1>3, TaskCircleIsCircle
  <1>4. CASE Dangling(ts, "active") # {}
    BY <1>4, DanglingIsStuck DEF ShapeFindings
  <1>5. CASE FindCycle(ts) # <<>>
    BY <1>2, <1>5, CircleIsStuckOrDone DEF ShapeFindings
  <1>6. ASSUME Stuck(ts) # {} PROVE ShapeFindings(ts, "active")
    BY <1>3, <1>6, StuckIsMissingOrCircle DEF ShapeFindings
  <1>7. ASSUME NEW T \in SUBSET {i \in DOMAIN ts : IsDone(ts[i])}, TaskCircle(ts, T)
        PROVE  ShapeFindings(ts, "active")
    <2>1. T \in SUBSET (DOMAIN ts)
      OBVIOUS
    <2> QED
      BY <1>3, <1>7, <2>1 DEF ShapeFindings
  <1> QED
    BY <1>4, <1>5, <1>6, <1>7 DEF ShapeFindings

\* At every point of a drain of a plan without two tasks of one id and without a
\* done task that waits for an open one, the missing-dependency and cycle rules
\* of kelix lint report something exactly when a task can never run or the done
\* tasks name one another in a circle, and the cycle printed is one (lint.py,
\* _find_cycle and lint_backlog; backlog.py, waves).
THEOREM LintNamesWhatSticks ==
  ASSUME \A ts \in Bases : UniqueIds(ts) /\ DoneClosed(ts)
  PROVE  Spec => []LintFindsWhatSticks
  <1>1. Init => Typed /\ UniqueIds(tasks) /\ DoneClosed(tasks)
    BY InitTyped DEF Init
  <1>2. Typed /\ UniqueIds(tasks) /\ DoneClosed(tasks) => LintFindsWhatSticks
    <2> SUFFICES ASSUME Typed, UniqueIds(tasks), DoneClosed(tasks) PROVE LintFindsWhatSticks
      OBVIOUS
    <2>1. tasks \in Seq(PlanTask)
      BY DEF Typed
    <2> DEFINE cycle == FindCycle(tasks)
               done == {i \in DOMAIN tasks : IsDone(tasks[i])}
    <2>2. ShapeFindings(tasks, "active") <=>
            Stuck(tasks) # {} \/ \E T \in SUBSET done : TaskCircle(tasks, T)
      BY <2>1, LintAnswers
    <2>3. cycle # <<>> => IsCycle(tasks, cycle)
      BY <2>1, CycleIsFound
    <2> HIDE DEF cycle
    <2>4. \A n \in 2..Len(cycle) : cycle[n] \in DepsOf(tasks, cycle[n - 1])
      <3>1. CASE cycle = <<>>
        BY <3>1
      <3>2. CASE cycle # <<>>
        BY <2>3, <3>2 DEF IsCycle
      <3> QED
        BY <3>1, <3>2
    <2>5. cycle # <<>> => cycle[1] = cycle[Len(cycle)]
      BY <2>3 DEF IsCycle
    <2> QED
      BY <2>2, <2>4, <2>5 DEF cycle, LintFindsWhatSticks, TaskCircle, Last
  <1> QED
    BY <1>1, <1>2, TypedStays, UniqueIdsStay, DoneClosedStays, PTL DEF Spec
=============================================================================
