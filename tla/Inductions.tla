------------------------------ MODULE Inductions ------------------------------
(***************************************************************************)
(* Induction and recursion over the naturals in first-order form: the      *)
(* predicate is a set of naturals and the step of a recursion a function,  *)
(* so that the facts below can be cited like any other.  They rest on the  *)
(* well-foundedness of < alone.                                            *)
(***************************************************************************)
EXTENDS Integers, WellFoundedInduction, TLAPS

\* Every non-empty set of naturals has a least element.
LEMMA LeastNatural ==
  ASSUME NEW T \in SUBSET Nat, T # {}
  PROVE  \E n \in T : \A m \in T : n <= m
  <1> DEFINE R == OpToRel(<, Nat)
  <1>1. IsWellFoundedOn(R, Nat)
    BY NatLessThanWellFounded
  <1>2. \A x, y \in Nat : <<x, y>> \in R <=> x < y
    BY DEF OpToRel
  <1> HIDE DEF R
  <1>3. T \subseteq Nat
    OBVIOUS
  <1>4. PICK n \in T : \A m \in T : ~ (<<m, n>> \in R)
    BY <1>1, <1>3, WFMin, Zenon
  <1>5. ASSUME NEW m \in T PROVE n <= m
    <2>1. m \in Nat /\ n \in Nat
      BY <1>3
    <2>2. ~(<<m, n>> \in R)
      BY <1>4
    <2>3. ~(m < n)
      BY <1>2, <2>1, <2>2, Zenon
    <2> QED
      BY <2>1, <2>3
  <1> QED
    BY <1>5

\* A set that has 0 and, with every n, n + 1 has every natural.
LEMMA SetInduction ==
  ASSUME NEW P \in SUBSET Nat, 0 \in P, \A n \in P : n + 1 \in P
  PROVE  P = Nat
  <1> SUFFICES ASSUME P # Nat PROVE FALSE
    OBVIOUS
  <1>1. PICK n \in Nat \ P : \A m \in Nat \ P : n <= m
    BY LeastNatural
  <1>2. n - 1 \in P
    BY <1>1
  <1> QED
    BY <1>1, <1>2

\* The same up to a bound.
LEMMA BoundedInduction ==
  ASSUME NEW N \in Nat, NEW P, 0 \in P, \A n \in 1..N : n - 1 \in P => n \in P
  PROVE  \A n \in 0..N : n \in P
  <1> DEFINE Q == {n \in Nat : n \in P \/ n > N}
  <1>1. Q \in SUBSET Nat /\ 0 \in Q
    OBVIOUS
  <1>2. \A n \in Q : n + 1 \in Q
    OBVIOUS
  <1>3. Q = Nat
    <2> HIDE DEF Q
    <2> QED
      BY <1>1, <1>2, SetInduction
  <1> QED
    BY <1>3

\* f starts with c, and its n-th step is F[<<n, value before>>].
Recurs(f, c, F, N) == f[0] = c /\ \A n \in 1..N : f[n] = F[<<n, f[n - 1]>>]

\* Every such recursion has a solution.
LEMMA RecursionExists ==
  ASSUME NEW S, NEW c \in S, NEW F \in [(Nat \X S) -> S], NEW N \in Nat
  PROVE  \E f \in [0..N -> S] : Recurs(f, c, F, N)
  <1> DEFINE Solves(f, m) == f[0] = c /\ \A n \in 1..m : f[n] = F[<<n, f[n - 1]>>]
             P == {m \in Nat : \E f \in [0..m -> S] : Solves(f, m)}
  <1>1. 0 \in P
    <2>1. [n \in 0..0 |-> c] \in [0..0 -> S] /\ Solves([n \in 0..0 |-> c], 0)
      OBVIOUS
    <2> QED
      BY <2>1
  <1>2. ASSUME NEW m \in P PROVE m + 1 \in P
    <2>1. m \in Nat
      OBVIOUS
    <2>2. PICK f \in [0..m -> S] : Solves(f, m)
      OBVIOUS
    <2> DEFINE g == [n \in 0..(m + 1) |-> IF n = m + 1 THEN F[<<m + 1, f[m]>>] ELSE f[n]]
    <2>3. f[m] \in S /\ <<m + 1, f[m]>> \in Nat \X S
      BY <2>1
    <2>4. g \in [0..(m + 1) -> S]
      BY <2>1, <2>3
    <2>5. Solves(g, m + 1)
      <3>1. g[0] = c
        BY <2>1, <2>2
      <3>2. ASSUME NEW n \in 1..(m + 1) PROVE g[n] = F[<<n, g[n - 1]>>]
        <4>1. n - 1 \in 0..m /\ n \in 0..(m + 1) /\ n - 1 # m + 1 /\ g[n - 1] = f[n - 1]
          BY <2>1
        <4>2. CASE n = m + 1
          <5>1. n - 1 = m /\ g[n] = F[<<m + 1, f[m]>>]
            BY <2>1, <4>2
          <5> QED
            BY <4>1, <4>2, <5>1
        <4>3. CASE n # m + 1
          <5>1. n \in 1..m /\ g[n] = f[n]
            BY <2>1, <4>3
          <5> QED
            BY <2>2, <4>1, <5>1
        <4> QED
          BY <4>2, <4>3
      <3> QED
        BY <3>1, <3>2
    <2> HIDE DEF g, Solves
    <2> QED
      BY <2>1, <2>4, <2>5
  <1>3. P = Nat
    <2>1. P \in SUBSET Nat
      OBVIOUS
    <2> HIDE DEF P
    <2> QED
      BY <1>1, <1>2, <2>1, SetInduction
  <1> QED
    BY <1>3 DEF Recurs
===============================================================================
