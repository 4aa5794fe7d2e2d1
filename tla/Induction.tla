------------------------------ MODULE Induction -------------------------------
(* Induction on the natural numbers, for sets: a property P of numbers is the  *)
(* set {n \in Nat : P(n)}.  The proofs about recursive functions rest on it;   *)
(* the walks that follow parents or dependencies, level by level, are here too. *)
EXTENDS Integers, WellFoundedInduction, TLAPS

\* A set of numbers with 0 in it, and with each number the next, has them all
\* (for the recursive functions that follow parents and dependencies level by level).
LEMMA NatSetInduction ==
  ASSUME NEW S, 0 \in S, \A n \in Nat : n \in S => n + 1 \in S
  PROVE  Nat \subseteq S
<1> DEFINE Less == {ss \in Nat \X Nat : ss[1] < ss[2]}
<1>1. IsWellFoundedOn(Less, Nat)
  BY NatLessThanWellFounded DEF OpToRel
<1>2. SUFFICES ASSUME Nat \ S # {} PROVE FALSE
  OBVIOUS
<1>3. PICK x \in Nat \ S : \A y \in Nat \ S : ~(<<y, x>> \in Less)
  <2> HIDE DEF Less
  <2> Nat \ S \subseteq Nat
    OBVIOUS
  <2> QED
    BY <1>1, <1>2, WFMin, Zenon
<1>4. x # 0 /\ x - 1 \in Nat
  BY <1>3
<1>5. x - 1 \in Nat \ S
  BY <1>3, <1>4
<1>6. <<x - 1, x>> \in Less
  BY <1>3, <1>4
<1> QED
  BY <1>3, <1>5, <1>6

\* The same up to a bound.
LEMMA UpToInduction ==
  ASSUME NEW m \in Nat, NEW S, 0 \in S, \A n \in 1..m : n - 1 \in S => n \in S
  PROVE  0..m \subseteq S
<1> DEFINE T == {n \in Nat : n \in 0..m => n \in S}
<1>1. 0 \in T
  OBVIOUS
<1>2. ASSUME NEW n \in Nat, n \in T PROVE n + 1 \in T
  <2>1. CASE n + 1 \in 0..m
    <3>1. n \in S /\ n + 1 \in 1..m /\ (n + 1) - 1 = n
      BY <1>2, <2>1
    <3> QED
      BY <3>1
  <2> QED
    BY <2>1
<1>3. Nat \subseteq T
  <2> HIDE DEF T
  <2> QED
    BY <1>1, <1>2, NatSetInduction
<1> QED
  BY <1>3

\* F is made step by step, from v: steps[n] makes its value at n from the one before.
IsMade(F, v, steps, m) == F[0] = v /\ \A n \in 1..m : F[n] = steps[n][F[n - 1]]

\* A recursive function whose values are in V exists.
LEMMA StepsExist ==
  ASSUME NEW m \in Nat, NEW V, NEW v \in V, NEW steps \in [1..m -> [V -> V]]
  PROVE  \E F \in [0..m -> V] : IsMade(F, v, steps, m)
  <1> DEFINE Made(F, k) == F \in [0..k -> V] /\ F[0] = v /\ \A n \in 1..k : F[n] = steps[n][F[n - 1]]
             S == {k \in Nat : k \in 0..m => \E F : Made(F, k)}
  <1>1. 0 \in S
    <2> DEFINE F == [n \in 0..0 |-> v]
    <2>1. Made(F, 0)
      OBVIOUS
    <2> QED
      BY <2>1
  <1>2. ASSUME NEW k \in Nat, k \in S PROVE k + 1 \in S
    <2> SUFFICES ASSUME k + 1 \in 0..m PROVE \E F : Made(F, k + 1)
      OBVIOUS
    <2>1. PICK F : Made(F, k)
      BY <1>2
    <2> DEFINE G == [n \in 0..(k + 1) |-> IF n = k + 1 THEN steps[k + 1][F[k]] ELSE F[n]]
    <2>2. k + 1 \in 1..m /\ k \in 0..k
      OBVIOUS
    <2>3. steps[k + 1] \in [V -> V] /\ F[k] \in V
      BY <2>1, <2>2
    <2>4. steps[k + 1][F[k]] \in V
      BY <2>3
    <2>5. G \in [0..(k + 1) -> V]
      BY <2>1, <2>4
    <2>6. G[0] = v
      BY <2>1
    <2>7. ASSUME NEW n \in 1..(k + 1) PROVE G[n] = steps[n][G[n - 1]]
      <3>1. n - 1 \in 0..(k + 1) /\ n - 1 # k + 1 /\ G[n - 1] = F[n - 1]
        OBVIOUS
      <3>2. CASE n = k + 1
        BY <3>1, <3>2
      <3>3. CASE n # k + 1
        <4>1. n \in 1..k /\ G[n] = F[n]
          BY <3>3
        <4> QED
          BY <2>1, <3>1, <4>1
      <3> QED
        BY <3>2, <3>3
    <2> QED
      BY <2>5, <2>6, <2>7
  <1> HIDE DEF S
  <1>3. m \in S
    BY <1>1, <1>2, NatSetInduction
  <1>4. PICK F : Made(F, m)
    BY <1>3 DEF S
  <1> QED
    BY <1>4 DEF IsMade

-----------------------------------------------------------------------------
(* Walks from some places to others, level by level.                         *)

\* One step of a walk: what is reached and where that leads.
Further(s, leads) == s \cup UNION {leads[x] : x \in s \cap DOMAIN leads}

\* L is the levels of a walk up to m.
AreLevels(L, m, hs, leads) == L = [n \in 0..m |-> IF n = 0 THEN hs ELSE Further(L[n - 1], leads)]

\* The levels exist: each is made of the one before.
LEMMA LevelsExist ==
  ASSUME NEW m \in Nat, NEW hs, NEW leads
  PROVE  \E L : AreLevels(L, m, hs, leads)
  <1> DEFINE S == {k \in Nat : \E L : AreLevels(L, k, hs, leads)}
  <1>1. 0 \in S
    <2> DEFINE L == [n \in 0..0 |-> hs]
    <2>1. L = [n \in 0..0 |-> IF n = 0 THEN hs ELSE Further(L[n - 1], leads)]
      OBVIOUS
    <2> HIDE DEF L
    <2> QED
      BY <2>1 DEF AreLevels
  <1>2. ASSUME NEW k \in Nat, k \in S PROVE k + 1 \in S
    <2>1. PICK L : AreLevels(L, k, hs, leads)
      BY <1>2
    <2> DEFINE M == [n \in 0..(k + 1) |-> IF n = k + 1 THEN Further(L[k], leads) ELSE L[n]]
               step(n) == IF n = 0 THEN hs ELSE Further(M[n - 1], leads)
    <2>2. ASSUME NEW n \in 0..(k + 1) PROVE M[n] = step(n)
      <3>1. CASE n = k + 1
        <4>1. n - 1 = k /\ n # 0 /\ k \in 0..(k + 1) /\ k # k + 1
          BY <3>1
        <4>2. M[k] = L[k] /\ M[n] = Further(L[k], leads)
          BY <3>1, <4>1
        <4> QED
          BY <4>1, <4>2
      <3>2. CASE n \in 1..k
        <4>1. n - 1 \in 0..(k + 1) /\ n - 1 # k + 1 /\ n # k + 1 /\ n \in 0..k /\ n # 0
          BY <3>2
        <4>2. M[n] = L[n] /\ M[n - 1] = L[n - 1]
          BY <4>1
        <4>3. L[n] = Further(L[n - 1], leads)
          BY <2>1, <4>1, Zenon DEF AreLevels
        <4> QED
          BY <4>1, <4>2, <4>3
      <3>3. CASE n = 0
        <4>1. 0 \in 0..k /\ 0 # k + 1
          OBVIOUS
        <4>2. L[0] = hs
          BY <2>1, <4>1, Zenon DEF AreLevels
        <4> QED
          BY <3>3, <4>1, <4>2
      <3> QED
        BY <3>1, <3>2, <3>3
    <2>3. M = [n \in 0..(k + 1) |-> M[n]]
      BY Zenon
    <2>4. M = [n \in 0..(k + 1) |-> step(n)]
      <3> HIDE DEF M, step
      <3> QED
        BY <2>2, <2>3, Zenon
    <2> HIDE DEF M
    <2>5. AreLevels(M, k + 1, hs, leads)
      BY <2>4 DEF AreLevels
    <2> QED
      BY <2>5
  <1> HIDE DEF S
  <1>3. Nat \subseteq S
    BY <1>1, <1>2, NatSetInduction
  <1> QED
    BY <1>3 DEF S

\* The first level is where the walk starts, each follows from the one before, and
\* all that is reached is in the last.
LEMMA LevelByLevel ==
  ASSUME NEW m \in Nat, NEW hs, NEW leads, NEW L, AreLevels(L, m, hs, leads)
  PROVE  /\ L[0] = hs /\ \A k \in 1..m : L[k] = Further(L[k - 1], leads)
         /\ \A k \in 0..m : L[k] \subseteq L[m]
  <1>1. \A k \in 0..m : L[k] = IF k = 0 THEN hs ELSE Further(L[k - 1], leads)
    BY Zenon DEF AreLevels
  <1>2. 0 \in 0..m /\ \A k \in 1..m : k \in 0..m /\ k # 0
    OBVIOUS
  <1>3. L[0] = hs /\ \A k \in 1..m : L[k] = Further(L[k - 1], leads)
    BY <1>1, <1>2, Zenon
  <1> DEFINE S == {j \in Nat : L[m - j] \subseteq L[m]}
  <1>4. 0 \in S
    OBVIOUS
  <1>5. ASSUME NEW j \in 1..m, j - 1 \in S PROVE j \in S
    <2> DEFINE k == m - (j - 1)
    <2>1. k \in 1..m /\ k - 1 = m - j
      OBVIOUS
    <2>2. L[k] \subseteq L[m]
      BY <1>5
    <2> HIDE DEF k
    <2>3. L[k - 1] \subseteq L[k]
      BY <1>3, <2>1 DEF Further
    <2> QED
      BY <2>1, <2>2, <2>3
  <1> HIDE DEF S
  <1>6. 0..m \subseteq S
    BY <1>4, <1>5, UpToInduction
  <1>7. ASSUME NEW k \in 0..m PROVE L[k] \subseteq L[m]
    <2>1. m - k \in 0..m /\ m - (m - k) = k
      OBVIOUS
    <2>2. m - k \in S
      BY <1>6, <2>1
    <2> QED
      BY <2>1, <2>2 DEF S
  <1> QED
    BY <1>3, <1>7
===============================================================================
