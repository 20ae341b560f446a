----------------------------- MODULE Recursion -----------------------------
(***************************************************************************)
(* Induction over the natural numbers for a set, and the existence of the  *)
(* functions that are defined by recursion on them.                        *)
(***************************************************************************)
EXTENDS Naturals, TLAPS, WellFoundedInduction

\* A set of numbers that is not empty has a least one.
LEMMA LeastExists ==
  ASSUME NEW S \in SUBSET Nat, S # {}
  PROVE  \E m \in S : \A k \in S : m <= k
<1>1. PICK m \in S : \A k \in S : <<k, m>> \notin OpToRel(<, Nat)
  BY WFMin, NatLessThanWellFounded, Zenon
<1>2. \A k \in S : ~(k < m)
  BY <1>1, Zenon DEF OpToRel
<1> QED
  BY <1>2

\* A set that begins with zero and goes on holds all numbers, or there would
\* be a least one missing.
LEMMA NaturalsReached ==
  ASSUME NEW S, 0 \in S, \A n \in Nat : n \in S => n + 1 \in S
  PROVE  \A n \in Nat : n \in S
<1> SUFFICES ASSUME Nat \ S # {} PROVE FALSE
  OBVIOUS
<1>1. PICK m \in Nat \ S : \A k \in Nat \ S : m <= k
  BY LeastExists
<1>2. m # 0 /\ m - 1 \in Nat /\ m - 1 < m
  OBVIOUS
<1> QED
  BY <1>1, <1>2

\* The functions that begin with start and make every value from the one before.
Steps(S, start, n, T) ==
  {f \in [0 .. n -> S] : f[0] = start /\ \A i \in 1 .. n : f[i] = T[i][f[i - 1]]}

\* There is such a function, for every number of steps.
LEMMA StepsExist ==
  ASSUME NEW S, NEW start \in S, NEW n \in Nat, NEW T \in [1 .. n -> [S -> S]]
  PROVE  Steps(S, start, n, T) # {}
<1> DEFINE Made(m) == \E f \in [0 .. m -> S] :
                        f[0] = start /\ \A i \in 1 .. m : f[i] = T[i][f[i - 1]]
           M == {m \in Nat : m <= n => Made(m)}
<1>1. 0 \in M
  <2> DEFINE f == [i \in 0 .. 0 |-> start]
  <2>1. f \in [0 .. 0 -> S] /\ f[0] = start /\ \A i \in 1 .. 0 : f[i] = T[i][f[i - 1]]
    OBVIOUS
  <2> QED
    BY <2>1
<1>2. ASSUME NEW m \in Nat, m \in M PROVE m + 1 \in M
  <2> SUFFICES ASSUME m + 1 <= n PROVE Made(m + 1)
    OBVIOUS
  <2>1. PICK f \in [0 .. m -> S] : f[0] = start /\ \A i \in 1 .. m : f[i] = T[i][f[i - 1]]
    BY <1>2
  <2>2. T[m + 1] \in [S -> S] /\ f[m] \in S
    BY <2>1
  <2> DEFINE g == [i \in 0 .. m + 1 |-> IF i = m + 1 THEN T[m + 1][f[m]] ELSE f[i]]
  <2>3. g \in [0 .. m + 1 -> S]
    BY <2>1, <2>2
  <2>4. g[0] = start
    BY <2>1
  <2>5. ASSUME NEW i \in 1 .. m + 1 PROVE g[i] = T[i][g[i - 1]]
    <3>1. i - 1 \in 0 .. m /\ g[i - 1] = f[i - 1]
      BY <2>5
    <3>2. CASE i = m + 1
      BY <3>1, <3>2
    <3>3. CASE i # m + 1
      <4>1. i \in 1 .. m /\ g[i] = f[i]
        BY <3>3
      <4> QED
        BY <2>1, <3>1, <4>1
    <3> QED
      BY <3>2, <3>3
  <2> HIDE DEF g
  <2> QED
    BY <2>3, <2>4, <2>5
<1>3. \A m \in Nat : m \in M
  BY <1>1, <1>2, NaturalsReached
<1>4. Made(n)
  BY <1>3
<1> QED
  BY <1>4 DEF Steps
=============================================================================
