------------------------------ MODULE Recursion ------------------------------
(***************************************************************************)
(* Induction over the natural numbers, and functions defined by recursion  *)
(* on an interval, for sets and functions where the library's theorems     *)
(* have operators.                                                         *)
(***************************************************************************)
EXTENDS Integers, WellFoundedInduction, TLAPS

\* A set of naturals that is not empty has a least element.
LEMMA LeastElement ==
  ASSUME NEW S \in SUBSET Nat, S # {}
  PROVE  \E n \in S : \A m \in S : n <= m
<1>1. \E n \in S : \A m \in S : <<m, n>> \notin OpToRel(<, Nat)
  BY NatLessThanWellFounded, WFMin
<1>2. PICK n \in S : \A m \in S : <<m, n>> \notin OpToRel(<, Nat)
  BY <1>1
<1>3. \A m \in S : ~ (m < n)
  <2> SUFFICES ASSUME NEW m \in S, m < n PROVE FALSE
    OBVIOUS
  <2>1. <<m, n>> \in Nat \X Nat
    OBVIOUS
  <2> QED
    BY <1>2, <2>1 DEF OpToRel
<1> QED
  BY <1>3

\* Induction: a set that holds 0, and with each natural below a bound the next one,
\* holds all up to the bound.
LEMMA Induction ==
  ASSUME NEW N \in Nat, NEW S, 0 \in S,
         \A n \in 0 .. N - 1 : n \in S => n + 1 \in S
  PROVE  \A n \in 0 .. N : n \in S
<1> SUFFICES ASSUME (0 .. N) \ S # {} PROVE FALSE
  OBVIOUS
<1>1. (0 .. N) \ S \in SUBSET Nat
  OBVIOUS
<1>2. PICK n \in (0 .. N) \ S : \A m \in (0 .. N) \ S : n <= m
  BY <1>1, LeastElement
<1>3. n # 0 /\ n - 1 \in 0 .. N - 1
  BY <1>2
<1>4. n - 1 \in S
  BY <1>2, <1>3
<1> QED
  BY <1>2, <1>3, <1>4

\* A set of naturals with an upper bound has a greatest element.
LEMMA GreatestElement ==
  ASSUME NEW N \in Nat, NEW S \in SUBSET (0 .. N), S # {}
  PROVE  \E n \in S : \A m \in S : n >= m
<1> DEFINE T == {k \in 0 .. N : N - k \in S}
<1>1. T \in SUBSET Nat
  OBVIOUS
<1>2. \A n \in S : N - n \in T
  OBVIOUS
<1>3. T # {}
  BY <1>2
<1>4. PICK k \in T : \A m \in T : k <= m
  <2> HIDE DEF T
  <2> QED
    BY <1>1, <1>3, LeastElement
<1> QED
  BY <1>2, <1>4

\* f starts with base and goes on with step, up to N.
Iterates(f, N, R, base, step) ==
  /\ f \in [0 .. N -> R]
  /\ f[0] = base
  /\ \A i \in 1 .. N : f[i] = step[i][f[i - 1]]

\* What is defined by recursion on an interval exists.
LEMMA RecursionExists ==
  ASSUME NEW N \in Nat, NEW R, NEW base \in R, NEW step \in [1 .. N -> [R -> R]]
  PROVE  \E f : Iterates(f, N, R, base, step)
<1> DEFINE Upto(n, f) == Iterates(f, n, R, base, step)
           S == {n \in 0 .. N : \E f : Upto(n, f)}
<1>1. 0 \in S
  <2>1. Upto(0, [i \in 0 .. 0 |-> base])
    BY DEF Iterates
  <2> HIDE DEF Upto
  <2>2. \E f : Upto(0, f)
    BY <2>1
  <2> QED
    BY <2>2
<1>2. ASSUME NEW n \in 0 .. N - 1, n \in S PROVE n + 1 \in S
  <2>1. PICK f : Upto(n, f)
    BY <1>2
  <2> DEFINE g == [i \in 0 .. n + 1 |-> IF i = n + 1 THEN step[n + 1][f[n]] ELSE f[i]]
  <2>2. n + 1 \in 1 .. N /\ f[n] \in R
    BY <2>1 DEF Iterates
  <2>3. step[n + 1][f[n]] \in R
    BY <2>2
  <2>4. g \in [0 .. n + 1 -> R]
    BY <2>1, <2>3 DEF Iterates
  <2>5. \A i \in 1 .. n + 1 : g[i] = step[i][g[i - 1]]
    <3> SUFFICES ASSUME NEW i \in 1 .. n + 1 PROVE g[i] = step[i][g[i - 1]]
      OBVIOUS
    <3>1. CASE i = n + 1
      BY <3>1
    <3>2. CASE i # n + 1
      BY <2>1, <3>2 DEF Iterates
    <3> QED
      BY <3>1, <3>2
  <2>6. Upto(n + 1, g)
    BY <2>1, <2>4, <2>5 DEF Iterates
  <2> HIDE DEF Upto, g
  <2>7. \E h : Upto(n + 1, h)
    BY <2>6
  <2> QED
    BY <2>7
<1>3. N \in S
  <2> HIDE DEF S
  <2>1. \A n \in 0 .. N : n \in S
    BY <1>1, <1>2, Induction
  <2> QED
    BY <2>1
<1> QED
  BY <1>3
=============================================================================
