------------------------------ MODULE Induction ------------------------------
(***************************************************************************)
(* Induction for the proofs of this project.  The property is a set, not   *)
(* an operator, so that the lemmas can be cited for any property: they     *)
(* follow from the order of the natural numbers being well founded.        *)
(***************************************************************************)
EXTENDS Integers, WellFoundedInduction, TLAPS

\* A set of numbers has a least one.
LEMMA LeastOfNats ==
    ASSUME NEW T, T \subseteq Nat, T # {}
    PROVE  \E m \in T : \A n \in T : m <= n
<1> DEFINE R == OpToRel(<, Nat)
<1>1. IsWellFoundedOn(R, Nat)
  BY NatLessThanWellFounded
<1>2. \A x, y \in Nat : x < y => <<x, y>> \in R
  BY DEF OpToRel
<1> HIDE DEF R
<1>3. PICK x \in T : \A y \in T : ~(<<y, x>> \in R)
  BY <1>1, WFMin
<1>4. \A y \in T : x <= y
  <2> TAKE y \in T
  <2>1. x \in Nat /\ y \in Nat /\ ~(y < x)
    BY <1>2, <1>3
  <2> QED
    BY <2>1
<1> QED
  BY <1>4

\* Induction, with the property given as a set.
LEMMA NatSetInduction ==
    ASSUME NEW T, 0 \in T, \A n \in Nat : n \in T => n + 1 \in T
    PROVE  \A n \in Nat : n \in T
<1> DEFINE U == {x \in Nat : x \notin T}
<1> SUFFICES ASSUME U # {}
             PROVE  FALSE
  OBVIOUS
<1>1. PICK m \in U : \A y \in U : m <= y
  BY LeastOfNats
<1>2. m # 0
  BY <1>1
<1>3. m - 1 \in Nat /\ m - 1 \notin U
  BY <1>1, <1>2
<1>4. m - 1 \in T /\ (m - 1) + 1 = m
  BY <1>1, <1>3
<1> QED
  BY <1>1, <1>3, <1>4

\* A property that the elements of an interval hand on.
LEMMA IntervalInduction ==
    ASSUME NEW N \in Nat, NEW T, 0 \in T, \A k \in 1..N : k - 1 \in T => k \in T
    PROVE  \A k \in 0..N : k \in T
<1> DEFINE U == {n \in Nat : n <= N => n \in T}
<1>1. 0 \in U
  OBVIOUS
<1>2. ASSUME NEW n \in Nat, n \in U
      PROVE  n + 1 \in U
  <2> SUFFICES ASSUME n + 1 <= N
               PROVE  n + 1 \in T
    OBVIOUS
  <2>1. n + 1 \in 1..N /\ (n + 1) - 1 = n /\ n \in T
    BY <1>2
  <2> QED
    BY <2>1
<1>3. \A n \in Nat : n \in U
  <2> HIDE DEF U
  <2> QED
    BY <1>1, <1>2, NatSetInduction
<1> QED
  BY <1>3

\* The values of a recursive function on 0..N, step by step.
LEMMA StaysIn ==
    ASSUME NEW N \in Nat, NEW S, NEW f, f[0] \in S,
           \A k \in 1..N : f[k - 1] \in S => f[k] \in S
    PROVE  \A k \in 0..N : f[k] \in S
<1> DEFINE T == {k \in 0..N : f[k] \in S}
<1>1. 0 \in T /\ \A k \in 1..N : k - 1 \in T => k \in T
  OBVIOUS
<1>2. \A k \in 0..N : k \in T
  <2> HIDE DEF T
  <2> QED
    BY <1>1, IntervalInduction
<1> QED
  BY <1>2

\* A recursive definition on 0..N has a solution: here its step is a function G.
Solution(f, N, b, G) == f = [k \in 0..N |-> IF k = 0 THEN b ELSE G[<<f[k - 1], k>>]]

\* Such a solution exists when the step stays in a set.
LEMMA RecursionOnInterval ==
    ASSUME NEW N \in Nat, NEW S, NEW b \in S, NEW G \in [S \X (1..N) -> S]
    PROVE  \E f : Solution(f, N, b, G)
<1> DEFINE Solves(f, m) ==
             /\ f \in [0..m -> S]
             /\ \A k \in 0..m : f[k] = IF k = 0 THEN b ELSE G[<<f[k - 1], k>>]
           T == {m \in 0..N : \E f : Solves(f, m)}
<1>1. 0 \in T
  <2>1. Solves([k \in 0..0 |-> b], 0)
    OBVIOUS
  <2>2. \E f : Solves(f, 0)
    <3> HIDE DEF Solves
    <3> QED
      BY <2>1
  <2> QED
    BY <2>2
<1>2. ASSUME NEW m \in 1..N, m - 1 \in T
      PROVE  m \in T
  <2>1. PICK f : Solves(f, m - 1)
    BY <1>2
  <2> DEFINE v == G[<<f[m - 1], m>>]
             g == [k \in 0..m |-> IF k = m THEN v ELSE f[k]]
  <2>2. v \in S
    <3>1. f[m - 1] \in S
      BY <2>1
    <3> QED
      BY <3>1
  <2>3. g \in [0..m -> S]
    <3>1. \A k \in 0..m : k # m => k \in 0..m - 1
      OBVIOUS
    <3> HIDE DEF v
    <3> QED
      BY <2>1, <2>2, <3>1
  <2>4. ASSUME NEW k \in 0..m
        PROVE  g[k] = IF k = 0 THEN b ELSE G[<<g[k - 1], k>>]
    <3>1. CASE k = m
      <4>1. k # 0 /\ k - 1 \in 0..m /\ k - 1 # m
        BY <3>1
      <4> QED
        BY <3>1, <4>1
    <3>2. CASE k # m
      <4>1. k \in 0..m - 1 /\ g[k] = f[k] /\ (k # 0 => k - 1 \in 0..m - 1 /\ g[k - 1] = f[k - 1])
        BY <3>2
      <4>2. f[k] = IF k = 0 THEN b ELSE G[<<f[k - 1], k>>]
        BY <2>1, <4>1
      <4> QED
        BY <4>1, <4>2
    <3> QED
      BY <3>1, <3>2
  <2>5. Solves(g, m)
    BY <2>3, <2>4
  <2>6. \E h : Solves(h, m)
    <3> HIDE DEF Solves, g
    <3> QED
      BY <2>5
  <2> QED
    BY <2>6
<1>3. N \in T
  <2>1. \A k \in 0..N : k \in T
    <3> HIDE DEF T
    <3> QED
      BY <1>1, <1>2, IntervalInduction
  <2> QED
    BY <2>1
<1>4. PICK f : Solves(f, N)
  BY <1>3
<1>5. Solution(f, N, b, G)
  BY <1>4 DEF Solution
<1> QED
  BY <1>5
=============================================================================
