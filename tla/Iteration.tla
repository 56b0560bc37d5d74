------------------------------- MODULE Iteration -------------------------------
(***************************************************************************)
(* Facts about recursive functions on an interval that the proofs about    *)
(* reports and documents need: least and greatest elements, induction as a *)
(* statement about sets, and the existence of a function that is given     *)
(* step by step.                                                           *)
(***************************************************************************)
EXTENDS Integers, WellFoundedInduction, TLAPS

LEMMA LeastOf == ASSUME NEW T \in SUBSET Nat, T # {} PROVE \E x \in T : \A y \in T : x <= y
<1> DEFINE R == OpToRel(<, Nat)
<1>1. IsWellFoundedOn(R, Nat)
  BY NatLessThanWellFounded
<1>2. \A x, y \in Nat : y < x => <<y, x>> \in R
  BY DEF OpToRel
<1> HIDE DEF R
<1>3. PICK x \in T : \A y \in T : <<y, x>> \notin R
  BY <1>1, WFMin
<1>4. \A y \in T : ~(y < x)
  BY <1>2, <1>3
<1> QED
  BY <1>3, <1>4

LEMMA GreatestOf ==
    ASSUME NEW n \in Nat, NEW T \in SUBSET (0..n), T # {}
    PROVE  \E x \in T : \A y \in T : y <= x
<1> DEFINE D == {n - x : x \in T}
<1>1. D \in SUBSET Nat /\ D # {}
  <2>1. \A x \in T : n - x \in Nat
    OBVIOUS
  <2> QED
    BY <2>1
<1>2. PICK d \in D : \A y \in D : d <= y
  BY <1>1, LeastOf
<1>3. PICK x \in T : d = n - x
  BY <1>2
<1>4. \A y \in T : n - y \in D
  OBVIOUS
<1> QED
  BY <1>2, <1>3, <1>4

LEMMA Induction ==
    ASSUME NEW S \in SUBSET Nat, 0 \in S, \A n \in Nat : n \in S => n + 1 \in S
    PROVE  Nat \subseteq S
<1> SUFFICES ASSUME Nat \ S # {} PROVE FALSE
  OBVIOUS
<1>1. PICK x \in Nat \ S : \A y \in Nat \ S : x <= y
  BY LeastOf
<1>2. x # 0
  OBVIOUS
<1>3. x - 1 \in Nat /\ x - 1 \in S
  BY <1>1, <1>2
<1> QED
  BY <1>3

LEMMA Iterates ==
    ASSUME NEW S, NEW base \in S, NEW N \in Nat, NEW step \in [1..N -> [S -> S]]
    PROVE  \E f \in [0..N -> S] : f[0] = base /\ \A i \in 1..N : f[i] = step[i][f[i-1]]
<1> DEFINE Good == {n \in Nat : n <= N => \E f \in [0..n -> S] :
                                   f[0] = base /\ \A i \in 1..n : f[i] = step[i][f[i-1]]}
<1>1. 0 \in Good
  <2> DEFINE f == [i \in 0..0 |-> base]
  <2>1. f \in [0..0 -> S] /\ f[0] = base
    OBVIOUS
  <2>2. \A i \in 1..0 : f[i] = step[i][f[i-1]]
    OBVIOUS
  <2> HIDE DEF f
  <2>3. \E g \in [0..0 -> S] : g[0] = base /\ \A i \in 1..0 : g[i] = step[i][g[i-1]]
    BY <2>1, <2>2
  <2> QED
    BY <2>3
<1>2. ASSUME NEW n \in Nat, n \in Good PROVE n + 1 \in Good
  <2>1. SUFFICES ASSUME n + 1 <= N
                 PROVE  \E f \in [0..n+1 -> S] : f[0] = base /\ \A i \in 1..n+1 : f[i] = step[i][f[i-1]]
    OBVIOUS
  <2>2. PICK f \in [0..n -> S] : f[0] = base /\ \A i \in 1..n : f[i] = step[i][f[i-1]]
    BY <1>2, <2>1
  <2> DEFINE g == [i \in 0..n+1 |-> IF i = n + 1 THEN step[n+1][f[n]] ELSE f[i]]
  <2>3. step[n+1][f[n]] \in S
    BY <2>1
  <2>4. g \in [0..n+1 -> S]
    BY <2>3
  <2>5. g[0] = base
    BY <2>2
  <2>6. ASSUME NEW i \in 1..n+1 PROVE g[i] = step[i][g[i-1]]
    <3>1. CASE i = n + 1
      <4>1. g[i-1] = f[n] /\ g[i] = step[n+1][f[n]]
        BY <3>1
      <4> QED
        BY <4>1, <3>1
    <3>2. CASE i # n+1
      <4>1. i \in 1..n /\ i - 1 \in 0..n /\ i \in 0..n
        BY <3>2
      <4>2. g[i] = f[i] /\ g[i-1] = f[i-1]
        BY <4>1
      <4> QED
        BY <4>1, <4>2, <2>2
    <3> QED
      BY <3>1, <3>2
  <2> QED
    BY <2>4, <2>5, <2>6
<1> HIDE DEF Good
<1>3. N \in Good
  <2>1. Good \in SUBSET Nat
    BY DEF Good
  <2> QED
    BY <1>1, <1>2, <2>1, Induction
<1> QED
  BY <1>3 DEF Good
================================================================================
