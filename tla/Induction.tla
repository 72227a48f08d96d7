------------------------------- MODULE Induction ------------------------------
(***************************************************************************)
(* Induction over the natural numbers for the proofs of this directory,    *)
(* stated with a set where the library has an operator as a parameter.     *)
(***************************************************************************)
EXTENDS Integers, WellFoundedInduction, TLAPS

\* A nonempty set of natural numbers has a least element.
LEMMA Least ==
    ASSUME NEW S \in SUBSET Nat, S # {}
    PROVE  \E n \in S : \A m \in S : n <= m
<1> DEFINE R == OpToRel(<, Nat)
<1>1. IsWellFoundedOn(R, Nat)
  BY NatLessThanWellFounded
<1>2. PICK n \in S : \A m \in S : ~(<<m, n>> \in R)
  BY <1>1, WFMin
<1>3. ASSUME NEW m \in S, m < n PROVE FALSE
  <2>1. <<m, n>> \in Nat \X Nat /\ <<m, n>>[1] < <<m, n>>[2]
    BY <1>3
  <2>2. <<m, n>> \in R
    BY <2>1 DEF OpToRel
  <2> QED
    BY <1>2, <2>2
<1> QED
  BY <1>3

\* A set with 0 that has the successor of each of its natural numbers has them all.
LEMMA Induct ==
    ASSUME NEW S, 0 \in S, \A n \in Nat : n \in S => n + 1 \in S
    PROVE  Nat \subseteq S
<1> SUFFICES ASSUME Nat \ S # {} PROVE FALSE
  OBVIOUS
<1>1. PICK n \in Nat \ S : \A m \in Nat \ S : n <= m
  BY Least
<1>2. n - 1 \in Nat /\ n - 1 \in S
  BY <1>1
<1> QED
  BY <1>1, <1>2

\* A nonempty set of natural numbers with a bound has a greatest element.
LEMMA Greatest ==
    ASSUME NEW S \in SUBSET Nat, S # {}, NEW b \in Nat, \A m \in S : m <= b
    PROVE  \E n \in S : \A m \in S : n >= m
<1> DEFINE Bounds == {n \in Nat : \A m \in S : m <= n}
<1>1. PICK n \in Bounds : \A m \in Bounds : n <= m
  <2>1. Bounds \in SUBSET Nat /\ b \in Bounds
    OBVIOUS
  <2> QED
    BY <2>1, Least
<1>2. ASSUME n \notin S PROVE FALSE
  <2>0. PICK k \in S : k \in Nat /\ k <= n /\ k # n
    BY <1>1, <1>2
  <2>1. n \in Nat /\ n # 0 /\ n - 1 \in Nat
    BY <1>1, <2>0
  <2>2. \A m \in S : m <= n - 1
    BY <1>1, <1>2
  <2> QED
    BY <1>1, <2>1, <2>2
<1> QED
  BY <1>1, <1>2
===============================================================================
