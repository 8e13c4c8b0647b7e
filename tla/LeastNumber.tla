----------------------------- MODULE LeastNumber -----------------------------
(***************************************************************************)
(* Facts about numbers that the proofs of the other modules rest on, for   *)
(* what is scanned and for what is gone through step by step.              *)
(***************************************************************************)
EXTENDS Integers, TLAPS, FiniteSetTheorems, WellFoundedInduction

(* Every set of numbers that is not empty has a least element: the first   *)
(* position add_index's scan stops at (DBMS.C) and the first message of a  *)
(* type that msgrcv takes (BACKEND.C, FRONT.C) exist.                      *)
LEMMA LeastNatural ==
  ASSUME NEW S \in SUBSET Nat, S # {}
  PROVE  \E m \in S : \A q \in S : m <= q
<1> DEFINE T == { 0 .. p : p \in S }
<1>1. \A p \in S : 0 .. p \in FiniteSubsetsOf(Nat)
  <2> TAKE p \in S
  <2>1. IsFiniteSet(0 .. p)
    BY FS_Interval
  <2>. QED
    BY <2>1 DEF FiniteSubsetsOf
<1>2. IsWellFoundedOn(StrictSubsetOrdering(Nat), FiniteSubsetsOf(Nat))
  BY FS_StrictSubsetOrderingWellFounded
<1>3. T \subseteq FiniteSubsetsOf(Nat) /\ T # {}
  BY <1>1
<1>4. PICK x \in T : \A y \in T : ~(<<y, x>> \in StrictSubsetOrdering(Nat))
  BY <1>2, <1>3, WFMin, Zenon
<1>5. PICK m \in S : x = 0 .. m
  BY <1>4
<1>6. ASSUME NEW q \in S, q < m
      PROVE  FALSE
  <2>1. (0 .. q) \subseteq (0 .. m) /\ 0 .. q # 0 .. m
    BY <1>6
  <2>2. 0 .. q \in SUBSET Nat /\ 0 .. m \in SUBSET Nat
    BY <1>6
  <2>3. <<0 .. q, 0 .. m>> \in StrictSubsetOrdering(Nat)
    BY <2>1, <2>2 DEF StrictSubsetOrdering
  <2>4. 0 .. q \in T
    BY <1>6
  <2>. QED
    BY <1>4, <1>5, <2>3, <2>4, Zenon
<1>. QED
  BY <1>6

(* What holds at lo and is passed on holds up to hi.                       *)
LEMMA PassedOn ==
  ASSUME NEW lo \in Int, NEW hi \in Int, NEW G, lo \in G,
         \A i \in lo + 1 .. hi : i - 1 \in G => i \in G
  PROVE  lo .. hi \subseteq G
<1> DEFINE Wrong == {n \in Nat : lo + n <= hi /\ lo + n \notin G}
<1>1. ASSUME Wrong # {}
      PROVE  FALSE
  <2>1. Wrong \in SUBSET Nat
    OBVIOUS
  <2>2. PICK n \in Wrong : \A q \in Wrong : n <= q
    <3> HIDE DEF Wrong
    <3>. QED
      BY <1>1, <2>1, LeastNatural
  <2>3. n \in Nat /\ lo + n <= hi /\ lo + n \notin G
    BY <2>2
  <2>4. n # 0
    BY <2>3
  <2>5. n - 1 \in Nat /\ lo + (n - 1) <= hi /\ ~ (n <= n - 1)
    BY <2>3, <2>4
  <2>6. lo + (n - 1) \in G
    BY <2>2, <2>5
  <2>7. lo + n \in lo + 1 .. hi /\ (lo + n) - 1 = lo + (n - 1)
    BY <2>3, <2>4
  <2>8. (lo + n) - 1 \in G
    BY <2>6, <2>7
  <2>. QED
    BY <2>3, <2>7, <2>8
<1>2. ASSUME NEW i \in lo .. hi
      PROVE  i \in G
  <2>1. i - lo \in Nat /\ lo + (i - lo) = i /\ i <= hi
    OBVIOUS
  <2>2. i - lo \notin Wrong
    <3> HIDE DEF Wrong
    <3>. QED
      BY <1>1
  <2>. QED
    BY <2>1, <2>2
<1>. QED
  BY <1>2

(* The same for what is counted from 0.                                    *)
LEMMA CountedOn ==
  ASSUME NEW n \in Nat, NEW G, 0 \in G,
         \A i \in 1 .. n : i - 1 \in G => i \in G
  PROVE  0 .. n \subseteq G
<1>1. PICK lo : lo = 0
  OBVIOUS
<1>2. lo \in Int /\ n \in Int /\ lo \in G /\ lo + 1 = 1
  BY <1>1
<1>3. lo .. n \subseteq G
  BY <1>2, PassedOn
<1>. QED
  BY <1>1, <1>3

==============================================================================
