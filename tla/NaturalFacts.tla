---------------------------- MODULE NaturalFacts ----------------------------
(***************************************************************************)
(* Induction on the naturals without an operator for parameter, and the    *)
(* remainders a circular table lives by.                                   *)
(***************************************************************************)
EXTENDS Integers, FiniteSetTheorems, TLAPS

(* Every set of naturals has a least element: among the intervals 0 .. k,   *)
(* for k in the set, one is a proper superset of none.                      *)
LEMMA LeastNatural ==
    ASSUME NEW S \in SUBSET Nat, S # {}
    PROVE  \E m \in S : \A n \in S : m <= n
  <1> DEFINE Intervals == {0 .. k : k \in S}
  <1>1. Intervals \subseteq FiniteSubsetsOf(Nat)
    <2> SUFFICES ASSUME NEW k \in S PROVE 0 .. k \in FiniteSubsetsOf(Nat)
      OBVIOUS
    <2> QED
      BY FS_Interval DEF FiniteSubsetsOf
  <1>2. Intervals # {}
    OBVIOUS
  <1>3. \E x \in Intervals :
           \A y \in Intervals : ~(<<y, x>> \in StrictSubsetOrdering(Nat))
    <2> HIDE DEF Intervals
    <2> QED
      BY <1>1, <1>2, WFMin, FS_StrictSubsetOrderingWellFounded
  <1>4. PICK m \in S :
           \A y \in Intervals : ~(<<y, 0 .. m>> \in StrictSubsetOrdering(Nat))
    BY <1>3
  <1>5. ASSUME NEW n \in S, n < m PROVE FALSE
    <2>1. 0 .. n \in Intervals
      OBVIOUS
    <2>2. /\ m \in 0 .. m /\ m \notin 0 .. n
          /\ 0 .. n \subseteq 0 .. m /\ 0 .. m \subseteq Nat
      BY <1>5
    <2>3. <<0 .. n, 0 .. m>> \in StrictSubsetOrdering(Nat)
      BY <2>2 DEF StrictSubsetOrdering
    <2> QED
      BY <1>4, <2>1, <2>3
  <1> QED
    BY <1>5

(* A set that holds 0 and, with each number below N, the next one, holds    *)
(* all of 0 .. N.                                                           *)
LEMMA Countup ==
    ASSUME NEW N \in Nat, NEW S, 0 \in S,
           \A n \in 0 .. N - 1 : n \in S => n + 1 \in S
    PROVE  0 .. N \subseteq S
  <1> DEFINE Missing == {n \in 0 .. N : n \notin S}
  <1> SUFFICES ASSUME Missing # {} PROVE FALSE
    OBVIOUS
  <1>1. PICK m \in Missing : \A n \in Missing : m <= n
    <2>1. Missing \in SUBSET Nat
      OBVIOUS
    <2> HIDE DEF Missing
    <2> QED
      BY <2>1, LeastNatural
  <1>2. m # 0 /\ m - 1 \in 0 .. N - 1
    BY <1>1
  <1>3. m - 1 \in S
    BY <1>1, <1>2
  <1> QED
    BY <1>1, <1>2, <1>3

LEMMA ModUnique ==
    ASSUME NEW c \in Nat \ {0}, NEW q \in Int, NEW r \in 0 .. c - 1
    PROVE  (c * q + r) % c = r
  OBVIOUS

LEMMA DivMod ==
    ASSUME NEW c \in Nat \ {0}, NEW h \in Nat
    PROVE  h = c * (h \div c) + (h % c)
  OBVIOUS

(* d steps after h, in a circle of c.                                       *)
LEMMA ModAdd ==
    ASSUME NEW c \in Nat \ {0}, NEW h \in Nat, NEW d \in 0 .. c - 1
    PROVE  (h + d) % c = IF (h % c) + d < c THEN (h % c) + d ELSE (h % c) + d - c
  <1> DEFINE q == h \div c
             r == h % c
  <1>0. q \in Int /\ r \in 0 .. c - 1 /\ h = c * q + r
    BY DivMod
  <1> HIDE DEF q, r
  <1>1. CASE r + d < c
    <2>1. h + d = c * q + (r + d) /\ r + d \in 0 .. c - 1
      BY <1>0, <1>1
    <2> QED
      BY <2>1, <1>0, <1>1, ModUnique DEF r
  <1>2. CASE ~(r + d < c)
    <2>1. /\ h + d = c * (q + 1) + (r + d - c)
          /\ r + d - c \in 0 .. c - 1 /\ q + 1 \in Int
      BY <1>0, <1>2
    <2>2. (h + d) % c = r + d - c
      BY <2>1, ModUnique
    <2> QED
      BY <2>2, <1>0, <1>2 DEF r
  <1> QED
    BY <1>1, <1>2
=============================================================================
