--------------------------- MODULE InductionLemmas ---------------------------
(***************************************************************************)
(* Induction for the proofs of the other modules.  The induction theorems  *)
(* of the library take the property as an operator; here the property is   *)
(* a set of numbers and the step of a recursive definition a function, so  *)
(* that every lemma is first order and the provers can use it.             *)
(***************************************************************************)
EXTENDS Integers, WellFoundedInduction, TLAPS

(* A non-empty set of natural numbers has a least element.                 *)
LEMMA LeastElement ==
    ASSUME NEW T \in SUBSET Nat, T # {}
    PROVE  \E n \in T : \A m \in T : n <= m
  <1>1. PICK x \in T : \A y \in T : ~(<<y, x>> \in OpToRel(<, Nat))
    BY NatLessThanWellFounded, WFMin
  <1>2. \A y \in T : <<y, x>> \in OpToRel(<, Nat) <=> y < x
    BY DEF OpToRel
  <1>3. \A y \in T : ~(y < x)
    BY <1>1, <1>2
  <1>4. x \in Nat /\ \A y \in T : y \in Nat
    OBVIOUS
  <1>5. \A y \in T : x <= y
    BY <1>3, <1>4
  <1> QED
    BY <1>5

(* A set with 0 and the successor of each of its elements holds all of Nat.*)
LEMMA SetInduction ==
    ASSUME NEW T \in SUBSET Nat, 0 \in T, \A n \in T : n + 1 \in T
    PROVE  T = Nat
  <1> SUFFICES ASSUME Nat \ T # {} PROVE FALSE
    OBVIOUS
  <1>1. PICK n \in Nat \ T : \A m \in Nat \ T : n <= m
    BY LeastElement
  <1>2. n # 0 /\ n - 1 \in Nat
    OBVIOUS
  <1>3. n - 1 \in T
    BY <1>1, <1>2
  <1> QED
    BY <1>1, <1>2, <1>3

(* The same for the numbers up to a bound.                                 *)
LEMMA BoundedInduction ==
    ASSUME NEW N \in Nat, NEW T, 0 \in T, \A n \in 0 .. N - 1 : n \in T => n + 1 \in T
    PROVE  0 .. N \subseteq T
  <1> DEFINE U == {n \in Nat : n <= N => n \in T}
  <1>1. U \in SUBSET Nat /\ 0 \in U
    OBVIOUS
  <1>2. ASSUME NEW n \in U PROVE n + 1 \in U
    OBVIOUS
  <1>3. U = Nat
    <2> HIDE DEF U
    <2> QED BY <1>1, <1>2, SetInduction
  <1> QED
    BY <1>3

(* What a recursion over 0 .. N defines exists: from v by the steps st.    *)
Unfolds(g, N, v, st) == g[0] = v /\ \A i \in 1 .. N : g[i] = st[<<i, g[i - 1]>>]

(* There is a function that a recursion with bounded steps defines.        *)
LEMMA RecursionExists ==
    ASSUME NEW S, NEW v \in S, NEW N \in Nat, NEW st \in [Nat \X S -> S]
    PROVE  \E g \in [0 .. N -> S] : Unfolds(g, N, v, st)
  <1> DEFINE T == {n \in Nat : \E g \in [0 .. n -> S] : Unfolds(g, n, v, st)}
  <1>1. T \in SUBSET Nat
    OBVIOUS
  <1>2. 0 \in T
    <2>1. [i \in 0 .. 0 |-> v] \in [0 .. 0 -> S]
      OBVIOUS
    <2>2. Unfolds([i \in 0 .. 0 |-> v], 0, v, st)
      BY DEF Unfolds
    <2> QED
      BY <2>1, <2>2
  <1>3. ASSUME NEW n \in T PROVE n + 1 \in T
    <2>1. PICK g \in [0 .. n -> S] : Unfolds(g, n, v, st)
      OBVIOUS
    <2> DEFINE w == st[<<n + 1, g[n]>>]
               h == [i \in 0 .. n + 1 |-> IF i = n + 1 THEN w ELSE g[i]]
    <2>2. w \in S
      OBVIOUS
    <2> HIDE DEF w
    <2>3. h \in [0 .. n + 1 -> S]
      BY <2>2
    <2>4. h[0] = v /\ h[n + 1] = w /\ \A i \in 0 .. n : h[i] = g[i]
      BY <2>1 DEF Unfolds
    <2> HIDE DEF h
    <2>5. ASSUME NEW i \in 1 .. n + 1 PROVE h[i] = st[<<i, h[i - 1]>>]
      <3>1. CASE i = n + 1
        BY <3>1, <2>4 DEF w
      <3>2. CASE i # n + 1
        <4>1. i \in 1 .. n /\ i \in 0 .. n /\ i - 1 \in 0 .. n
          BY <3>2
        <4> QED
          BY <4>1, <2>1, <2>4 DEF Unfolds
      <3> QED
        BY <3>1, <3>2
    <2> QED
      BY <2>3, <2>4, <2>5 DEF Unfolds
  <1>4. T = Nat
    <2> HIDE DEF T
    <2> QED BY <1>1, <1>2, <1>3, SetInduction
  <1> QED
    BY <1>4

(* Every value of a recursion with bounded steps is within the bounds.     *)
LEMMA RecursionIn ==
    ASSUME NEW S, NEW v \in S, NEW N \in Nat, NEW st \in [Nat \X S -> S],
           NEW g, g[0] = v, \A i \in 1 .. N : g[i - 1] \in S => g[i] = st[<<i, g[i - 1]>>]
    PROVE  \A i \in 0 .. N : g[i] \in S
  <1> DEFINE T == {i \in 0 .. N : g[i] \in S}
  <1>1. 0 \in T
    OBVIOUS
  <1>2. ASSUME NEW n \in 0 .. N - 1, n \in T PROVE n + 1 \in T
    <2>1. n + 1 \in 1 .. N /\ n + 1 \in 0 .. N /\ (n + 1) - 1 = n /\ n + 1 \in Nat /\ g[n] \in S
      BY <1>2
    <2>2. g[n + 1] = st[<<n + 1, g[n]>>]
      BY <2>1
    <2>3. <<n + 1, g[n]>> \in Nat \X S
      BY <2>1
    <2> QED
      BY <2>1, <2>2, <2>3
  <1>3. 0 .. N \subseteq T
    <2> HIDE DEF T
    <2> QED
      BY <1>1, <1>2, BoundedInduction
  <1> QED
    BY <1>3

(* A bounded set of natural numbers has a greatest element.                *)
LEMMA GreatestElement ==
    ASSUME NEW N \in Nat, NEW T \in SUBSET (0 .. N), T # {}
    PROVE  \E n \in T : \A m \in T : n >= m
  <1> DEFINE U == {k \in Nat : N - k \in T}
  <1>1. PICK x \in T : TRUE
    OBVIOUS
  <1>2. U \in SUBSET Nat /\ U # {}
    <2>1. N - x \in Nat /\ N - (N - x) = x
      OBVIOUS
    <2>2. N - x \in U
      BY <2>1
    <2>3. U \in SUBSET Nat
      OBVIOUS
    <2> HIDE DEF U
    <2> QED
      BY <2>2, <2>3
  <1>3. PICK k \in U : \A j \in U : k <= j
    <2> HIDE DEF U
    <2> QED
      BY <1>2, LeastElement
  <1>4. N - k \in T
    OBVIOUS
  <1>5. ASSUME NEW m \in T PROVE N - k >= m
    <2>1. N - m \in U /\ m \in Nat /\ k \in Nat
      OBVIOUS
    <2> HIDE DEF U
    <2>2. k <= N - m
      BY <1>3, <2>1
    <2> QED
      BY <2>1, <2>2
  <1> QED
    BY <1>4, <1>5
=============================================================================
