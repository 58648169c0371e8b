----------------------------- MODULE NatRecursion -----------------------------
(***************************************************************************)
(* Induction and recursion over the natural numbers as lemmas about sets   *)
(* and functions, so that what a loop of the code computes can be proved   *)
(* for loops of any length.  A recursive function is a CHOOSE among the    *)
(* solutions of its equation: it satisfies the equation if one exists.     *)
(***************************************************************************)
EXTENDS Integers, FiniteSetTheorems, TLAPS

(* A set of numbers that is not empty has a least element: the intervals    *)
(* 0 .. n are finite, and inclusion of finite sets is well-founded.         *)
LEMMA LeastNumber ==
    ASSUME NEW S \in SUBSET Nat, S # {}
    PROVE  \E n \in S : \A m \in S : n <= m
<1> DEFINE R == StrictSubsetOrdering(Nat)
           F == FiniteSubsetsOf(Nat)
           T == {0 .. n : n \in S}
<1>1. IsWellFoundedOn(R, F)
  BY FS_StrictSubsetOrderingWellFounded
<1>2. T \subseteq F
  <2>1. \A n \in S : IsFiniteSet(0 .. n)
    BY FS_Interval
  <2>2. \A n \in S : 0 .. n \in SUBSET Nat
    OBVIOUS
  <2> QED
    BY <2>1, <2>2 DEF FiniteSubsetsOf
<1>3. T # {}
  OBVIOUS
<1> HIDE DEF R, F, T
<1>4. PICK t \in T : \A u \in T : ~ (<<u, t>> \in R)
  BY <1>1, <1>2, <1>3, WFMin
<1>5. PICK n \in S : t = 0 .. n
  BY DEF T
<1>6. \A m \in S : ~ (<<0 .. m, 0 .. n>> \in R)
  BY <1>4, <1>5 DEF T
<1>7. ASSUME NEW m \in S, m < n
      PROVE  FALSE
  <2>1. 0 .. m \subseteq 0 .. n /\ n \notin 0 .. m /\ n \in 0 .. n
    BY <1>7
  <2>2. 0 .. m \in SUBSET Nat /\ 0 .. n \in SUBSET Nat
    OBVIOUS
  <2>3. <<0 .. m, 0 .. n>> \in R
    BY <2>1, <2>2 DEF R, StrictSubsetOrdering
  <2> QED
    BY <1>6, <2>3
<1> QED
  BY <1>7

(* Induction: the set of the numbers that have the property.                *)
LEMMA NumbersReached ==
    ASSUME NEW S, 0 \in S, \A n \in Nat : n \in S => n + 1 \in S
    PROVE  \A n \in Nat : n \in S
<1> SUFFICES ASSUME NEW k \in Nat, k \notin S
             PROVE  FALSE
  OBVIOUS
<1> DEFINE T == {n \in Nat : n \notin S}
<1>1. PICK n \in T : \A m \in T : n <= m
  BY LeastNumber
<1>2. n # 0 /\ n - 1 \in Nat /\ n - 1 \notin T
  BY <1>1
<1> QED
  BY <1>1, <1>2

(* Induction up to a bound.                                                  *)
LEMMA IndicesReached ==
    ASSUME NEW n \in Nat, NEW S, 0 \in S, \A i \in 1 .. n : i - 1 \in S => i \in S
    PROVE  \A i \in 0 .. n : i \in S
<1> DEFINE T == {i \in Nat : i \in 0 .. n => i \in S}
<1>1. 0 \in T
  OBVIOUS
<1>2. ASSUME NEW i \in Nat, i \in T
      PROVE  i + 1 \in T
  BY <1>2
<1> HIDE DEF T
<1>3. \A i \in Nat : i \in T
  BY <1>1, <1>2, NumbersReached
<1> QED
  BY <1>3 DEF T

(* Recursion: g is the values of an iteration from b, its i-th step F[i].    *)
Iterates(g, b, n, F) == g = [i \in 0 .. n |-> IF i = 0 THEN b ELSE F[i][g[i - 1]]]

LEMMA IterationExists ==
    ASSUME NEW T, NEW b \in T, NEW n \in Nat, NEW F \in [1 .. n -> [T -> T]]
    PROVE  \E g \in [0 .. n -> T] : Iterates(g, b, n, F)
<1> DEFINE UpTo(k) == {h \in [0 .. k -> T] : h[0] = b /\ \A i \in 1 .. k : h[i] = F[i][h[i - 1]]}
           S == {k \in Nat : UpTo(k) # {}}
<1>1. 0 \in S
  <2>1. [i \in 0 .. 0 |-> b] \in UpTo(0)
    OBVIOUS
  <2> QED
    BY <2>1
<1>2. ASSUME NEW k \in 1 .. n, k - 1 \in S
      PROVE  k \in S
  <2>1. PICK h \in UpTo(k - 1) : TRUE
    BY <1>2
  <2> DEFINE g == [i \in 0 .. k |-> IF i = k THEN F[k][h[k - 1]] ELSE h[i]]
  <2>2. F[k][h[k - 1]] \in T
    OBVIOUS
  <2>3. g \in [0 .. k -> T] /\ g[0] = b
    BY <2>2
  <2>4. ASSUME NEW i \in 1 .. k
        PROVE  g[i] = F[i][g[i - 1]]
    <3>1. CASE i = k
      <4>1. g[i - 1] = h[k - 1] /\ g[i] = F[k][h[k - 1]]
        BY <3>1
      <4> QED
        BY <3>1, <4>1
    <3>2. CASE i # k
      <4>1. i \in 1 .. (k - 1) /\ g[i - 1] = h[i - 1] /\ g[i] = h[i]
        BY <3>2
      <4> QED
        BY <2>1, <4>1
    <3> QED
      BY <3>1, <3>2
  <2> HIDE DEF g
  <2>5. g \in UpTo(k)
    BY <2>3, <2>4
  <2> QED
    BY <2>5
<1>3. n \in S
  <2> HIDE DEF S
  <2>1. \A k \in 1 .. n : k - 1 \in S => k \in S
    BY <1>2
  <2>2. \A k \in 0 .. n : k \in S
    BY <1>1, <2>1, IndicesReached
  <2> QED
    BY <2>2
<1>4. PICK g \in [0 .. n -> T] : g[0] = b /\ \A i \in 1 .. n : g[i] = F[i][g[i - 1]]
  BY <1>3
<1>5. \A i \in 0 .. n : g[i] = IF i = 0 THEN b ELSE F[i][g[i - 1]]
  BY <1>4
<1>6. g = [i \in 0 .. n |-> IF i = 0 THEN b ELSE F[i][g[i - 1]]]
  BY <1>5
<1> QED
  BY <1>6 DEF Iterates

(* Recursion on any smaller number: k of L is a leaf with the value B[k],    *)
(* another k has F[k] of the value at P[k].                                 *)
Descends(g, n, L, B, P, F) ==
    \A k \in 0 .. n : g[k] = IF k \in L THEN B[k] ELSE F[k][g[P[k]]]

LEMMA DescentExists ==
    ASSUME NEW T, NEW n \in Nat, NEW L, NEW B \in [0 .. n -> T],
           NEW P, \A k \in 0 .. n : k \notin L => P[k] \in 0 .. k - 1,
           NEW F \in [0 .. n -> [T -> T]]
    PROVE  \E g \in [0 .. n -> T] : Descends(g, n, L, B, P, F)
<1> DEFINE Step(g, k) == IF k \in L THEN B[k] ELSE F[k][g[P[k]]]
           UpTo(k) == {h \in [0 .. k -> T] : \A i \in 0 .. k : h[i] = Step(h, i)}
           S == {k \in Nat : UpTo(k) # {}}
<1>1. 0 \in S
  <2>1. 0 \in L
    OBVIOUS
  <2>2. [i \in 0 .. 0 |-> B[0]] \in UpTo(0)
    BY <2>1
  <2> QED
    BY <2>2
<1>2. ASSUME NEW k \in 1 .. n, k - 1 \in S
      PROVE  k \in S
  <2>1. PICK h \in UpTo(k - 1) : TRUE
    BY <1>2
  <2> DEFINE g == [i \in 0 .. k |-> IF i = k THEN Step(h, k) ELSE h[i]]
  <2>2. h \in [0 .. k - 1 -> T] /\ \A i \in 0 .. k - 1 : h[i] = Step(h, i)
    BY <2>1
  <2>3. Step(h, k) \in T
    <3>1. CASE k \in L
      BY <3>1
    <3>2. CASE k \notin L
      <4>1. h[P[k]] \in T
        BY <2>2, <3>2
      <4> QED
        BY <3>2, <4>1
    <3> QED
      BY <3>1, <3>2
  <2>4. g \in [0 .. k -> T]
    <3> HIDE DEF Step
    <3> QED
      BY <2>2, <2>3
  <2>5. ASSUME NEW i \in 0 .. k
        PROVE  g[i] = Step(g, i)
    <3>1. g[i] = Step(h, i)
      <4> HIDE DEF Step
      <4> QED
        BY <2>2
    <3>2. i \notin L => g[P[i]] = h[P[i]]
      <4>1. i \notin L => P[i] \in 0 .. i - 1
        OBVIOUS
      <4> HIDE DEF Step
      <4> QED
        BY <4>1
    <3> HIDE DEF g
    <3> QED
      BY <3>1, <3>2
  <2> HIDE DEF g, Step
  <2>6. g \in UpTo(k)
    BY <2>4, <2>5
  <2> QED
    BY <2>6
<1>3. n \in S
  <2> HIDE DEF S
  <2>1. \A k \in 0 .. n : k \in S
    BY <1>1, <1>2, IndicesReached
  <2> QED
    BY <2>1
<1>4. PICK g \in [0 .. n -> T] : \A k \in 0 .. n : g[k] = Step(g, k)
  BY <1>3
<1> QED
  BY <1>4 DEF Descends

(* Induction on all smaller numbers.                                         *)
LEMMA NumbersReachedFromBelow ==
    ASSUME NEW S, \A n \in Nat : (\A m \in 0 .. n - 1 : m \in S) => n \in S
    PROVE  \A n \in Nat : n \in S
<1> DEFINE T == {n \in Nat : \A m \in 0 .. n : m \in S}
<1>1. 0 \in T
  OBVIOUS
<1>2. ASSUME NEW n \in Nat, n \in T
      PROVE  n + 1 \in T
  <2>1. n + 1 \in S
    BY <1>2
  <2> QED
    BY <1>2, <2>1
<1> HIDE DEF T
<1>3. \A n \in Nat : n \in T
  BY <1>1, <1>2, NumbersReached
<1> QED
  BY <1>3 DEF T
=============================================================================
