------------------------------ MODULE Induction ------------------------------
(***************************************************************************)
(* Induction over the natural numbers, and what it says of recursive       *)
(* functions: they exist, and FlattenSeq joins its sequences one by one.   *)
(***************************************************************************)
EXTENDS Integers, Sequences, FiniteSets, SequencesExt, FiniteSetTheorems, WellFoundedInduction, TLAPS

(* From the well-foundedness of the subset relation on finite sets.          *)
LEMMA LeastNumber ==
  ASSUME NEW T \in SUBSET Nat, T # {}
  PROVE  \E m \in T : \A n \in T : m <= n
<1> DEFINE U == {0 .. n : n \in T}
           R == StrictSubsetOrdering(Nat)
<1>1. \A n \in T : IsFiniteSet(0 .. n)
  BY FS_Interval
<1>2. U \subseteq FiniteSubsetsOf(Nat)
  BY <1>1 DEF FiniteSubsetsOf
<1>3. IsWellFoundedOn(R, FiniteSubsetsOf(Nat))
  BY FS_StrictSubsetOrderingWellFounded
<1>4. U # {}
  OBVIOUS
<1> HIDE DEF U, R
<1>5. PICK x \in U : \A y \in U : <<y, x>> \notin R
  BY <1>2, <1>3, <1>4, WFMin
<1> USE DEF U, R
<1>6. PICK m \in T : x = 0 .. m
  OBVIOUS
<1>7. \A n \in T : n < m => <<0 .. n, 0 .. m>> \in R
  <2> SUFFICES ASSUME NEW n \in T, n < m PROVE <<0 .. n, 0 .. m>> \in R
    OBVIOUS
  <2>1. 0 .. n \subseteq 0 .. m /\ 0 .. m \subseteq Nat /\ m \in 0 .. m /\ m \notin 0 .. n
    OBVIOUS
  <2> QED
    BY <2>1 DEF StrictSubsetOrdering
<1>8. \A n \in T : ~(n < m)
  BY <1>5, <1>6, <1>7
<1> QED
  BY <1>8

(* Induction, over a set in place of a predicate.                            *)
LEMMA InductionOverNat ==
  ASSUME NEW S, 0 \in S, \A n \in Nat : n \in S => n + 1 \in S
  PROVE  Nat \subseteq S
<1> SUFFICES ASSUME Nat \ S # {} PROVE FALSE
  OBVIOUS
<1>1. PICK m \in Nat \ S : \A n \in Nat \ S : m <= n
  BY LeastNumber
<1>2. m - 1 \in Nat /\ m - 1 \notin S
  OBVIOUS
<1> QED
  BY <1>1, <1>2

(* A sequence of results, each of which leads to the next.                   *)
Recursion(g, n, first, step) ==
  g[0] = first /\ \A i \in 1 .. n : g[i] = step[i][g[i - 1]]

(* If each value leads to a next one, there is such a sequence.              *)
LEMMA RecursionExists ==
  ASSUME NEW n \in Nat, NEW S, NEW first \in S, NEW step \in [Nat -> [S -> S]]
  PROVE  \E g \in [0 .. n -> S] : Recursion(g, n, first, step)
<1> DEFINE T == {k \in Nat : \E g \in [0 .. k -> S] : Recursion(g, k, first, step)}
<1> USE DEF Recursion
<1>1. 0 \in T
  <2>1. Recursion([i \in 0 .. 0 |-> first], 0, first, step)
    OBVIOUS
  <2> QED
    BY <2>1
<1>2. ASSUME NEW k \in Nat, k \in T
      PROVE  k + 1 \in T
  <2>1. PICK g \in [0 .. k -> S] : Recursion(g, k, first, step)
    BY <1>2
  <2>2. step[k + 1][g[k]] \in S
    OBVIOUS
  <2> DEFINE h == [i \in 0 .. k + 1 |-> IF i = k + 1 THEN step[k + 1][g[k]] ELSE g[i]]
  <2>3. h \in [0 .. k + 1 -> S]
    BY <2>2
  <2>4. ASSUME NEW i \in 1 .. k + 1
        PROVE  h[i] = step[i][h[i - 1]]
    <3>1. h[i - 1] = g[i - 1]
      OBVIOUS
    <3>2. CASE i = k + 1
      BY <3>1, <3>2
    <3>3. CASE i \in 1 .. k
      <4>1. h[i] = g[i]
        BY <3>3
      <4> QED
        BY <2>1, <3>1, <3>3, <4>1
    <3> QED
      BY <3>2, <3>3
  <2>5. h[0] = first
    BY <2>1
  <2> HIDE DEF h
  <2>6. Recursion(h, k + 1, first, step)
    BY <2>4, <2>5
  <2> QED
    BY <2>3, <2>6
<1>3. n \in T
  <2> HIDE DEF T
  <2> QED
    BY <1>1, <1>2, InductionOverNat
<1> QED
  BY <1>3

(* The sequences of a sequence put together, one after the other.            *)
Joining(g, q) == g[0] = <<>> /\ \A i \in 1 .. Len(q) : g[i] = g[i - 1] \o q[i]

LEMMA FlattenSeqJoins ==
  ASSUME NEW S, NEW q \in Seq(Seq(S))
  PROVE  \E g \in [0 .. Len(q) -> Seq(S)] : Joining(g, q) /\ FlattenSeq(q) = g[Len(q)]
<1> DEFINE n == Len(q)
           Flattens(h) == h = [i \in 1 .. n |-> IF i = 1 THEN q[i] ELSE h[i - 1] \o q[i]]
           step == [i \in Nat |-> [x \in Seq(S) |-> IF i \in 1 .. n THEN x \o q[i] ELSE <<>>]]
<1>1. n \in Nat /\ <<>> \in Seq(S) /\ step \in [Nat -> [Seq(S) -> Seq(S)]]
  OBVIOUS
<1>2. \A i \in 1 .. n : q[i] \in Seq(S)
  OBVIOUS
<1>3. \A i \in 1 .. n : \A x \in Seq(S) : step[i][x] = x \o q[i]
  <2>1. \A i \in 1 .. n : step[i] = [x \in Seq(S) |-> x \o q[i]]
    OBVIOUS
  <2> HIDE DEF step
  <2> QED
    BY <2>1
<1> HIDE DEF step, n
<1>4. PICK g \in [0 .. n -> Seq(S)] : Recursion(g, n, <<>>, step)
  BY <1>1, RecursionExists
<1>5. Joining(g, q)
  <2>1. \A i \in 1 .. n : g[i - 1] \in Seq(S)
    BY <1>1
  <2>2. g[0] = <<>> /\ \A i \in 1 .. n : g[i] = step[i][g[i - 1]]
    BY <1>4 DEF Recursion
  <2>3. \A i \in 1 .. n : g[i] = g[i - 1] \o q[i]
    BY <1>3, <2>1, <2>2
  <2> QED
    BY <2>2, <2>3 DEF Joining, n
<1>6. CASE n = 0
  <2>1. q = <<>>
    BY <1>6 DEF n
  <2>2. FlattenSeq(q) = <<>>
    BY <2>1 DEF FlattenSeq
  <2> QED
    BY <1>5, <1>6, <2>2 DEF Joining, n
<1>7. CASE n > 0
  <2> DEFINE part == [i \in 1 .. n |-> g[i]]
  <2>1. Flattens(part)
    <3>1. g[0] \o q[1] = q[1]
      BY <1>2, <1>5, <1>7 DEF Joining
    <3>2. \A i \in 1 .. n : g[i] = g[i - 1] \o q[i]
      BY <1>5 DEF Joining, n
    <3>3. \A i \in 1 .. n : i = 1 \/ i - 1 \in 1 .. n
      BY <1>1
    <3>4. ASSUME NEW i \in 1 .. n
          PROVE  g[i] = IF i = 1 THEN q[i] ELSE part[i - 1] \o q[i]
      <4>1. CASE i = 1
        <5>1. g[1] = g[1 - 1] \o q[1]
          <6>1. 1 \in 1 .. n
            BY <1>1, <1>7
          <6> QED
            BY <3>2, <6>1, Zenon
        <5>2. 1 - 1 = 0
          OBVIOUS
        <5>3. g[1] = q[1]
          BY <3>1, <5>1, <5>2, Zenon
        <5> QED
          BY <4>1, <5>3
      <4>2. CASE i # 1
        <5>1. part[i - 1] = g[i - 1]
          BY <3>3, <4>2
        <5> QED
          BY <3>2, <4>2, <5>1
      <4> QED
        BY <4>1, <4>2
    <3> QED
      BY <3>4
  <2> DEFINE flatten == CHOOSE h : Flattens(h)
  <2>2. Flattens(flatten)
    <3> HIDE DEF Flattens, part
    <3> QED
      BY <2>1
  <2>3. FlattenSeq(q) = flatten[n]
    BY <1>1, <1>7 DEF FlattenSeq, n
  <2>4. \A i \in 1 .. n : flatten[i] = IF i = 1 THEN q[i] ELSE flatten[i - 1] \o q[i]
    BY <2>2
  <2> HIDE DEF Flattens, flatten, part
  <2> DEFINE T == {k \in Nat : k \in 1 .. n => flatten[k] = g[k]}
  <2>5. ASSUME NEW k \in Nat, k \in T PROVE k + 1 \in T
    <3> SUFFICES ASSUME k + 1 \in 1 .. n PROVE flatten[k + 1] = g[k + 1]
      OBVIOUS
    <3>1. g[k + 1] = g[(k + 1) - 1] \o q[k + 1] /\ (k + 1) - 1 = k
      <4>1. g[k + 1] = g[(k + 1) - 1] \o q[k + 1]
        BY <1>5 DEF Joining, n
      <4> QED
        BY <4>1
    <3>2. flatten[k + 1] = IF k + 1 = 1 THEN q[k + 1] ELSE flatten[(k + 1) - 1] \o q[k + 1]
      BY <2>4
    <3>3. CASE k = 0
      <4>1. g[0] \o q[1] = q[1]
        BY <1>2, <1>5, <1>7, <1>1 DEF Joining
      <4>2. k + 1 = 1
        BY <3>3
      <4>3. g[k + 1] = g[0] \o q[1] /\ flatten[k + 1] = q[1]
        BY <3>1, <3>2, <3>3, <4>2
      <4> QED
        BY <4>1, <4>3
    <3>4. CASE k # 0
      <4>1. flatten[k] = g[k] /\ k + 1 # 1
        BY <1>1, <2>5, <3>4
      <4> QED
        BY <3>1, <3>2, <4>1
    <3> QED
      BY <3>3, <3>4
  <2>6. n \in T
    <3>1. 0 \in T
      OBVIOUS
    <3> HIDE DEF T
    <3> QED
      BY <1>1, <2>5, <3>1, InductionOverNat
  <2>7. flatten[n] = g[n]
    BY <1>1, <1>7, <2>6
  <2> QED
    BY <1>5, <2>3, <2>7 DEF n
<1> QED
  BY <1>1, <1>6, <1>7

LEMMA FlattenSeqType ==
  ASSUME NEW S, NEW q \in Seq(Seq(S))
  PROVE  FlattenSeq(q) \in Seq(S)
<1>1. Len(q) \in Nat
  OBVIOUS
<1> QED
  BY <1>1, FlattenSeqJoins

LEMMA SeqOfMore ==
  ASSUME NEW S, NEW T, S \subseteq T, NEW s \in Seq(S)
  PROVE  s \in Seq(T)
  OBVIOUS

LEMMA SeqInto ==
  ASSUME NEW S, NEW T, NEW s \in Seq(S), \A i \in 1 .. Len(s) : s[i] \in T
  PROVE  s \in Seq(T)
  OBVIOUS

LEMMA Remainder ==
  ASSUME NEW n \in Int, NEW m \in Nat \ {0}
  PROVE  n % m \in 0 .. m - 1 /\ (0 <= n /\ n < m => n % m = n)
  OBVIOUS
=============================================================================
