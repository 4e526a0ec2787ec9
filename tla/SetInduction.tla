------------------------------ MODULE SetInduction -----------------------------
(***************************************************************************)
(* Induction over the natural numbers, stated for sets.  The induction     *)
(* theorems of the library take an operator, which the provers at hand     *)
(* cannot supply; a set {n \in Nat : P(n)} they can.  A loop that a module *)
(* writes as a recursive function is reasoned about with these lemmas.     *)
(***************************************************************************)
EXTENDS Integers, FiniteSetTheorems, TLAPS

\* A set that holds zero and the successor of each of its members holds every natural
\* number.  Were m the one it lacks, the successor would take the n members below m
\* one-to-one to the n - 1 positive ones among them.
LEMMA SetInduction ==
  ASSUME NEW S, 0 \in S, \A n \in Nat : n \in S => n + 1 \in S
  PROVE  Nat \subseteq S
<1>1. SUFFICES ASSUME NEW m \in Nat, m \notin S
               PROVE  FALSE
  OBVIOUS
<1> DEFINE V == {i \in 0..m : i \in S}
           W == V \ {0}
           successor == [i \in V |-> i + 1]
<1>2. IsFiniteSet(V) /\ IsFiniteSet(W) /\ Cardinality(V) \in Nat
  <2>1. IsFiniteSet(0..m)
    BY FS_Interval
  <2>2. IsFiniteSet(V)
    BY <2>1, FS_Subset
  <2> QED
    BY <2>2, FS_Subset, FS_CardinalityType
<1>3. Cardinality(W) = Cardinality(V) - 1
  <2>1. 0 \in V
    OBVIOUS
  <2> HIDE DEF V
  <2> QED
    BY <1>2, <2>1, FS_RemoveElement
<1>4. successor \in [V -> W]
  BY <1>1
<1>5. \E x, y \in V : x # y /\ successor[x] = successor[y]
  <2>1. Cardinality(W) < Cardinality(V)
    BY <1>2, <1>3
  <2> HIDE DEF V, W, successor
  <2> QED
    BY <1>2, <2>1, <1>4, FS_PigeonHole
<1> QED
  BY <1>5

\* A set of natural numbers that is not empty has a least member: otherwise every
\* number would be a lower bound of it.
LEMMA LeastMember ==
  ASSUME NEW S \in SUBSET Nat, S # {}
  PROVE  \E i \in S : \A j \in S : i <= j
<1> DEFINE Below == {n \in Nat : \A j \in S : n <= j}
<1>1. SUFFICES ASSUME \A i \in S : \E j \in S : ~(i <= j)
               PROVE  FALSE
  OBVIOUS
<1>2. 0 \in Below
  OBVIOUS
<1>3. ASSUME NEW n \in Nat, n \in Below
      PROVE  n + 1 \in Below
  BY <1>1, <1>3
<1>4. Nat \subseteq Below
  <2> HIDE DEF Below
  <2> QED
    BY <1>2, <1>3, SetInduction
<1>5. PICK s \in S : TRUE
  OBVIOUS
<1>6. s + 1 \in Below
  BY <1>4, <1>5
<1> QED
  BY <1>5, <1>6

\* The bodies of a loop over 1..N whose state is in T, and what it is for g to hold the
\* loop's state after each round.
LoopBodies(N, T) == [(1..N) \X T -> T]

Runs(g, start, body, N) ==
    /\ g[0] = start
    /\ \A i \in 1..N : g[i] = body[<< i, g[i - 1] >>]

\* Every loop can be run: the function that its recursive definition chooses exists.
LEMMA LoopRuns ==
  ASSUME NEW T, NEW start \in T, NEW N \in Nat, NEW body \in LoopBodies(N, T)
  PROVE  \E g \in [0..N -> T] : Runs(g, start, body, N)
<1> DEFINE Upto(n) == \E g \in [0..n -> T] :
                         /\ g[0] = start
                         /\ \A i \in 1..n : g[i] = body[<< i, g[i - 1] >>]
           S == {n \in Nat : n <= N => Upto(n)}
<1>1. 0 \in S
  <2> DEFINE g == [i \in 0..0 |-> start]
  <2>1. /\ g \in [0..0 -> T]
        /\ g[0] = start
        /\ \A i \in 1..0 : g[i] = body[<< i, g[i - 1] >>]
    OBVIOUS
  <2>2. Upto(0)
    <3> HIDE DEF g
    <3> QED
      BY <2>1
  <2> QED
    BY <2>2
<1>2. ASSUME NEW n \in Nat, n \in S
      PROVE  n + 1 \in S
  <2>1. SUFFICES ASSUME n + 1 <= N
                 PROVE  Upto(n + 1)
    OBVIOUS
  <2>2. PICK g \in [0..n -> T] :
               /\ g[0] = start
               /\ \A i \in 1..n : g[i] = body[<< i, g[i - 1] >>]
    BY <1>2, <2>1
  <2> DEFINE h == [i \in 0..(n + 1) |-> IF i = n + 1 THEN body[<< n + 1, g[n] >>] ELSE g[i]]
  <2>3. body[<< n + 1, g[n] >>] \in T
    BY <2>1 DEF LoopBodies
  <2>4. /\ h \in [0..(n + 1) -> T]
        /\ h[n + 1] = body[<< n + 1, g[n] >>]
        /\ \A i \in 0..n : h[i] = g[i]
    BY <2>3
  <2> HIDE DEF h
  <2>5. ASSUME NEW i \in 1..(n + 1)
        PROVE  h[i] = body[<< i, h[i - 1] >>]
    <3>1. CASE i = n + 1
      <4>1. i - 1 = n /\ n \in 0..n
        BY <3>1
      <4> QED
        BY <2>4, <3>1, <4>1
    <3>2. CASE i \in 1..n
      <4>1. i \in 0..n /\ i - 1 \in 0..n
        BY <3>2
      <4> QED
        BY <2>2, <2>4, <3>2, <4>1
    <3> QED
      BY <3>1, <3>2
  <2>6. h[0] = start
    BY <2>2, <2>4
  <2> QED
    BY <2>4, <2>5, <2>6
<1>3. Nat \subseteq S
  <2> HIDE DEF S
  <2> QED
    BY <1>1, <1>2, SetInduction
<1>4. Upto(N)
  BY <1>3
<1> QED
  BY <1>4 DEF Runs
================================================================================
