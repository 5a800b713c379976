--------------------------- MODULE Recursion_proofs ---------------------------
(***************************************************************************)
(* Induction and recursion over numbers, for the proofs about the other    *)
(* modules: least and greatest elements, induction by a set of numbers,    *)
(* and the existence of functions that are defined step by step.           *)
(***************************************************************************)
EXTENDS Integers, WellFoundedInduction, TLAPS

\* The pairs of numbers in their order, a well-founded relation.
Below == {ss \in Nat \X Nat : ss[1] < ss[2]}

\* A set of numbers has a smallest one.
LEMMA Smallest ==
    ASSUME NEW T \in SUBSET Nat, T # {}
    PROVE  \E n \in T : \A m \in T : n <= m
<1>1. IsWellFoundedOn(Below, Nat)
  BY NatLessThanWellFounded DEF OpToRel, Below
<1>2. PICK x \in T : \A y \in T : ~(<<y, x>> \in Below)
  BY <1>1, WFMin
<1>3. ASSUME NEW y \in T PROVE x <= y
  <2>1. ~(<<y, x>> \in Below)
    BY <1>2
  <2>2. x \in Nat /\ y \in Nat /\ <<y, x>> \in Nat \X Nat
    OBVIOUS
  <2> QED
    BY <2>1, <2>2 DEF Below
<1> QED
  BY <1>3

\* A set of numbers that is bounded has a largest one.
LEMMA Largest ==
    ASSUME NEW n \in Nat, NEW T \in SUBSET (0..n), T # {}
    PROVE  \E i \in T : \A j \in T : j <= i
<1> DEFINE left == {n - i : i \in T}
<1>1. left \in SUBSET Nat /\ left # {}
  <2>1. \A i \in T : n - i \in Nat
    OBVIOUS
  <2> QED BY <2>1
<1>2. PICK m \in left : \A k \in left : m <= k
  BY <1>1, Smallest
<1>3. PICK i \in T : m = n - i
  BY <1>2
<1>4. ASSUME NEW j \in T PROVE j <= i
  <2>1. n - j \in left /\ i \in Nat /\ j \in Nat
    OBVIOUS
  <2>2. m <= n - j
    BY <1>2, <2>1
  <2> QED BY <1>3, <2>1, <2>2
<1> QED BY <1>4

\* A set that has zero and with a number its successor has all numbers.
LEMMA AllNumbers ==
    ASSUME NEW S, 0 \in S, \A n \in Nat : n \in S => n + 1 \in S
    PROVE  Nat \subseteq S
<1> DEFINE T == Nat \ S
<1>1. ASSUME T # {} PROVE FALSE
  <2>1. PICK n \in T : \A m \in T : n <= m
    BY <1>1, Smallest
  <2>2. n \in Nat /\ n \notin S /\ n # 0 /\ n - 1 \in Nat /\ (n - 1) + 1 = n
    OBVIOUS
  <2>3. n - 1 \in T /\ ~(n <= n - 1)
    BY <2>2
  <2> QED BY <2>1, <2>3
<1> QED BY <1>1

\* A sequence of values from a, each a step from the one before it.
IsRun(f, N, V, a, g) ==
    f \in [0..N -> V] /\ f[0] = a /\ \A n \in 1..N : f[n] = g[n][f[n - 1]]
HasRun(N, V, a, g) == \E f : IsRun(f, N, V, a, g)

\* A step from every value leads to a sequence of values.
LEMMA StepsExist ==
    ASSUME NEW N \in Nat, NEW V, NEW a \in V, NEW g \in [1..N -> [V -> V]]
    PROVE  HasRun(N, V, a, g)
<1> DEFINE Upto(m, f) == f[0] = a /\ \A n \in 1..m : f[n] = g[n][f[n - 1]]
           S == {m \in Nat : m <= N => \E f \in [0..m -> V] : Upto(m, f)}
<1>1. 0 \in S
  <2>1. [n \in 0..0 |-> a] \in [0..0 -> V] /\ Upto(0, [n \in 0..0 |-> a])
    OBVIOUS
  <2> QED BY <2>1
<1>2. ASSUME NEW m \in Nat, m \in S PROVE m + 1 \in S
  <2> SUFFICES ASSUME m + 1 <= N PROVE \E f \in [0..(m + 1) -> V] : Upto(m + 1, f)
    OBVIOUS
  <2>1. PICK f \in [0..m -> V] : Upto(m, f)
    BY <1>2
  <2> DEFINE h == [n \in 0..(m + 1) |-> IF n = m + 1 THEN g[m + 1][f[m]] ELSE f[n]]
  <2>2. g[m + 1][f[m]] \in V
    <3>1. f[m] \in V /\ m + 1 \in 1..N
      OBVIOUS
    <3> QED BY <3>1
  <2>3. h \in [0..(m + 1) -> V]
    <3>1. ASSUME NEW n \in 0..(m + 1), n # m + 1 PROVE f[n] \in V
      BY <3>1
    <3> QED BY <2>2, <3>1
  <2>4. h[m + 1] = g[m + 1][f[m]] /\ \A n \in 0..m : h[n] = f[n]
    OBVIOUS
  <2> HIDE DEF h
  <2>5. h[0] = a
    BY <2>1, <2>4
  <2>6. ASSUME NEW n \in 1..(m + 1) PROVE h[n] = g[n][h[n - 1]]
    <3>1. CASE n = m + 1
      <4>1. n - 1 = m /\ h[m] = f[m]
        BY <2>4, <3>1
      <4> QED BY <2>4, <3>1, <4>1
    <3>2. CASE n # m + 1
      <4>1. n \in 1..m /\ n \in 0..m /\ n - 1 \in 0..m
        BY <3>2
      <4>2. h[n] = f[n] /\ h[n - 1] = f[n - 1]
        BY <2>4, <4>1
      <4> QED BY <2>1, <4>1, <4>2
    <3> QED BY <3>1, <3>2
  <2> QED BY <2>3, <2>5, <2>6
<1>3. N \in S
  <2> HIDE DEF S
  <2> QED BY <1>1, <1>2, AllNumbers
<1> QED BY <1>3 DEF HasRun, IsRun

------------------------------------------------------------------------------
\* Powers of two, by doubling.

IsDoubling(p, N) == p = [n \in 0..N |-> IF n = 0 THEN 1 ELSE 2 * p[n - 1]]
HasDoubling(N) == \E p : IsDoubling(p, N)

LEMMA DoublingExists == ASSUME NEW N \in Nat PROVE HasDoubling(N)
<1> DEFINE g == [n \in 1..N |-> [v \in Nat |-> 2 * v]]
<1>1. PICK f : IsRun(f, N, Nat, 1, g)
  <2>1. g \in [1..N -> [Nat -> Nat]]
    OBVIOUS
  <2> HIDE DEF g
  <2>2. 1 \in Nat
    OBVIOUS
  <2> QED BY <2>1, <2>2, StepsExist DEF HasRun
<1>2. ASSUME NEW n \in 0..N PROVE f[n] = IF n = 0 THEN 1 ELSE 2 * f[n - 1]
  <2>1. CASE n = 0
    BY <1>1, <2>1 DEF IsRun
  <2>2. CASE n # 0
    <3>1. n \in 1..N /\ n - 1 \in 0..N
      BY <2>2
    <3>2. f[n - 1] \in Nat /\ f[n] = g[n][f[n - 1]]
      BY <1>1, <3>1 DEF IsRun
    <3> QED BY <2>2, <3>1, <3>2
  <2> QED BY <2>1, <2>2
<1>3. f = [n \in 0..N |-> f[n]]
  BY <1>1 DEF IsRun
<1>4. IsDoubling(f, N)
  BY <1>2, <1>3 DEF IsDoubling
<1> QED BY <1>4 DEF HasDoubling

Power(p, n) == p[n] \in Nat /\ p[n] > 0

LEMMA DoublingIs ==
    ASSUME NEW N \in Nat, NEW p, IsDoubling(p, N)
    PROVE  /\ p[0] = 1
           /\ \A n \in 1..N : p[n] = 2 * p[n - 1]
           /\ \A n \in 0..N : Power(p, n)
<1>1. \A n \in 0..N : p[n] = IF n = 0 THEN 1 ELSE 2 * p[n - 1]
  BY Zenon DEF IsDoubling
<1>2. p[0] = 1 /\ \A n \in 1..N : p[n] = 2 * p[n - 1]
  BY <1>1
<1> DEFINE S == {n \in Nat : n <= N => Power(p, n)}
<1>3. 0 \in S
  BY <1>2 DEF Power
<1>4. ASSUME NEW n \in Nat, n \in S PROVE n + 1 \in S
  <2> SUFFICES ASSUME n + 1 <= N PROVE Power(p, n + 1)
    OBVIOUS
  <2>1. Power(p, n) /\ n + 1 \in 1..N /\ (n + 1) - 1 = n
    BY <1>4
  <2>2. p[n + 1] = 2 * p[n]
    BY <1>2, <2>1
  <2> QED BY <2>1, <2>2 DEF Power
<1>5. Nat \subseteq S
  <2> HIDE DEF S
  <2> QED BY <1>3, <1>4, AllNumbers
<1> QED BY <1>2, <1>5
===============================================================================
