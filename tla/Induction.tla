------------------------------ MODULE Induction ------------------------------
(***************************************************************************)
(* Induction on numbers and the values that are computed step by step, by  *)
(* the least counterexample: stated of sets and functions and not of       *)
(* operators, so that the provers can apply them.                          *)
(***************************************************************************)
EXTENDS Naturals, WellFoundedInduction, TLAPS

LEMMA Least ==
  ASSUME NEW S \in SUBSET Nat, S # {}
  PROVE  \E n \in S : \A m \in S : n <= m
<1> DEFINE R == OpToRel(<, Nat)
<1>1. \A m, n \in Nat : m < n => <<m, n>> \in R
  BY DEF OpToRel
<1>2. IsWellFoundedOn(R, Nat)
  BY NatLessThanWellFounded
<1> HIDE DEF R
<1>3. PICK n \in S : \A m \in S : <<m, n>> \notin R
  BY <1>2, WFMin
<1>4. \A m \in S : ~(m < n)
  BY <1>1, <1>3
<1> QED
  BY <1>4

\* A set with 0 and with the next number of each of its numbers.
LEMMA AllNumbers ==
  ASSUME NEW S \in SUBSET Nat, 0 \in S, \A n \in S : n + 1 \in S
  PROVE  S = Nat
<1> DEFINE T == Nat \ S
<1>1. SUFFICES ASSUME T # {}
               PROVE  FALSE
  OBVIOUS
<1>2. PICK n \in T : \A m \in T : n <= m
  <2>1. T \in SUBSET Nat
    OBVIOUS
  <2> HIDE DEF T
  <2> QED
    BY <1>1, <2>1, Least
<1>3. n - 1 \in Nat /\ n - 1 \notin T
  BY <1>2
<1> QED
  BY <1>2, <1>3

\* The same up to a number.
LEMMA UpTo ==
  ASSUME NEW N \in Nat, NEW S, 0 \in S, \A n \in 1..N : n - 1 \in S => n \in S
  PROVE  0..N \subseteq S
<1> DEFINE T == (0..N) \ S
<1>1. SUFFICES ASSUME T # {}
               PROVE  FALSE
  OBVIOUS
<1>2. T \in SUBSET Nat
  OBVIOUS
<1>3. PICK n \in T : \A m \in T : n <= m
  <2> HIDE DEF T
  <2> QED
    BY <1>1, <1>2, Least
<1>4. n \in 1..N /\ n - 1 \in 0..N /\ n - 1 \notin T
  BY <1>3
<1> QED
  BY <1>3, <1>4

\* The functions that make of a value the next one, at each of N steps, and what
\* n of these steps make of a value.
Steps(N, X) == [1..N -> [X -> X]]
Runs(n, X, base, step) == {g \in [0..n -> X] : g[0] = base /\ \A i \in 1..n : g[i] = step[i][g[i - 1]]}

\* A value that is computed step by step exists and stays in its set.
LEMMA Recursion ==
  ASSUME NEW N \in Nat, NEW X, NEW base \in X, NEW step \in Steps(N, X)
  PROVE  Runs(N, X, base, step) # {}
<1> DEFINE T == {n \in 0..N : Runs(n, X, base, step) = {}}
<1>1. SUFFICES ASSUME T # {}
               PROVE  FALSE
  <2>1. T = {}
    BY <1>1
  <2> QED
    BY <2>1
<1>2. T \in SUBSET Nat
  <2>1. 0..N \subseteq Nat
    OBVIOUS
  <2> QED
    BY <2>1, Zenon
<1>3. PICK n \in T : \A m \in T : n <= m
  <2> HIDE DEF T
  <2> QED
    BY <1>1, <1>2, Least
<1>4. n # 0
  <2>1. [i \in 0..0 |-> base] \in Runs(0, X, base, step)
    BY DEF Runs
  <2> QED
    BY <1>3, <2>1
<1>5. n \in 1..N /\ n - 1 \in 0..N /\ n - 1 \notin T
  BY <1>3, <1>4
<1>6. PICK g : g \in Runs(n - 1, X, base, step)
  BY <1>5
<1>7. g \in [0..(n - 1) -> X] /\ g[0] = base /\ \A i \in 1..(n - 1) : g[i] = step[i][g[i - 1]]
  BY <1>6 DEF Runs
<1>8. step[n][g[n - 1]] \in X
  BY <1>5, <1>7 DEF Steps
<1> DEFINE h == [i \in 0..n |-> IF i = n THEN step[n][g[n - 1]] ELSE g[i]]
<1>9. h \in [0..n -> X] /\ h[0] = base
  BY <1>5, <1>7, <1>8
<1>10. ASSUME NEW i \in 1..n PROVE h[i] = step[i][h[i - 1]]
  <2>1. i \in 0..n /\ i - 1 \in 0..n /\ i - 1 # n
    BY <1>5, <1>10
  <2>2. h[i - 1] = g[i - 1]
    BY <2>1
  <2>3. CASE i = n
    BY <2>1, <2>2, <2>3
  <2>4. CASE i # n
    <3>1. i \in 1..(n - 1)
      BY <1>5, <1>10, <2>4
    <3> QED
      BY <1>7, <2>1, <2>2, <2>4, <3>1
  <2> QED
    BY <2>3, <2>4
<1>11. h \in Runs(n, X, base, step)
  BY <1>9, <1>10 DEF Runs
<1> QED
  BY <1>3, <1>11

\* Two values that are computed alike, step by step, are the same.
Alike(N, f, g) == f[0] = g[0] /\ \A n \in 1..N : f[n - 1] = g[n - 1] => f[n] = g[n]

LEMMA SameValue ==
  ASSUME NEW N \in Nat, NEW f, NEW g, Alike(N, f, g)
  PROVE  \A n \in 0..N : f[n] = g[n]
<1> DEFINE S == {n \in 0..N : f[n] = g[n]}
<1>1. 0 \in S /\ \A n \in 1..N : n - 1 \in S => n \in S
  BY DEF Alike
<1>2. 0..N \subseteq S
  <2> HIDE DEF S
  <2> QED
    BY <1>1, UpTo
<1> QED
  BY <1>2
=============================================================================
