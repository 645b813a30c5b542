------------------------------- MODULE Iteration -------------------------------
(***************************************************************************)
(* What the code's loops come to: each is a function on 0..N, its value at *)
(* n what the loop has made in n rounds.  The provers cannot use the       *)
(* library's induction theorems, so the facts rest on the least round that *)
(* would break them.                                                       *)
(***************************************************************************)
EXTENDS Integers, WellFoundedInduction, TLAPS

\* Of natural numbers, one is the least.
LEMMA NatMin ==
    ASSUME NEW S, S \subseteq Nat, S # {}
    PROVE  \E n \in S : \A m \in S : n <= m
<1>1. PICK n \in S : \A m \in S : ~(<<m, n>> \in OpToRel(<, Nat))
  BY NatLessThanWellFounded, WFMin
<1>2. \A m \in S : ~(m < n)
  BY <1>1 DEF OpToRel
<1>. QED  BY <1>2

\* What is done again and again has a result each time.
Iterated(X, N, base, step) ==
    \E g \in [0..N -> X] :
        \A n \in 0..N : g[n] = IF n = 0 THEN base ELSE step[n][g[n - 1]]

LEMMA Iterates ==
    ASSUME NEW X, NEW N \in Nat, NEW base \in X, NEW step \in [1..N -> [X -> X]]
    PROVE  Iterated(X, N, base, step)
<1> DEFINE After(g, n) ==
                \A k \in 0..n : g[k] = IF k = 0 THEN base ELSE step[k][g[k - 1]]
           Bad == {n \in 0..N : ~\E g \in [0..n -> X] : After(g, n)}
<1>1. Bad = {}
  <2> SUFFICES ASSUME Bad # {}
               PROVE  FALSE
    OBVIOUS
  <2>1. Bad \subseteq Nat
    OBVIOUS
  <2>2. PICK n \in Bad : \A m \in Bad : n <= m
    BY <2>1, NatMin
  <2>3. n \in 0..N /\ ~\E g \in [0..n -> X] : After(g, n)
    BY <2>2
  <2>4. n # 0
    <3>1. [k \in 0..0 |-> base] \in [0..0 -> X] /\ After([k \in 0..0 |-> base], 0)
      OBVIOUS
    <3>. QED  BY <2>3, <3>1
  <2>5. n - 1 \in 0..N /\ n - 1 \notin Bad
    <3>1. n - 1 \in 0..N /\ ~(n <= n - 1)
      BY <2>3, <2>4
    <3> HIDE DEF Bad
    <3>. QED  BY <2>2, <3>1
  <2>6. PICK g \in [0..(n - 1) -> X] : After(g, n - 1)
    BY <2>5
  <2> DEFINE h == [k \in 0..n |-> IF k = n THEN step[n][g[n - 1]] ELSE g[k]]
  <2>7. g[n - 1] \in X /\ step[n] \in [X -> X]
    BY <2>3, <2>4, <2>5
  <2>8. h \in [0..n -> X]
    BY <2>3, <2>7
  <2>9. ASSUME NEW k \in 0..n
        PROVE  h[k] = IF k = 0 THEN base ELSE step[k][h[k - 1]]
    <3>1. CASE k = n
      BY <2>3, <2>4, <3>1
    <3>2. CASE k # n
      <4>1. k \in 0..(n - 1) /\ (k # 0 => k - 1 \in 0..(n - 1))
        BY <2>3, <3>2
      <4>2. h[k] = g[k] /\ (k # 0 => h[k - 1] = g[k - 1])
        BY <2>3, <4>1
      <4>. QED  BY <2>6, <4>1, <4>2
    <3>. QED  BY <3>1, <3>2
  <2> HIDE DEF h
  <2>. QED  BY <2>3, <2>8, <2>9
<1>2. N \in 0..N /\ N \notin Bad
  BY <1>1
<1>3. PICK g \in [0..N -> X] : After(g, N)
  BY <1>2
<1>. QED  BY <1>3 DEF Iterated

\* What holds before a loop, and after each round if it did before it, holds
\* all along.
LEMMA Climbs ==
    ASSUME NEW N \in Nat, NEW S, 0 \in S, \A n \in 1..N : n - 1 \in S => n \in S
    PROVE  \A n \in 0..N : n \in S
<1> DEFINE Bad == {n \in 0..N : n \notin S}
<1> SUFFICES ASSUME Bad # {}
             PROVE  FALSE
  OBVIOUS
<1>1. Bad \subseteq Nat
  OBVIOUS
<1>2. PICK n \in Bad : \A m \in Bad : n <= m
  BY <1>1, NatMin
<1>3. n \in 1..N /\ n - 1 \in 0..N /\ ~(n <= n - 1)
  BY <1>2
<1>4. n - 1 \notin Bad
  <2> HIDE DEF Bad
  <2>. QED  BY <1>2, <1>3
<1>. QED  BY <1>2, <1>3, <1>4

================================================================================
