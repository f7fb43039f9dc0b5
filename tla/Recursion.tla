----------------------------- MODULE Recursion -----------------------------
(***************************************************************************)
(* Functions defined by recursion over the natural numbers, and induction  *)
(* as a fact about sets, both from the well-foundedness of the numbers.    *)
(*                                                                         *)
(* A recursive function is what CHOOSE picks among the functions that      *)
(* satisfy its equation.  That there is one, and therefore that the        *)
(* function satisfies it, is proved here once, for any first value Base    *)
(* and any Step, in any context c.  An instance of this module for the     *)
(* steps of a definition gives the fact about that definition.             *)
(***************************************************************************)
EXTENDS Integers, WellFoundedInduction, TLAPS

CONSTANTS
    Base(_),       \* the value at 0, in a context
    Step(_, _, _)  \* the value at n, from the context, the one before, and n

levels(c) ==
    LET level[n \in Nat] == IF n = 0 THEN Base(c) ELSE Step(c, level[n - 1], n)
    IN level

(* A function that satisfies the equation up to n. *)
Obeys(c, g, n) ==
    \A m \in 0..n : g[m] = IF m = 0 THEN Base(c) ELSE Step(c, g[m - 1], m)

-----------------------------------------------------------------------------
(* A set of natural numbers has a least one. *)
LEMMA LeastNumber ==
    ASSUME NEW T, T \subseteq Nat, T # {}
    PROVE  \E x \in T : \A y \in T : x <= y
<1> DEFINE R == OpToRel(<, Nat)
<1>1. IsWellFoundedOn(R, Nat)
  BY NatLessThanWellFounded
<1>2. \A x, y \in Nat : (<<y, x>> \in R) <=> y < x
  BY DEF OpToRel
<1> HIDE DEF R
<1>3. PICK x \in T : \A y \in T : ~(<<y, x>> \in R)
  BY <1>1, WFMin
<1>4. ASSUME NEW y \in T PROVE x <= y
  <2>1. x \in Nat /\ y \in Nat
    OBVIOUS
  <2>2. ~(y < x)
    BY <1>2, <1>3, <2>1, Zenon
  <2> QED BY <2>1, <2>2
<1> QED BY <1>4

(* A set that has 0, and with every number the next, has them all. *)
LEMMA SetInduction ==
    ASSUME NEW S, 0 \in S, \A n \in Nat : n \in S => n + 1 \in S
    PROVE  Nat \subseteq S
<1> DEFINE T == {n \in Nat : n \notin S}
<1> SUFFICES ASSUME T # {} PROVE FALSE
  OBVIOUS
<1>1. PICK x \in T : \A y \in T : x <= y
  BY LeastNumber
<1>2. x - 1 \in Nat /\ x - 1 \notin T
  BY <1>1
<1> QED BY <1>2

-----------------------------------------------------------------------------
(* Functions that satisfy the equation up to any number exist ... *)
LEMMA Prefixes == ASSUME NEW c PROVE \A n \in Nat : \E g : Obeys(c, g, n)
<1> DEFINE S == {n \in Nat : \E g : Obeys(c, g, n)}
<1>1. 0 \in S
  <2>1. Obeys(c, [m \in 0..0 |-> Base(c)], 0)
    BY DEF Obeys
  <2> QED BY <2>1
<1>2. ASSUME NEW n \in Nat, n \in S PROVE n + 1 \in S
  <2>1. PICK g : Obeys(c, g, n)
    BY <1>2
  <2> DEFINE h == [m \in 0..(n + 1) |-> IF m = n + 1 THEN Step(c, g[n], n + 1) ELSE g[m]]
  <2>2. ASSUME NEW m \in 0..(n + 1)
        PROVE  h[m] = IF m = 0 THEN Base(c) ELSE Step(c, h[m - 1], m)
    <3>1. CASE m = n + 1
      <4>1. h[m] = Step(c, g[n], n + 1) /\ m # 0 /\ m - 1 = n
        BY <3>1
      <4>2. h[n] = g[n]
        OBVIOUS
      <4> QED BY <3>1, <4>1, <4>2
    <3>2. CASE m \in 0..n
      <4>1. h[m] = g[m]
        BY <3>2
      <4>2. CASE m = 0
        BY <2>1, <3>2, <4>1, <4>2 DEF Obeys
      <4>3. CASE m # 0
        <5>1. h[m - 1] = g[m - 1]
          BY <3>2, <4>3
        <5> HIDE DEF h
        <5> QED BY <2>1, <3>2, <4>1, <4>3, <5>1 DEF Obeys
      <4> QED BY <4>2, <4>3
    <3> QED BY <3>1, <3>2
  <2> HIDE DEF h
  <2>3. Obeys(c, h, n + 1)
    BY <2>2 DEF Obeys
  <2> QED BY <2>3
<1> HIDE DEF S
<1>3. Nat \subseteq S
  BY <1>1, <1>2, SetInduction
<1> QED BY <1>3 DEF S

(* ... and agree as far as they go. *)
LEMMA Coherent ==
    ASSUME NEW c, NEW g, NEW h, NEW k \in Nat, NEW l \in Nat,
           Obeys(c, g, k), Obeys(c, h, l)
    PROVE  \A m \in Nat : m <= k /\ m <= l => g[m] = h[m]
<1> DEFINE S == {m \in Nat : m <= k /\ m <= l => g[m] = h[m]}
<1>1. 0 \in S
  BY DEF Obeys
<1>2. ASSUME NEW n \in Nat, n \in S PROVE n + 1 \in S
  <2> SUFFICES ASSUME n + 1 <= k, n + 1 <= l PROVE g[n + 1] = h[n + 1]
    OBVIOUS
  <2>1. g[n] = h[n]
    BY <1>2
  <2>2. n + 1 \in 0..k /\ n + 1 \in 0..l /\ (n + 1) - 1 = n /\ n + 1 # 0
    OBVIOUS
  <2>3. g[n + 1] = Step(c, g[n], n + 1) /\ h[n + 1] = Step(c, h[n], n + 1)
    BY <2>2 DEF Obeys
  <2> QED BY <2>1, <2>3
<1> HIDE DEF S
<1>3. Nat \subseteq S
  BY <1>1, <1>2, SetInduction
<1> QED BY <1>3 DEF S

(* A function defined by recursion over the numbers satisfies its equation. *)
LEMMA RecursionDefines ==
    ASSUME NEW c
    PROVE  LET f == levels(c)
           IN f = [n \in Nat |-> IF n = 0 THEN Base(c) ELSE Step(c, f[n - 1], n)]
<1> DEFINE Def(g, n) == IF n = 0 THEN Base(c) ELSE Step(c, g[n - 1], n)
           G == [n \in Nat |-> CHOOSE g : Obeys(c, g, n)]
           F == [n \in Nat |-> G[n][n]]
<1>1. ASSUME NEW n \in Nat PROVE Obeys(c, G[n], n)
  BY Prefixes
<1> HIDE DEF G
<1>2. ASSUME NEW n \in Nat PROVE F[n] = Def(F, n)
  <2>1. G[n][n] = IF n = 0 THEN Base(c) ELSE Step(c, G[n][n - 1], n)
    BY <1>1 DEF Obeys
  <2>2. n # 0 => G[n][n - 1] = G[n - 1][n - 1]
    <3> SUFFICES ASSUME n # 0 PROVE G[n][n - 1] = G[n - 1][n - 1]
      OBVIOUS
    <3>1. n - 1 \in Nat /\ n - 1 <= n /\ n - 1 <= n - 1
      OBVIOUS
    <3> QED BY <1>1, <3>1, Coherent
  <2>3. n # 0 => F[n - 1] = G[n - 1][n - 1]
    OBVIOUS
  <2>4. F[n] = G[n][n]
    OBVIOUS
  <2> QED BY <2>1, <2>2, <2>3, <2>4
<1> HIDE DEF F
<1>3. F = [n \in Nat |-> Def(F, n)]
  BY <1>2 DEF F
<1>4. levels(c) = CHOOSE g : g = [n \in Nat |-> Def(g, n)]
  BY DEF levels
<1> QED BY <1>3, <1>4

(* ... which gives its first value, and each from the one before. *)
COROLLARY RecursionSteps ==
    ASSUME NEW c, NEW g,
           g = CHOOSE x : x = [n \in Nat |-> IF n = 0 THEN Base(c)
                                             ELSE Step(c, x[n - 1], n)]
    PROVE  /\ g[0] = Base(c)
           /\ \A n \in Nat : g[n + 1] = Step(c, g[n], n + 1)
<1>1. g = levels(c)
  BY DEF levels
<1>2. g = [n \in Nat |-> IF n = 0 THEN Base(c) ELSE Step(c, g[n - 1], n)]
  BY <1>1, RecursionDefines
<1>3. ASSUME NEW n \in Nat PROVE g[n + 1] = Step(c, g[n], n + 1)
  <2>1. n + 1 \in Nat /\ n + 1 # 0 /\ (n + 1) - 1 = n
    OBVIOUS
  <2> QED BY <1>2, <2>1
<1> QED BY <1>2, <1>3
=============================================================================
