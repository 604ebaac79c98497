------------------------------ MODULE Induction -----------------------------
(***************************************************************************)
(* Induction on the natural numbers, stated for sets, and functions that    *)
(* are defined by recursion on them, stated for functions: in this form     *)
(* the facts can be cited for what the modules compute by recursion.        *)
(***************************************************************************)
EXTENDS Integers, WellFoundedInduction, TLAPS

\* A set of natural numbers that is not empty has a smallest one.
LEMMA NatMin ==
    ASSUME NEW T, T \subseteq Nat, T # {}
    PROVE  \E x \in T : \A y \in T : ~(y < x)
  <1>1. \E x \in T : \A y \in T : ~(<<y, x>> \in OpToRel(<, Nat))
    BY WFMin, NatLessThanWellFounded
  <1>2. \A x, y \in T : y < x => <<y, x>> \in OpToRel(<, Nat)
    BY DEF OpToRel
  <1> QED  BY <1>1, <1>2

\* A set that has 0 and, with a number, the next one has all of them.
LEMMA NatSetInduction ==
    ASSUME NEW S, 0 \in S, \A n \in Nat : n \in S => n + 1 \in S
    PROVE  Nat \subseteq S
  <1> SUFFICES ASSUME NEW T, T = Nat \ S, T # {} PROVE FALSE
    OBVIOUS
  <1>1. PICK x \in T : \A y \in T : ~(y < x)
    BY NatMin
  <1>2. x \in Nat /\ x # 0
    OBVIOUS
  <1>3. x - 1 \in Nat /\ x = (x - 1) + 1
    BY <1>2
  <1>4. x - 1 \in T
    BY <1>3
  <1> QED  BY <1>1, <1>2, <1>4

\* The same for the numbers from 0 to a bound.
LEMMA IntervalInduction ==
    ASSUME NEW n \in Nat, NEW S, 0 \in S,
           \A i \in 0..(n - 1) : i \in S => i + 1 \in S
    PROVE  0..n \subseteq S
  <1> DEFINE T == {i \in Nat : i <= n => i \in S}
  <1>1. 0 \in T
    OBVIOUS
  <1>2. ASSUME NEW i \in Nat, i \in T PROVE i + 1 \in T
    <2> SUFFICES ASSUME i + 1 <= n PROVE i + 1 \in S
      OBVIOUS
    <2>1. i \in 0..(n - 1) /\ i \in S
      BY <1>2
    <2> QED  BY <2>1
  <1> HIDE DEF T
  <1>3. Nat \subseteq T
    BY <1>1, <1>2, NatSetInduction
  <1> QED  BY <1>3 DEF T

\* g is the function from 0..n to V that starts with b and goes on with step st[i].
ByRecursion(g, n, V, b, st) ==
    /\ g \in [0..n -> V]
    /\ g[0] = b
    /\ \A i \in 1..n : g[i] = st[i][g[i - 1]]

\* From a first value and a step from one value to the next for each number there
\* is the function that recursion defines.
LEMMA RecursionExists ==
    ASSUME NEW n \in Nat, NEW V, NEW b \in V, NEW st \in [Nat -> [V -> V]]
    PROVE  \E g : ByRecursion(g, n, V, b, st)
  <1> DEFINE Is(g, m) == g \in [0..m -> V] /\ g[0] = b /\ \A i \in 1..m : g[i] = st[i][g[i - 1]]
             S == {m \in Nat : \E g \in [0..m -> V] : Is(g, m)}
  <1>1. 0 \in S
    <2> DEFINE g == [i \in 0..0 |-> b]
    <2>1. g \in [0..0 -> V] /\ g[0] = b
      OBVIOUS
    <2>2. Is(g, 0)
      BY <2>1
    <2> QED  BY <2>1, <2>2
  <1>2. ASSUME NEW m \in Nat, m \in S PROVE m + 1 \in S
    <2>1. PICK f \in [0..m -> V] : Is(f, m)
      BY <1>2
    <2> DEFINE g == [i \in 0..(m + 1) |-> IF i = m + 1 THEN st[m + 1][f[m]] ELSE f[i]]
    <2>2. st[m + 1][f[m]] \in V
      OBVIOUS
    <2>3. g \in [0..(m + 1) -> V]
      BY <2>2
    <2>4. g[0] = b
      BY <2>1
    <2>5. ASSUME NEW i \in 1..(m + 1) PROVE g[i] = st[i][g[i - 1]]
      <3>1. i - 1 \in 0..m
        OBVIOUS
      <3>2. g[i - 1] = f[i - 1]
        BY <3>1
      <3>3. CASE i = m + 1
        BY <3>2, <3>3
      <3>4. CASE i # m + 1
        <4>1. i \in 1..m
          BY <3>4
        <4> QED  BY <2>1, <3>2, <3>4, <4>1
      <3> QED  BY <3>3, <3>4
    <2>6. Is(g, m + 1)
      BY <2>3, <2>4, <2>5
    <2> HIDE DEF g
    <2>7. \E h \in [0..(m + 1) -> V] : Is(h, m + 1)
      BY <2>3, <2>6
    <2> QED  BY <2>7
  <1> HIDE DEF S
  <1>3. n \in S
    BY <1>1, <1>2, NatSetInduction
  <1> QED  BY <1>3 DEF S, ByRecursion
=============================================================================
