---------------------------- MODULE ServerProofs ----------------------------
(***************************************************************************)
(* Proofs about module Server, for any number of connections, timers and    *)
(* entries of a batch, any command line and any configuration files: types, *)
(* the one-shot discipline of the event loop, and what start-up makes of    *)
(* the options and the file.                                                *)
(***************************************************************************)
EXTENDS Server, Induction, SequenceTheorems

-----------------------------------------------------------------------------
(* What Keep returns.                                                      *)

\* g[i] is what Keep keeps of the first i entries.
KeptBy(g, X, s, T) ==
    /\ g \in [0..Len(s) -> Seq(X)]
    /\ Keep(s, T) = g[Len(s)]
    /\ g[0] = << >>
    /\ \A i \in 1..Len(s) :
          g[i] = IF s[i] \in T THEN Append(g[i - 1], s[i]) ELSE g[i - 1]

\* Keep is the function that its recursion describes.
LEMMA KeepRecursion ==
    ASSUME NEW X, NEW s \in Seq(X), NEW T
    PROVE  \E g : KeptBy(g, X, s, T)
  <1> DEFINE kept[i \in 0..Len(s)] ==
                 IF i = 0 THEN << >>
                 ELSE IF s[i] \in T THEN Append(kept[i - 1], s[i]) ELSE kept[i - 1]
  <1>1. Keep(s, T) = kept[Len(s)]
    BY DEF Keep
  <1> DEFINE Eq(g) == g = [i \in 0..Len(s) |->
                              IF i = 0 THEN << >>
                              ELSE IF s[i] \in T THEN Append(g[i - 1], s[i]) ELSE g[i - 1]]
             st == [i \in Nat |-> [v \in Seq(X) |->
                      IF i \in 1..Len(s) /\ s[i] \in T THEN Append(v, s[i]) ELSE v]]
  <1>2. st \in [Nat -> [Seq(X) -> Seq(X)]]
    <2> SUFFICES ASSUME NEW i \in Nat, NEW v \in Seq(X), i \in 1..Len(s), s[i] \in T
                 PROVE  Append(v, s[i]) \in Seq(X)
      OBVIOUS
    <2>1. s[i] \in X
      OBVIOUS
    <2> QED  BY <2>1, AppendProperties
  <1>3. Len(s) \in Nat /\ << >> \in Seq(X)
    BY EmptySeq
  <1>4. PICK g \in [0..Len(s) -> Seq(X)] :
           g[0] = << >> /\ \A i \in 1..Len(s) : g[i] = st[i][g[i - 1]]
    <2> DEFINE V == Seq(X)
               b == << >>
               n == Len(s)
    <2>1. n \in Nat /\ b \in V /\ st \in [Nat -> [V -> V]]
      BY <1>2, <1>3
    <2> HIDE DEF st, V, b, n
    <2>2. \E g : ByRecursion(g, n, V, b, st)
      BY <2>1, RecursionExists, Zenon
    <2> QED  BY <2>2 DEF V, b, n, ByRecursion
  <1>5. \A i \in 1..Len(s) : g[i] = IF s[i] \in T THEN Append(g[i - 1], s[i]) ELSE g[i - 1]
    <2> SUFFICES ASSUME NEW i \in 1..Len(s)
                 PROVE  g[i] = IF s[i] \in T THEN Append(g[i - 1], s[i]) ELSE g[i - 1]
      OBVIOUS
    <2>1. i \in Nat /\ i - 1 \in 0..Len(s)
      BY <1>3
    <2>2. g[i - 1] \in Seq(X)
      BY <2>1
    <2> QED  BY <1>4, <2>1, <2>2
  <1>6. Eq(g)
    <2>1. \A i \in 0..Len(s) : i = 0 \/ i \in 1..Len(s)
      BY <1>3
    <2>2. \A i \in 0..Len(s) : g[i] = IF i = 0 THEN << >>
                              ELSE IF s[i] \in T THEN Append(g[i - 1], s[i]) ELSE g[i - 1]
      BY <1>4, <1>5, <2>1
    <2> QED  BY <2>2
  <1>7. Eq(kept)
    <2>1. kept = CHOOSE h : Eq(h)
      OBVIOUS
    <2> HIDE DEF Eq, kept
    <2> QED  BY <1>6, <2>1
  <1> HIDE DEF kept
  <1>8. kept[0] = << >>
    BY <1>3, <1>7
  <1>9. \A i \in 1..Len(s) :
           kept[i] = IF s[i] \in T THEN Append(kept[i - 1], s[i]) ELSE kept[i - 1]
    <2>1. \A i \in 1..Len(s) : i # 0 /\ i \in 0..Len(s)
      BY <1>3
    <2> QED  BY <1>7, <2>1
  <1>10. kept \in [0..Len(s) -> Seq(X)]
    <2> DEFINE S == {i \in 0..Len(s) : kept[i] \in Seq(X)}
    <2>1. 0 \in S
      <3>1. 0 \in 0..Len(s) /\ kept[0] \in Seq(X)
        BY <1>3, <1>8
      <3> QED  BY <3>1
    <2>2. ASSUME NEW i \in 0..(Len(s) - 1), i \in S PROVE i + 1 \in S
      <3>1. i + 1 \in 1..Len(s) /\ (i + 1) - 1 = i
        BY <1>3
      <3>2. kept[i + 1] = IF s[i + 1] \in T THEN Append(kept[i], s[i + 1]) ELSE kept[i]
        BY <1>9, <3>1
      <3>3. s[i + 1] \in X /\ kept[i] \in Seq(X)
        BY <2>2, <3>1
      <3>4. Append(kept[i], s[i + 1]) \in Seq(X)
        BY <3>3, AppendProperties
      <3>5. kept[i + 1] \in Seq(X)
        BY <3>2, <3>3, <3>4
      <3>6. i + 1 \in 0..Len(s)
        BY <1>3
      <3> QED  BY <3>5, <3>6
    <2> HIDE DEF S
    <2>3. 0..Len(s) \subseteq S
      BY <1>3, <2>1, <2>2, IntervalInduction
    <2>4. \A i \in 0..Len(s) : kept[i] \in Seq(X)
      BY <2>3 DEF S
    <2>5. DOMAIN kept = 0..Len(s) /\ kept = [i \in 0..Len(s) |-> kept[i]]
      BY <1>7
    <2> QED  BY <2>4, <2>5
  <1>11. KeptBy(kept, X, s, T)
    BY <1>1, <1>8, <1>9, <1>10 DEF KeptBy
  <1> QED  BY <1>11, Zenon

\* Keep(s, T) has the entries of s that are in T, and none twice if s has none.
LEMMA KeepFacts ==
    ASSUME NEW X, NEW s \in Seq(X), IsInjective(s), NEW T
    PROVE  /\ Keep(s, T) \in Seq(X)
           /\ IsInjective(Keep(s, T))
           /\ ToSet(Keep(s, T)) = ToSet(s) \cap T
  <1>0. PICK g : KeptBy(g, X, s, T)
    BY KeepRecursion
  <1>1. /\ g \in [0..Len(s) -> Seq(X)]
        /\ Keep(s, T) = g[Len(s)]
        /\ g[0] = << >>
        /\ \A i \in 1..Len(s) :
              g[i] = IF s[i] \in T THEN Append(g[i - 1], s[i]) ELSE g[i - 1]
    BY <1>0 DEF KeptBy
  <1>2. Len(s) \in Nat
    OBVIOUS
  <1> DEFINE A(i) == \A k \in 1..Len(g[i]) : \E j \in 1..i : s[j] \in T /\ g[i][k] = s[j]
             B(i) == \A j \in 1..i : s[j] \in T => \E k \in 1..Len(g[i]) : g[i][k] = s[j]
             C(i) == \A k, m \in 1..Len(g[i]) : g[i][k] = g[i][m] => k = m
             S == {i \in 0..Len(s) : A(i) /\ B(i) /\ C(i)}
  <1>3. 0 \in S
    BY <1>1, <1>2
  <1>4. ASSUME NEW i \in 0..(Len(s) - 1), i \in S PROVE i + 1 \in S
    <2>1. i + 1 \in 1..Len(s) /\ i + 1 \in 0..Len(s) /\ (i + 1) - 1 = i /\ i \in 0..Len(s)
      BY <1>2
    <2>2. g[i + 1] = IF s[i + 1] \in T THEN Append(g[i], s[i + 1]) ELSE g[i]
      BY <1>1, <2>1
    <2>3. g[i] \in Seq(X) /\ Len(g[i]) \in Nat /\ s[i + 1] \in X
      BY <1>1, <2>1
    <2>6. A(i) /\ B(i) /\ C(i)
      <3> HIDE DEF A, B, C
      <3> QED  BY <1>4
    <2>4. CASE s[i + 1] \notin T
      <3>1. g[i + 1] = g[i]
        BY <2>2, <2>4
      <3>2. \A j \in 1..(i + 1) : j \in 1..i \/ j = i + 1
        OBVIOUS
      <3>3. \A j \in 1..i : j \in 1..(i + 1)
        OBVIOUS
      <3>4. A(i + 1)
        BY <2>6, <3>1, <3>3
      <3>5. B(i + 1)
        BY <2>6, <2>4, <3>1, <3>2
      <3>6. C(i + 1)
        BY <2>6, <3>1
      <3> HIDE DEF A, B, C
      <3> QED  BY <2>1, <3>4, <3>5, <3>6
    <2>5. CASE s[i + 1] \in T
      <3> DEFINE h == g[i + 1]
                 n == Len(g[i])
      <3>1. /\ Len(h) = n + 1
            /\ \A k \in 1..n : h[k] = g[i][k]
            /\ h[n + 1] = s[i + 1]
        BY <2>2, <2>3, <2>5, AppendProperties
      <3> HIDE DEF h
      <3>2. \A k \in 1..Len(h) : k \in 1..n \/ k = n + 1
        BY <2>3, <3>1
      <3>3. n + 1 \in 1..Len(h) /\ \A k \in 1..n : k \in 1..Len(h)
        BY <2>3, <3>1
      <3>4. \A j \in 1..(i + 1) : j \in 1..i \/ j = i + 1
        OBVIOUS
      <3>5. i + 1 \in 1..(i + 1) /\ \A j \in 1..i : j \in 1..(i + 1)
        OBVIOUS
      <3>6. \A k \in 1..Len(h) : \E j \in 1..(i + 1) : s[j] \in T /\ h[k] = s[j]
        <4> SUFFICES ASSUME NEW k \in 1..Len(h)
                     PROVE  \E j \in 1..(i + 1) : s[j] \in T /\ h[k] = s[j]
          OBVIOUS
        <4>1. CASE k \in 1..n
          <5>1. PICK j \in 1..i : s[j] \in T /\ g[i][k] = s[j]
            BY <2>6, <4>1
          <5> QED  BY <3>1, <3>5, <4>1, <5>1
        <4>2. CASE k = n + 1
          BY <2>5, <3>1, <3>5, <4>2
        <4> QED  BY <3>2, <4>1, <4>2
      <3>7. \A j \in 1..(i + 1) : s[j] \in T => \E k \in 1..Len(h) : h[k] = s[j]
        BY <2>6, <3>1, <3>3, <3>4
      <3>8. \A k \in 1..n : h[k] # s[i + 1]
        <4> SUFFICES ASSUME NEW k \in 1..n, h[k] = s[i + 1] PROVE FALSE
          OBVIOUS
        <4>1. PICK j \in 1..i : g[i][k] = s[j]
          BY <2>6
        <4>2. j \in DOMAIN s /\ i + 1 \in DOMAIN s /\ j # i + 1
          BY <1>2
        <4> QED  BY <3>1, <4>1, <4>2 DEF IsInjective
      <3>9. \A k, m \in 1..Len(h) : h[k] = h[m] => k = m
        <4> HIDE DEF n
        <4>1. \A k, m \in 1..n : h[k] = h[m] => k = m
          BY <2>6, <3>1 DEF n
        <4> QED  BY <3>1, <3>2, <3>8, <4>1
      <3>10. A(i + 1) /\ B(i + 1) /\ C(i + 1)
        BY <3>6, <3>7, <3>9 DEF h
      <3> HIDE DEF A, B, C
      <3> QED  BY <2>1, <3>10
    <2> QED  BY <2>4, <2>5
  <1> HIDE DEF S
  <1>5. 0..Len(s) \subseteq S
    BY <1>2, <1>3, <1>4, IntervalInduction
  <1>6. A(Len(s)) /\ B(Len(s)) /\ C(Len(s))
    <2>1. Len(s) \in 0..Len(s)
      BY <1>2
    <2> HIDE DEF A, B, C
    <2> QED  BY <2>1, <1>5 DEF S
  <1>7. Keep(s, T) \in Seq(X) /\ DOMAIN Keep(s, T) = 1..Len(Keep(s, T)) /\ DOMAIN s = 1..Len(s)
    BY <1>1, <1>2
  <1>8. IsInjective(Keep(s, T))
    BY <1>1, <1>6, <1>7 DEF IsInjective
  <1>9. ToSet(Keep(s, T)) = ToSet(s) \cap T
    <2> DEFINE h == Keep(s, T)
    <2>1. h = g[Len(s)]
      BY <1>1
    <2> HIDE DEF h
    <2>2. \A k \in 1..Len(h) : \E j \in 1..Len(s) : s[j] \in T /\ h[k] = s[j]
      BY <1>6, <2>1
    <2>3. \A j \in 1..Len(s) : s[j] \in T => \E k \in 1..Len(h) : h[k] = s[j]
      BY <1>6, <2>1
    <2>4. DOMAIN h = 1..Len(h)
      BY <1>7 DEF h
    <2>5. ToSet(h) \subseteq ToSet(s) \cap T
      BY <1>7, <2>2, <2>4 DEF ToSet
    <2>6. ToSet(s) \cap T \subseteq ToSet(h)
      BY <1>7, <2>3, <2>4 DEF ToSet
    <2> QED  BY <2>5, <2>6 DEF h
  <1> QED  BY <1>7, <1>8, <1>9

-----------------------------------------------------------------------------
(* The event loop.                                                         *)

\* A timer that blocks the loop was found while an entry was served.
Blocked == reading # NULL => left # << >>

LoopInv == TypeOK /\ OneShot /\ Blocked

\* A new entry of the ready list.
LEMMA EnlistFacts ==
    ASSUME NEW X, ready \in Seq(X), IsInjective(ready), NEW s \in X
    PROVE  /\ Enlist(s) \in Seq(X)
           /\ IsInjective(Enlist(s))
           /\ ToSet(Enlist(s)) = ToSet(ready) \cup {s}
  <1>1. CASE s \in ToSet(ready)
    BY <1>1 DEF Enlist
  <1>2. CASE s \notin ToSet(ready)
    <2> DEFINE h == Append(ready, s)
    <2>1. /\ h \in Seq(X) /\ Len(h) = Len(ready) + 1 /\ Len(ready) \in Nat
          /\ \A i \in 1..Len(ready) : h[i] = ready[i]
          /\ h[Len(ready) + 1] = s
          /\ DOMAIN h = 1..Len(h) /\ DOMAIN ready = 1..Len(ready)
      BY AppendProperties
    <2>2. \A i \in 1..Len(h) : i \in 1..Len(ready) \/ i = Len(ready) + 1
      BY <2>1
    <2>3. Len(ready) + 1 \in 1..Len(h) /\ \A i \in 1..Len(ready) : i \in 1..Len(h)
      BY <2>1
    <2> HIDE DEF h
    <2>4. \A i \in 1..Len(ready) : h[i] # s
      BY <1>2, <2>1 DEF ToSet
    <2>5. IsInjective(h)
      BY <2>1, <2>2, <2>4 DEF IsInjective
    <2>6. ToSet(h) = ToSet(ready) \cup {s}
      BY <2>1, <2>2, <2>3 DEF ToSet
    <2> QED  BY <1>2, <2>1, <2>5, <2>6 DEF h, Enlist
  <1> QED  BY <1>1, <1>2

\* An entry leaves the batch.
LEMMA TailFacts ==
    ASSUME NEW X, NEW s \in Seq(X), s # << >>,
           \A i, j \in DOMAIN s : i # j => s[i] # s[j]
    PROVE  /\ Tail(s) \in Seq(X)
           /\ Len(Tail(s)) = Len(s) - 1
           /\ Head(s) \in X /\ Head(s) \in ToSet(s)
           /\ ToSet(Tail(s)) = ToSet(s) \ {Head(s)}
           /\ \A i, j \in DOMAIN Tail(s) : i # j => Tail(s)[i] # Tail(s)[j]
  <1> DEFINE t == Tail(s)
  <1>1. Len(s) \in Nat /\ Len(s) # 0 /\ DOMAIN s = 1..Len(s)
    BY EmptySeq
  <1>2. /\ t \in Seq(X) /\ Len(t) = Len(s) - 1 /\ Head(s) = s[1] /\ Head(s) \in X
        /\ \A i \in 1..Len(t) : t[i] = s[i + 1]
        /\ DOMAIN t = 1..Len(t)
    BY HeadTailProperties
  <1> HIDE DEF t
  <1>3. 1 \in DOMAIN s /\ \A i \in DOMAIN t : i + 1 \in DOMAIN s /\ i + 1 # 1 /\ t[i] = s[i + 1]
    BY <1>1, <1>2
  <1>4. \A i \in DOMAIN s : i = 1 \/ (i - 1 \in DOMAIN t /\ (i - 1) + 1 = i)
    BY <1>1, <1>2
  <1>5. \A i, j \in DOMAIN t : i # j => t[i] # t[j]
    <2> SUFFICES ASSUME NEW i \in DOMAIN t, NEW j \in DOMAIN t, i # j PROVE t[i] # t[j]
      OBVIOUS
    <2>1. i + 1 # j + 1
      BY <1>2
    <2> QED  BY <1>3, <2>1
  <1>6. ToSet(t) = ToSet(s) \ {s[1]}
    <2>1. ToSet(t) \subseteq ToSet(s) \ {s[1]}
      BY <1>3 DEF ToSet
    <2>2. ToSet(s) \ {s[1]} \subseteq ToSet(t)
      <3> SUFFICES ASSUME NEW i \in DOMAIN s, s[i] # s[1] PROVE s[i] \in ToSet(t)
        BY DEF ToSet
      <3>1. i - 1 \in DOMAIN t /\ s[i] = t[i - 1]
        BY <1>3, <1>4
      <3> QED  BY <3>1 DEF ToSet
    <2> QED  BY <2>1, <2>2
  <1>7. s[1] \in ToSet(s)
    BY <1>3 DEF ToSet
  <1> QED  BY <1>2, <1>5, <1>6, <1>7 DEF t

\* The batch and what is left of the ready list.
LEMMA SplitFacts ==
    ASSUME NEW X, NEW s \in Seq(X), IsInjective(s), NEW n \in 0..Len(s)
    PROVE  /\ SubSeq(s, 1, n) \in Seq(X) /\ Len(SubSeq(s, 1, n)) = n
           /\ IsInjective(SubSeq(s, 1, n))
           /\ SubSeq(s, n + 1, Len(s)) \in Seq(X)
           /\ IsInjective(SubSeq(s, n + 1, Len(s)))
           /\ ToSet(SubSeq(s, 1, n)) \cap ToSet(SubSeq(s, n + 1, Len(s))) = {}
           /\ ToSet(SubSeq(s, 1, n)) \cup ToSet(SubSeq(s, n + 1, Len(s))) \subseteq ToSet(s)
  <1> DEFINE a == SubSeq(s, 1, n)
             b == SubSeq(s, n + 1, Len(s))
  <1>1. Len(s) \in Nat /\ n \in Nat /\ n <= Len(s) /\ DOMAIN s = 1..Len(s)
    OBVIOUS
  <1>2. /\ a \in Seq(X) /\ Len(a) = n /\ DOMAIN a = 1..n
        /\ \A i \in 1..n : a[i] = s[i]
    <2>1. \A i \in 1..n : s[i] \in X
      BY <1>1
    <2>2. /\ a \in Seq(X)
          /\ Len(a) = IF 1 <= n THEN n - 1 + 1 ELSE 0
          /\ \A i \in 1..(n - 1 + 1) : a[i] = s[1 + i - 1]
      BY <1>1, <2>1, SubSeqProperties
    <2>3. Len(a) = n /\ DOMAIN a = 1..Len(a)
      BY <1>1, <2>2
    <2>4. n - 1 + 1 = n /\ \A i \in 1..n : 1 + i - 1 = i
      BY <1>1
    <2> QED  BY <2>2, <2>3, <2>4
  <1>3. /\ b \in Seq(X) /\ DOMAIN b = 1..(Len(s) - n)
        /\ \A i \in 1..(Len(s) - n) : b[i] = s[n + i]
    <2>1. \A i \in (n + 1)..Len(s) : s[i] \in X
      BY <1>1
    <2>2. /\ b \in Seq(X)
          /\ Len(b) = IF n + 1 <= Len(s) THEN Len(s) - (n + 1) + 1 ELSE 0
          /\ \A i \in 1..(Len(s) - (n + 1) + 1) : b[i] = s[n + 1 + i - 1]
      BY <1>1, <2>1, SubSeqProperties
    <2>3. Len(b) = Len(s) - n /\ DOMAIN b = 1..Len(b)
      <3>1. \A i, j \in Nat : i <= j =>
                (IF i + 1 <= j THEN j - (i + 1) + 1 ELSE 0) = j - i
        OBVIOUS
      <3>2. DOMAIN b = 1..Len(b)
        BY <2>2
      <3> QED  BY <1>1, <2>2, <3>1, <3>2
    <2>4. Len(s) - (n + 1) + 1 = Len(s) - n /\ \A i \in 1..(Len(s) - n) : n + 1 + i - 1 = n + i
      BY <1>1
    <2> QED  BY <2>2, <2>3, <2>4
  <1> HIDE DEF a, b
  <1>4. \A i \in DOMAIN a : i \in DOMAIN s
    BY <1>1, <1>2
  <1>5. \A i \in DOMAIN b : n + i \in DOMAIN s /\ b[i] = s[n + i]
    BY <1>1, <1>3
  <1>6. IsInjective(a)
    BY <1>2, <1>4 DEF IsInjective
  <1>7. IsInjective(b)
    <2> SUFFICES ASSUME NEW i \in DOMAIN b, NEW j \in DOMAIN b, b[i] = b[j] PROVE i = j
      BY DEF IsInjective
    <2>1. n + i = n + j
      BY <1>5 DEF IsInjective
    <2> QED  BY <1>1, <1>3, <2>1
  <1>8. ToSet(a) \cap ToSet(b) = {}
    <2> SUFFICES ASSUME NEW i \in DOMAIN a, NEW j \in DOMAIN b, a[i] = b[j] PROVE FALSE
      BY DEF ToSet
    <2>1. i = n + j
      BY <1>2, <1>4, <1>5 DEF IsInjective
    <2> QED  BY <1>1, <1>2, <1>3, <2>1
  <1>9. ToSet(a) \subseteq ToSet(s)
    BY <1>2, <1>4 DEF ToSet
  <1>10. ToSet(b) \subseteq ToSet(s)
    BY <1>5 DEF ToSet
  <1> QED  BY <1>2, <1>3, <1>6, <1>7, <1>8, <1>9, <1>10 DEF a, b

\* Two lists without a common entry, one behind the other.
LEMMA JoinFacts ==
    ASSUME NEW X, NEW a \in Seq(X), NEW b \in Seq(X),
           IsInjective(a), IsInjective(b), ToSet(a) \cap ToSet(b) = {}
    PROVE  /\ a \o b \in Seq(X)
           /\ IsInjective(a \o b)
           /\ ToSet(a \o b) = ToSet(a) \cup ToSet(b)
  <1> DEFINE c == a \o b
             m == Len(a)
             n == Len(b)
  <1>1. /\ m \in Nat /\ n \in Nat /\ c \in Seq(X) /\ Len(c) = m + n
        /\ DOMAIN a = 1..m /\ DOMAIN b = 1..n /\ DOMAIN c = 1..(m + n)
        /\ \A i \in 1..(m + n) : c[i] = IF i <= m THEN a[i] ELSE b[i - m]
    BY ConcatProperties
  <1> HIDE DEF c, m, n
  <1>2. \A i \in DOMAIN c : \/ i \in DOMAIN a /\ c[i] = a[i]
                            \/ i - m \in DOMAIN b /\ c[i] = b[i - m] /\ i = m + (i - m)
    BY <1>1
  <1>3. \A i \in DOMAIN a : i \in DOMAIN c /\ c[i] = a[i]
    BY <1>1
  <1>4. \A i \in DOMAIN b : m + i \in DOMAIN c /\ c[m + i] = b[i]
    <2> SUFFICES ASSUME NEW i \in DOMAIN b PROVE m + i \in DOMAIN c /\ c[m + i] = b[i]
      OBVIOUS
    <2>1. m + i \in 1..(m + n) /\ ~(m + i <= m) /\ (m + i) - m = i
      BY <1>1
    <2> QED  BY <1>1, <2>1
  <1>5. IsInjective(c)
    <2> SUFFICES ASSUME NEW i \in DOMAIN c, NEW j \in DOMAIN c, c[i] = c[j] PROVE i = j
      BY DEF IsInjective
    <2>1. CASE i \in DOMAIN a /\ c[i] = a[i]
      <3>1. ~(j - m \in DOMAIN b /\ c[j] = b[j - m])
        BY <2>1 DEF ToSet
      <3>2. j \in DOMAIN a /\ c[j] = a[j]
        BY <1>2, <3>1
      <3> QED  BY <2>1, <3>2 DEF IsInjective
    <2>2. CASE i - m \in DOMAIN b /\ c[i] = b[i - m] /\ i = m + (i - m)
      <3>1. ~(j \in DOMAIN a /\ c[j] = a[j])
        BY <2>2 DEF ToSet
      <3>2. j - m \in DOMAIN b /\ c[j] = b[j - m] /\ j = m + (j - m)
        BY <1>2, <3>1
      <3>3. i - m = j - m
        BY <2>2, <3>2 DEF IsInjective
      <3> QED  BY <2>2, <3>2, <3>3
    <2> QED  BY <1>2, <2>1, <2>2
  <1>6. ToSet(c) \subseteq ToSet(a) \cup ToSet(b)
    BY <1>2 DEF ToSet
  <1>7. ToSet(a) \cup ToSet(b) \subseteq ToSet(c)
    BY <1>3, <1>4 DEF ToSet
  <1> QED  BY <1>1, <1>5, <1>6, <1>7 DEF c

\* Each step of the program keeps the event loop's invariant.
LEMMA LoopStep ==
    ASSUME LoopInv, [ServerNext]_servervars
    PROVE  LoopInv'
  <1> DEFINE X == Conns \cup Timers
  <1>0. /\ TypeOK /\ OneShot /\ Blocked
        /\ ready \in Seq(X) /\ IsInjective(ready)
        /\ left \in Seq(X) /\ Len(left) \in Nat /\ Len(left) <= MaxEvents
        /\ \A i, j \in DOMAIN left : i # j => left[i] # left[j]
    BY DEF LoopInv, TypeOK, OneShot
  <1>1. CASE UNCHANGED vars
    BY <1>1, <1>0 DEF LoopInv, TypeOK, OneShot, Blocked, vars
  <1>2. ASSUME NEW c \in Conns, Arrive(c) PROVE LoopInv'
    <2>1. /\ ready' \in Seq(X) /\ IsInjective(ready') /\ ToSet(ready') = ToSet(ready) \cup {c}
      BY <1>0, <1>2, EnlistFacts DEF Arrive
    <2>2. broken' \subseteq Conns /\ c \in armed
      BY <1>0, <1>2 DEF Arrive, TypeOK
    <2>3. UNCHANGED <<up, armed, expired, events, left, reading, called>>
      BY <1>2 DEF Arrive
    <2> QED  BY <1>0, <2>1, <2>2, <2>3 DEF LoopInv, TypeOK, OneShot, Blocked
  <1>3. ASSUME NEW t \in Timers, Expire(t) PROVE LoopInv'
    <2>1. /\ ready' \in Seq(X) /\ IsInjective(ready') /\ ToSet(ready') = ToSet(ready) \cup {t}
      BY <1>0, <1>3, EnlistFacts DEF Expire
    <2>2. expired' \subseteq Timers /\ t \notin Conns
      BY <1>0, <1>3, KindsAssumption DEF Expire, TypeOK
    <2>3. UNCHANGED <<up, armed, broken, events, left, reading, called>>
      BY <1>3 DEF Expire
    <2> QED  BY <1>0, <2>1, <2>2, <2>3 DEF LoopInv, TypeOK, OneShot, Blocked
  <1>4. CASE epoll_wait
    <2> DEFINE n == IF Len(ready) < MaxEvents THEN Len(ready) ELSE MaxEvents
               batch == SubSeq(ready, 1, n)
               later == SubSeq(ready, n + 1, Len(ready))
               again == Keep(batch, Timers)
    <2>1. n \in 0..Len(ready) /\ n \in Nat /\ n <= MaxEvents
      BY <1>0, MaxEventsAssumption
    <2>2. /\ reading = NULL
          /\ events' = [i \in 1..MaxEvents |-> IF i <= n THEN batch[i] ELSE events[i]]
          /\ left' = batch
          /\ ready' = later \o again
          /\ armed' = armed \ ToSet(batch)
          /\ UNCHANGED <<up, broken, expired, reading, called>>
      BY <1>4 DEF epoll_wait
    <2> HIDE DEF n
    <2>3. /\ batch \in Seq(X) /\ Len(batch) = n /\ IsInjective(batch)
          /\ later \in Seq(X) /\ IsInjective(later)
          /\ ToSet(batch) \cap ToSet(later) = {}
          /\ ToSet(batch) \cup ToSet(later) \subseteq ToSet(ready)
      BY <1>0, <2>1, SplitFacts
    <2> HIDE DEF batch, later
    <2>4. /\ again \in Seq(X) /\ IsInjective(again)
          /\ ToSet(again) = ToSet(batch) \cap Timers
      BY <2>3, KeepFacts
    <2> HIDE DEF again
    <2>5. /\ ready' \in Seq(X) /\ IsInjective(ready')
          /\ ToSet(ready') = ToSet(later) \cup ToSet(again)
      BY <2>2, <2>3, <2>4, JoinFacts
    <2>6. events' \in [1..MaxEvents -> X \cup {NULL}]
      <3>1. \A i \in 1..MaxEvents : i <= n => batch[i] \in X
        BY <2>1, <2>3
      <3> QED  BY <1>0, <2>2, <3>1 DEF TypeOK
    <2>7. TypeOK'
      BY <1>0, <2>1, <2>2, <2>3, <2>5, <2>6 DEF TypeOK
    <2>8. OneShot'
      <3>1. \A c \in Conns : c \in ToSet(ready') => c \in armed'
        BY <1>0, <2>2, <2>3, <2>4, <2>5, KindsAssumption DEF OneShot
      <3>2. \A c \in Conns : c \in ToSet(left') => c \notin armed'
        BY <2>2
      <3>3. \A i, j \in DOMAIN left' : i # j => left'[i] # left'[j]
        BY <2>2, <2>3 DEF IsInjective
      <3> QED  BY <3>1, <3>2, <3>3 DEF OneShot
    <2> QED  BY <2>2, <2>7, <2>8 DEF LoopInv, Blocked
  <1>5. CASE evloop_error
    <2>1. /\ left # << >> /\ left' = Tail(left) /\ reading = NULL
          /\ UNCHANGED <<up, armed, broken, ready, expired, events, reading, called>>
      BY <1>5 DEF evloop_error, Serving
    <2>2. /\ left' \in Seq(X) /\ Len(left') = Len(left) - 1
          /\ ToSet(left') \subseteq ToSet(left)
          /\ \A i, j \in DOMAIN left' : i # j => left'[i] # left'[j]
      BY <1>0, <2>1, TailFacts
    <2> QED  BY <1>0, <2>1, <2>2, MaxEventsAssumption DEF LoopInv, TypeOK, OneShot, Blocked
  <1>6. CASE evloop_task
    <2>1. /\ left # << >>
          /\ UNCHANGED <<up, armed, broken, ready, expired, events, left, called>>
      BY <1>6 DEF evloop_task, Serving
    <2>2. reading' \in Timers
      <3>1. PICK k \in task_at(events) : reading' = Periodic[k]
        BY <1>6 DEF evloop_task
      <3>2. k \in 1..Len(Periodic)
        BY <3>1 DEF task_at
      <3> QED  BY <3>1, <3>2, TasksAssumption
    <2> QED  BY <1>0, <2>1, <2>2 DEF LoopInv, TypeOK, OneShot, Blocked
  <1>7. CASE evloop_task_run
    <2>1. /\ reading # NULL /\ left' = Tail(left) /\ reading' = NULL /\ called' = reading
          /\ expired' = expired \ {reading}
          /\ ready' = Keep(ready, X \ {reading})
          /\ UNCHANGED <<up, armed, broken, events>>
      BY <1>7 DEF evloop_task_run
    <2>2. left # << >>
      BY <1>0, <2>1 DEF Blocked
    <2>3. /\ left' \in Seq(X) /\ Len(left') = Len(left) - 1
          /\ ToSet(left') \subseteq ToSet(left)
          /\ \A i, j \in DOMAIN left' : i # j => left'[i] # left'[j]
      BY <1>0, <2>1, <2>2, TailFacts
    <2>4. /\ ready' \in Seq(X) /\ IsInjective(ready') /\ ToSet(ready') \subseteq ToSet(ready)
      <3> DEFINE T == X \ {reading}
      <3> HIDE DEF T
      <3>1. /\ Keep(ready, T) \in Seq(X) /\ IsInjective(Keep(ready, T))
            /\ ToSet(Keep(ready, T)) = ToSet(ready) \cap T
        BY <1>0, KeepFacts
      <3> QED  BY <2>1, <3>1 DEF T
    <2>5. Len(left') <= MaxEvents
      BY <1>0, <2>3, MaxEventsAssumption
    <2>6. reading \in Timers /\ expired' \subseteq Timers
      BY <1>0, <2>1 DEF TypeOK
    <2>7. TypeOK'
      BY <1>0, <2>1, <2>3, <2>4, <2>5, <2>6 DEF TypeOK
    <2>8. OneShot'
      BY <1>0, <2>1, <2>3, <2>4 DEF OneShot
    <2> QED  BY <2>1, <2>7, <2>8 DEF LoopInv, Blocked
  <1>8. CASE evloop_call
    <2>1. /\ left # << >> /\ left' = Tail(left) /\ reading = NULL
          /\ called' = Head(left) /\ Head(left) \in Conns
          /\ armed' = armed \cup {Head(left)} \/ armed' = armed
          /\ UNCHANGED <<up, broken, ready, expired, events, reading>>
      BY <1>8 DEF evloop_call, Serving
    <2>2. /\ left' \in Seq(X) /\ Len(left') = Len(left) - 1
          /\ ToSet(left') = ToSet(left) \ {Head(left)}
          /\ \A i, j \in DOMAIN left' : i # j => left'[i] # left'[j]
      BY <1>0, <2>1, TailFacts
    <2>3. TypeOK'
      BY <1>0, <2>1, <2>2, MaxEventsAssumption DEF TypeOK
    <2>4. OneShot'
      BY <1>0, <2>1, <2>2 DEF OneShot
    <2> QED  BY <2>1, <2>3, <2>4 DEF LoopInv, Blocked
  <1>9. CASE evloop_wild_call \/ evloop_exit
    <2>1. up' = FALSE /\ UNCHANGED <<armed, broken, ready, expired, events, left, reading, called>>
      BY <1>9 DEF evloop_wild_call, evloop_exit
    <2> QED  BY <1>0, <2>1 DEF LoopInv, TypeOK, OneShot, Blocked
  <1> QED
    BY <1>1, <1>2, <1>3, <1>4, <1>5, <1>6, <1>7, <1>8, <1>9
    DEF ServerNext, Running, stats_expire, Loop, servervars

\* The invariant of the event loop holds throughout.
LEMMA LoopInductive == ServerSpec => []LoopInv
  <1>1. ServerInit => LoopInv
    <2> SUFFICES ASSUME ServerInit PROVE LoopInv
      OBVIOUS
    <2>1. /\ ready \in Seq(Conns \cup Timers) /\ left \in Seq(Conns \cup Timers)
          /\ Len(left) = 0 /\ DOMAIN ready = {} /\ DOMAIN left = {}
      BY EmptySeq DEF ServerInit, Init
    <2>2. Len(left) <= MaxEvents
      BY <2>1, MaxEventsAssumption
    <2>3. ToSet(ready) = {} /\ ToSet(left) = {} /\ IsInjective(ready)
      BY <2>1 DEF ToSet, IsInjective
    <2>4. TypeOK
      BY <2>1, <2>2, <2>3 DEF ServerInit, Init, TypeOK
    <2> QED  BY <2>1, <2>3, <2>4 DEF ServerInit, Init, LoopInv, OneShot, Blocked
  <1> QED  BY <1>1, LoopStep, PTL DEF ServerSpec

\* The event loop keeps its types: in particular no entry is twice in the ready list,
\* and no batch is larger than el->events.
THEOREM LoopTypes == ServerSpec => []TypeOK
  BY LoopInductive, PTL DEF LoopInv

\* A connection in the batch is disarmed until its own callback arms it, and is in
\* the batch once, for any number of connections, timers and entries of a batch.
THEOREM LoopOneShot == ServerSpec => []OneShot
  BY LoopInductive, PTL DEF LoopInv

-----------------------------------------------------------------------------
(* What start-up makes of the options and the file.                        *)

Fields == {"loglevel", "logpath", "socket_family", "hostname", "port", "max_memory",
           "max_request_size", "tcp_backlog", "stats_pub_interval"}

\* The configuration c is as the word v about the i-th name would have it.
Reflects(c, i, v) ==
    /\ i = 2 => c.logpath = v.text
    /\ i = 3 => (c.socket_family = "UNIX" => c.hostname = v.text)
    /\ i = 4 => (c.socket_family = "INET" => c.hostname = v.text)
    /\ i = 5 => c.port = v.text
    /\ i = 6 => c.max_memory = read_memory_with_mul(v)
    /\ i = 7 => c.max_request_size = read_memory_with_mul(v)
    /\ i = 8 => c.tcp_backlog = capped(v.num) /\ v.num \in Int
    /\ i = 9 => c.stats_pub_interval = read_time_with_mul(v)

\* What the first n lines say on the log level, in the code's order of comparisons.
LevelBy(n) ==
    LET lines == {k \in 1..n : GivesLevel(FileLines[k])}
    IN  IF lines # {} THEN log_level(FileLines[Max(lines)].value.text, "WARNING")
        ELSE IF debug THEN "DEBUG" ELSE "WARNING"

\* Where start-up is with the options and the lines.
Startup ==
    /\ argv \in Seq([opt : STRING, arg : STRING])
    /\ optind \in 1..(Len(argv) + 1)
    /\ line \in 1..(Len(FileLines) + 1)
    /\ DOMAIN config = Fields
    /\ phase \in {"options", "usage"} => line = 1 /\ config.socket_family = "INET"
    /\ phase \notin {"options", "usage"} => optind = Len(argv) + 1
    /\ phase = "lines" => confpath \in DOMAIN Files
    /\ phase \notin {"options", "usage", "lines"} => line = Len(FileLines) + 1
    /\ phase # "usage" => \A k \in 1..(optind - 1) : argv[k].opt \in {"a", "p", "c", "v"}

\* The configuration reflects what was said so far.
Applied ==
    phase # "usage" =>
        \A i \in 2..9 : Reflects(config, i, SaidBy(optind - 1, line - 1, i, Default(i)))

\* So do the log level, which is set behind the options, and the family.
Chosen ==
    /\ phase # "usage" => (debug <=> \E k \in 1..(optind - 1) : argv[k].opt = "v")
    /\ phase \notin {"options", "usage"} => config.loglevel = LevelBy(line - 1)
    /\ phase # "usage" => config.socket_family = FamilySaidBy(line - 1)

ConfigInv == Startup /\ Applied /\ Chosen

\* A new number is the largest.
LEMMA MaxNew ==
    ASSUME NEW n \in Nat, NEW S, S \subseteq 1..n
    PROVE  Max(S \cup {n + 1}) = n + 1
  <1> DEFINE T == S \cup {n + 1}
  <1>1. \A y \in T : n + 1 >= y
    OBVIOUS
  <1>2. \A x \in T : (\A y \in T : x >= y) => x = n + 1
    OBVIOUS
  <1>3. n + 1 \in T
    OBVIOUS
  <1> HIDE DEF T
  <1>4. Max(T) = n + 1
    BY <1>1, <1>2, <1>3 DEF Max
  <1> QED  BY <1>4 DEF T

\* The largest number of a set up to n is one of its members.
LEMMA MaxMember ==
    ASSUME NEW n \in Nat, NEW S, S \subseteq 1..n, S # {}
    PROVE  Max(S) \in S
  <1> DEFINE T == {n - k : k \in S}
  <1>1. T \subseteq Nat /\ T # {}
    <2>1. ASSUME NEW k \in S PROVE n - k \in Nat
      <3>1. k \in 1..n
        OBVIOUS
      <3> QED  BY <3>1
    <2>2. \E k \in S : n - k \in T
      OBVIOUS
    <2> QED  BY <2>1, <2>2
  <1> HIDE DEF T
  <1>2. PICK m \in T : \A k \in T : m <= k
    <2>1. \E m \in T : \A k \in T : ~(k < m)
      BY <1>1, NatMin
    <2>2. \A k \in T : k \in Nat
      BY <1>1
    <2>3. \A m, k \in T : ~(k < m) => m <= k
      BY <2>2
    <2> QED  BY <2>1, <2>3, Zenon
  <1>3. PICK x \in S : m = n - x
    BY DEF T
  <1>4. ASSUME NEW y \in S PROVE x >= y
    <2>1. n - x <= n - y
      BY <1>2, <1>3 DEF T
    <2>2. x \in Int /\ y \in Int
      OBVIOUS
    <2> QED  BY <2>1, <2>2
  <1> QED  BY <1>4 DEF Max

\* One more line.
LEMMA NextLine ==
    ASSUME NEW m, NEW n \in Nat, NEW i, NEW d
    PROVE  SaidBy(m, n + 1, i, d) =
             IF About(FileLines[n + 1], i) THEN FileLines[n + 1].value ELSE SaidBy(m, n, i, d)
  <1> DEFINE S == {k \in 1..n : About(FileLines[k], i)}
             T == {k \in 1..(n + 1) : About(FileLines[k], i)}
  <1>1. CASE About(FileLines[n + 1], i)
    <2>1. T = S \cup {n + 1} /\ S \subseteq 1..n
      BY <1>1
    <2> HIDE DEF S, T
    <2>2. T # {} /\ Max(T) = n + 1
      BY <2>1, MaxNew
    <2> QED  BY <1>1, <2>2 DEF SaidBy, T
  <1>2. CASE ~About(FileLines[n + 1], i)
    <2>1. T = S
      BY <1>2
    <2> QED  BY <1>2, <2>1 DEF SaidBy
  <1> QED  BY <1>1, <1>2

\* One more option, before any line is read.
LEMMA NextOption ==
    ASSUME NEW m \in Nat, NEW i, NEW d
    PROVE  SaidBy(m + 1, 0, i, d) =
             IF argv[m + 1].opt = option(i) THEN Value(0, "", argv[m + 1].arg)
             ELSE SaidBy(m, 0, i, d)
  <1> DEFINE S == {k \in 1..m : argv[k].opt = option(i)}
             T == {k \in 1..(m + 1) : argv[k].opt = option(i)}
             L == {k \in 1..0 : About(FileLines[k], i)}
  <1>0. L = {}
    OBVIOUS
  <1>1. CASE argv[m + 1].opt = option(i)
    <2>1. T = S \cup {m + 1} /\ S \subseteq 1..m
      BY <1>1
    <2> HIDE DEF S, T
    <2>2. T # {} /\ Max(T) = m + 1
      BY <2>1, MaxNew
    <2> QED  BY <1>0, <1>1, <2>2 DEF SaidBy, T
  <1>2. CASE argv[m + 1].opt # option(i)
    <2>1. T = S
      BY <1>2
    <2> QED  BY <1>0, <1>2, <2>1 DEF SaidBy
  <1> QED  BY <1>1, <1>2

\* A line changes the setting that it is about and no other.
LEMMA AddReflects ==
    ASSUME NEW c, DOMAIN c = Fields, NEW l, l.key # << >>, l.value.num \in Int,
           NEW i \in 2..9, NEW w, Reflects(c, i, w)
    PROVE  Reflects(add_config_value(c, l.key, l.value), i,
                    IF About(l, i) THEN l.value ELSE w)
  <1> DEFINE is(j) == IsPrefix(l.key, names[j])
             v == l.value
             d == add_config_value(c, l.key, v)
  <1>0. About(l, i) <=> is(i) /\ \A j \in 1..(i - 1) : ~is(j)
    BY DEF About
  <1>2. CASE i = 2
    <2>1. About(l, i) <=> is(2) /\ ~is(1)
      BY <1>0, <1>2
    <2> QED  BY <1>2, <2>1 DEF Reflects, add_config_value, set_hostname, Fields
  <1>3. CASE i = 3
    <2>1. About(l, i) <=> is(3) /\ ~is(1) /\ ~is(2)
      BY <1>0, <1>3
    <2> QED  BY <1>3, <2>1 DEF Reflects, add_config_value, set_hostname, Fields
  <1>4. CASE i = 4
    <2>1. About(l, i) <=> is(4) /\ ~is(1) /\ ~is(2) /\ ~is(3)
      BY <1>0, <1>4
    <2> QED  BY <1>4, <2>1 DEF Reflects, add_config_value, set_hostname, Fields
  <1>5. CASE i = 5
    <2>1. About(l, i) <=> is(5) /\ ~is(1) /\ ~is(2) /\ ~is(3) /\ ~is(4)
      BY <1>0, <1>5
    <2> QED  BY <1>5, <2>1 DEF Reflects, add_config_value, set_hostname, Fields
  <1>6. CASE i = 6
    <2>1. About(l, i) <=> is(6) /\ ~is(1) /\ ~is(2) /\ ~is(3) /\ ~is(4) /\ ~is(5)
      BY <1>0, <1>6
    <2> QED  BY <1>6, <2>1 DEF Reflects, add_config_value, set_hostname, Fields
  <1>7. CASE i = 7
    <2>1. About(l, i) <=> is(7) /\ ~is(1) /\ ~is(2) /\ ~is(3) /\ ~is(4) /\ ~is(5) /\ ~is(6)
      BY <1>0, <1>7
    <2> QED  BY <1>7, <2>1 DEF Reflects, add_config_value, set_hostname, Fields
  <1>8. CASE i = 8
    <2>1. About(l, i) <=> is(8) /\ ~is(1) /\ ~is(2) /\ ~is(3) /\ ~is(4) /\ ~is(5) /\ ~is(6) /\ ~is(7)
      BY <1>0, <1>8
    <2> QED  BY <1>8, <2>1 DEF Reflects, add_config_value, set_hostname, Fields
  <1>9. CASE i = 9
    <2>1. About(l, i) <=> is(9) /\ ~is(1) /\ ~is(2) /\ ~is(3) /\ ~is(4) /\ ~is(5) /\ ~is(6) /\ ~is(7)
                              /\ ~is(8)
      BY <1>0, <1>9
    <2> QED  BY <1>9, <2>1 DEF Reflects, add_config_value, set_hostname, Fields
  <1> QED  BY <1>2, <1>3, <1>4, <1>5, <1>6, <1>7, <1>8, <1>9

\* A line changes the log level if it gives one, and the family if it is about one of
\* the two names that have one.
LEMMA AddChosen ==
    ASSUME NEW c, DOMAIN c = Fields, NEW l, l.key # << >>
    PROVE  /\ add_config_value(c, l.key, l.value).loglevel =
                 IF GivesLevel(l) THEN log_level(l.value.text, "WARNING") ELSE c.loglevel
           /\ add_config_value(c, l.key, l.value).socket_family =
                 IF About(l, 3) THEN "UNIX" ELSE IF About(l, 4) THEN "INET" ELSE c.socket_family
  <1> DEFINE is(j) == IsPrefix(l.key, names[j])
             d == add_config_value(c, l.key, l.value)
  <1>1. About(l, 1) <=> is(1)
    BY DEF About
  <1>2. About(l, 3) <=> is(3) /\ ~is(1) /\ ~is(2)
    <2>1. \A j \in 1..(3 - 1) : j = 1 \/ j = 2
      OBVIOUS
    <2> QED  BY <2>1 DEF About
  <1>3. About(l, 4) <=> is(4) /\ ~is(1) /\ ~is(2) /\ ~is(3)
    <2>1. \A j \in 1..(4 - 1) : j = 1 \/ j = 2 \/ j = 3
      OBVIOUS
    <2> QED  BY <2>1 DEF About
  <1>4. d.loglevel = IF is(1) THEN log_level(l.value.text, c.loglevel) ELSE c.loglevel
    BY DEF add_config_value, set_hostname, Fields
  <1>5. d.socket_family =
           IF is(3) /\ ~is(1) /\ ~is(2) THEN "UNIX"
           ELSE IF is(4) /\ ~is(1) /\ ~is(2) /\ ~is(3) THEN "INET" ELSE c.socket_family
    BY DEF add_config_value, set_hostname, Fields
  <1>6. (\E level \in Levels : l.value.text \in Beginnings[level]) =>
           log_level(l.value.text, c.loglevel) = log_level(l.value.text, "WARNING")
    BY DEF log_level, Levels
  <1>7. ~(\E level \in Levels : l.value.text \in Beginnings[level]) =>
           log_level(l.value.text, c.loglevel) = c.loglevel
    BY DEF log_level, Levels
  <1>8. d.loglevel = IF GivesLevel(l) THEN log_level(l.value.text, "WARNING") ELSE c.loglevel
    BY <1>1, <1>4, <1>6, <1>7 DEF GivesLevel
  <1> QED  BY <1>2, <1>3, <1>5, <1>8

\* One more line, for the level.
LEMMA NextLevel ==
    ASSUME NEW n \in Nat
    PROVE  LevelBy(n + 1) =
             IF GivesLevel(FileLines[n + 1])
             THEN log_level(FileLines[n + 1].value.text, "WARNING") ELSE LevelBy(n)
  <1> DEFINE S == {k \in 1..n : GivesLevel(FileLines[k])}
             T == {k \in 1..(n + 1) : GivesLevel(FileLines[k])}
  <1>1. CASE GivesLevel(FileLines[n + 1])
    <2>1. T = S \cup {n + 1} /\ S \subseteq 1..n
      BY <1>1
    <2> HIDE DEF S, T
    <2>2. T # {} /\ Max(T) = n + 1
      BY <2>1, MaxNew
    <2> QED  BY <1>1, <2>2 DEF LevelBy, T
  <1>2. CASE ~GivesLevel(FileLines[n + 1])
    <2>1. T = S
      BY <1>2
    <2> QED  BY <1>2, <2>1 DEF LevelBy
  <1> QED  BY <1>1, <1>2

\* One more line, for the family.
LEMMA NextFamily ==
    ASSUME NEW n \in Nat
    PROVE  FamilySaidBy(n + 1) =
             IF About(FileLines[n + 1], 3) THEN "UNIX"
             ELSE IF About(FileLines[n + 1], 4) THEN "INET" ELSE FamilySaidBy(n)
  <1> DEFINE A(k) == About(FileLines[k], 3)
             B(k) == About(FileLines[k], 4)
             F(m) == \E k \in 1..m : A(k) /\ \A j \in (k + 1)..m : ~B(j)
  <1>0. \A m : FamilySaidBy(m) = IF F(m) THEN "UNIX" ELSE "INET"
    BY DEF FamilySaidBy
  <1> HIDE DEF A, B
  <1>1. ASSUME A(n + 1) PROVE F(n + 1)
    <2>1. n + 1 \in 1..(n + 1) /\ \A j \in ((n + 1) + 1)..(n + 1) : FALSE
      OBVIOUS
    <2> QED  BY <1>1, <2>1
  <1>2. ASSUME ~A(n + 1), B(n + 1) PROVE ~F(n + 1)
    <2> SUFFICES ASSUME NEW k \in 1..(n + 1), A(k), \A j \in (k + 1)..(n + 1) : ~B(j)
                 PROVE  FALSE
      OBVIOUS
    <2>1. k # n + 1
      BY <1>2
    <2>2. n + 1 \in (k + 1)..(n + 1)
      BY <2>1
    <2> QED  BY <1>2, <2>2
  <1>3. ASSUME ~A(n + 1), ~B(n + 1) PROVE F(n + 1) <=> F(n)
    <2>1. ASSUME NEW k \in 1..(n + 1), A(k), \A j \in (k + 1)..(n + 1) : ~B(j)
          PROVE  F(n)
      <3>1. k \in 1..n
        BY <1>3, <2>1
      <3>2. \A j \in (k + 1)..n : j \in (k + 1)..(n + 1)
        BY <3>1
      <3> QED  BY <2>1, <3>1, <3>2
    <2>2. ASSUME NEW k \in 1..n, A(k), \A j \in (k + 1)..n : ~B(j)
          PROVE  F(n + 1)
      <3>1. k \in 1..(n + 1)
        OBVIOUS
      <3>2. \A j \in (k + 1)..(n + 1) : j \in (k + 1)..n \/ j = n + 1
        OBVIOUS
      <3> QED  BY <1>3, <2>2, <3>1, <3>2
    <2> QED  BY <2>1, <2>2
  <1> HIDE DEF F
  <1> QED  BY <1>0, <1>1, <1>2, <1>3 DEF A, B

\* Settings are changed, never added or taken away.
LEMMA AddFields ==
    ASSUME NEW c, DOMAIN c = Fields, NEW key, NEW v
    PROVE  DOMAIN add_config_value(c, key, v) = Fields
  BY DEF add_config_value, set_hostname

\* Start-up begins with the defaults.
LEMMA StartInit == ServerInit => ConfigInv
  <1> SUFFICES ASSUME ServerInit PROVE ConfigInv
    OBVIOUS
  <1>1. /\ phase = "options" /\ argv \in Commands /\ optind = 1
        /\ confpath = "/etc/sol/sol.conf" /\ line = 1 /\ config = config_set_default
    BY DEF ServerInit, ConfigInit
  <1>2. argv \in Seq([opt : STRING, arg : STRING]) /\ Len(argv) \in Nat
    BY <1>1, CommandsAssumption
  <1>3. Len(FileLines) \in Nat
    BY FilesAssumption DEF FileLines
  <1>4. DOMAIN config = Fields /\ config.socket_family = "INET"
    BY <1>1 DEF config_set_default, Fields
  <1>5. Startup
    <2>1. optind \in 1..(Len(argv) + 1) /\ line \in 1..(Len(FileLines) + 1)
      BY <1>1, <1>2, <1>3
    <2>2. \A k \in 1..(optind - 1) : FALSE
      BY <1>1
    <2> QED  BY <1>1, <1>2, <1>4, <2>1, <2>2 DEF Startup
  <1>6. \A i \in 2..9 : SaidBy(0, 0, i, Default(i)) = Default(i)
    BY DEF SaidBy
  <1>7. \A i \in 2..9 : Reflects(config, i, Default(i))
    <2>1. /\ config.logpath = "/tmp/sol.log" /\ config.socket_family = "INET"
          /\ config.hostname = "127.0.0.1" /\ config.port = "1883"
          /\ config.max_memory = read_memory_with_mul(Value(2, "gb", ""))
          /\ config.max_request_size = read_memory_with_mul(Value(2, "mb", ""))
          /\ config.tcp_backlog = SOMAXCONN
          /\ config.stats_pub_interval = read_time_with_mul(Value(10, "s", ""))
      BY <1>1 DEF config_set_default
    <2>2. /\ Default(2).text = "/tmp/sol.log" /\ Default(4).text = "127.0.0.1"
          /\ Default(5).text = "1883"
      BY DEF Default, Value
    <2>3. /\ Default(6) = Value(2, "gb", "") /\ Default(7) = Value(2, "mb", "")
          /\ Default(9) = Value(10, "s", "")
      BY DEF Default
    <2>4. Default(8).num = SOMAXCONN /\ capped(SOMAXCONN) = SOMAXCONN /\ SOMAXCONN \in Int
      BY SomaxconnAssumption DEF Default, Value, capped
    <2>5. \A i \in 2..9 : i \in {2, 3, 4, 5, 6, 7, 8, 9}
      OBVIOUS
    <2> QED  BY <2>1, <2>2, <2>3, <2>4, <2>5 DEF Reflects
  <1>8. Chosen
    <2>1. debug = FALSE
      BY DEF ServerInit, ConfigInit
    <2>2. FamilySaidBy(0) = "INET"
      BY DEF FamilySaidBy
    <2> QED  BY <1>1, <1>4, <2>1, <2>2 DEF Chosen
  <1> QED  BY <1>1, <1>5, <1>6, <1>7, <1>8 DEF ConfigInv, Applied

\* Each option and each line keeps the configuration what was said.
LEMMA StartStep ==
    ASSUME ConfigInv, [ServerNext]_servervars
    PROVE  ConfigInv'
  <1>0. /\ Startup /\ Applied /\ Chosen
        /\ argv \in Seq([opt : STRING, arg : STRING]) /\ Len(argv) \in Nat
        /\ optind \in 1..(Len(argv) + 1)
        /\ Len(FileLines) \in Nat /\ line \in 1..(Len(FileLines) + 1)
        /\ DOMAIN config = Fields
    BY FilesAssumption DEF ConfigInv, Startup, FileLines
  <1>1. CASE UNCHANGED configvars
    <2>1. Startup' /\ Applied'
      BY <1>0, <1>1 DEF Startup, Applied, configvars, FileLines, SaidBy, About
    <2>2. Chosen'
      BY <1>0, <1>1
      DEF Chosen, configvars, FileLines, LevelBy, FamilySaidBy, GivesLevel, About
    <2> QED  BY <2>1, <2>2 DEF ConfigInv
  <1>2. CASE getopt
    <2> DEFINE o == argv[optind]
    <2>1. /\ phase = "options" /\ optind <= Len(argv) /\ line = 1
          /\ config.socket_family = "INET"
          /\ \A k \in 1..(optind - 1) : argv[k].opt \in {"a", "p", "c", "v"}
      BY <1>0, <1>2 DEF getopt, Startup
    <2>2. /\ config' = IF o.opt = "a" THEN [config EXCEPT !.hostname = o.arg]
                       ELSE IF o.opt = "p" THEN [config EXCEPT !.port = o.arg]
                       ELSE config
          /\ confpath' = IF o.opt = "c" THEN o.arg ELSE confpath
          /\ phase' = IF o.opt \in {"a", "p", "c", "v"} THEN phase ELSE "usage"
          /\ optind' = optind + 1 /\ argv' = argv /\ line' = line
          /\ debug' = (debug \/ o.opt = "v")
      BY <1>2 DEF getopt
    <2>3. o.opt \in STRING /\ o.arg \in STRING /\ optind \in 1..Len(argv)
      <3>1. optind \in 1..Len(argv)
        BY <1>0, <2>1
      <3>2. o \in [opt : STRING, arg : STRING]
        BY <1>0, <3>1, ElementOfSeq
      <3> QED  BY <3>1, <3>2
    <2>4. DOMAIN config' = Fields /\ config'.socket_family = "INET"
      BY <1>0, <2>1, <2>2, <2>3 DEF Fields
    <2>5. Len(FileLines)' \in Nat
      BY <2>4, FilesAssumption DEF FileLines
    <2>6. Startup'
      <3>1. optind' \in 1..(Len(argv') + 1) /\ line' \in 1..(Len(FileLines)' + 1)
        BY <1>0, <2>1, <2>2, <2>3, <2>5
      <3>2. phase' # "usage" =>
               \A k \in 1..(optind' - 1) : argv[k].opt \in {"a", "p", "c", "v"}
        <4>1. \A k \in 1..(optind' - 1) : k \in 1..(optind - 1) \/ k = optind
          BY <1>0, <2>2
        <4> QED  BY <2>1, <2>2, <4>1
      <3> QED  BY <1>0, <2>1, <2>2, <2>4, <3>1, <3>2 DEF Startup
    <2>7. ASSUME phase' # "usage", NEW i \in 2..9
          PROVE  Reflects(config', i, SaidBy(optind, 0, i, Default(i)))
      <3> DEFINE m == optind - 1
                 w == SaidBy(m, 0, i, Default(i))
      <3>1. m \in Nat /\ m + 1 = optind /\ line - 1 = 0
        BY <1>0, <2>1
      <3>2. Reflects(config, i, w)
        BY <1>0, <2>1, <3>1 DEF Applied
      <3>3. SaidBy(optind, 0, i, Default(i)) =
               IF o.opt = option(i) THEN Value(0, "", o.arg) ELSE w
        <4> HIDE DEF m
        <4>1. SaidBy(m + 1, 0, i, Default(i)) =
                 IF argv[m + 1].opt = option(i) THEN Value(0, "", argv[m + 1].arg) ELSE w
          BY <3>1, NextOption
        <4> QED  BY <3>1, <4>1
      <3> HIDE DEF w, m
      <3>4. o.opt \in {"a", "p", "c", "v"}
        BY <2>2, <2>7
      <3>7. Value(0, "", o.arg).text = o.arg
        BY DEF Value
      <3>5. CASE o.opt = option(i)
        <4>1. CASE i = 4
          <5>1. option(i) = "a"
            BY <4>1 DEF option
          <5>2. o.opt = "a" /\ SaidBy(optind, 0, i, Default(i)).text = o.arg
            BY <3>3, <3>5, <3>7, <5>1
          <5> QED  BY <1>0, <2>2, <4>1, <5>2 DEF Reflects, Fields
        <4>2. CASE i = 5
          <5>1. option(i) = "p"
            BY <4>2 DEF option
          <5>2. o.opt = "p" /\ SaidBy(optind, 0, i, Default(i)).text = o.arg
            BY <3>3, <3>5, <3>7, <5>1
          <5> QED  BY <1>0, <2>2, <4>2, <5>2 DEF Reflects, Fields
        <4>3. i = 4 \/ i = 5
          BY <3>4, <3>5 DEF option
        <4> QED  BY <4>1, <4>2, <4>3
      <3>6. CASE o.opt # option(i)
        <4>1. ~(i = 4 /\ o.opt = "a") /\ ~(i = 5 /\ o.opt = "p")
          BY <3>6 DEF option
        <4> QED  BY <1>0, <2>1, <2>2, <3>2, <3>3, <3>6, <4>1 DEF Reflects, Fields
      <3> QED  BY <3>5, <3>6
    <2>8. Applied'
      <3>1. optind' - 1 = optind /\ line' - 1 = 0
        BY <1>0, <2>1, <2>2
      <3>2. ASSUME NEW i \in 2..9
            PROVE  SaidBy(optind - 1, line - 1, i, Default(i))' = SaidBy(optind, 0, i, Default(i))
        <4>1. \A S : {k \in 1..0 : S} = {}
          OBVIOUS
        <4> QED  BY <2>2, <3>1, <4>1 DEF SaidBy, Default, Value
      <3> QED  BY <2>7, <3>2 DEF Applied
    <2>9. Chosen'
      <3>1. ASSUME phase' # "usage"
            PROVE  debug' <=> \E k \in 1..(optind' - 1) : argv'[k].opt = "v"
        <4>1. \A k : k \in 1..(optind' - 1) <=> k \in 1..(optind - 1) \/ k = optind
          BY <1>0, <2>2
        <4>2. debug <=> \E k \in 1..(optind - 1) : argv[k].opt = "v"
          BY <1>0, <2>1 DEF Chosen
        <4> QED  BY <2>2, <4>1, <4>2, Zenon
      <3>2. line' - 1 = 0 /\ phase' \in {"options", "usage"}
        BY <2>1, <2>2
      <3>3. FamilySaidBy(line - 1)' = "INET"
        BY <3>2 DEF FamilySaidBy
      <3> QED  BY <2>4, <3>1, <3>2, <3>3 DEF Chosen
    <2> QED  BY <2>6, <2>8, <2>9 DEF ConfigInv
  <1>3. CASE config_load
    <2>1. /\ phase = "options" /\ optind > Len(argv) /\ line = 1
          /\ \A k \in 1..(optind - 1) : argv[k].opt \in {"a", "p", "c", "v"}
      BY <1>0, <1>3 DEF config_load, Startup
    <2>2. /\ UNCHANGED <<argv, optind, confpath, line, debug>>
          /\ phase' = IF confpath \in DOMAIN Files THEN "lines" ELSE "listen"
          /\ config' = [config EXCEPT !.loglevel = IF debug THEN "DEBUG" ELSE "WARNING"]
      BY <1>3 DEF config_load
    <2>3. optind = Len(argv) + 1
      BY <1>0, <2>1
    <2>4. FileLines' = FileLines /\ (confpath \notin DOMAIN Files => Len(FileLines) = 0)
      BY <2>2 DEF FileLines
    <2>5. DOMAIN config' = Fields /\ \A f \in Fields \ {"loglevel"} : config'[f] = config[f]
      BY <1>0, <2>2
    <2>6. Startup'
      BY <1>0, <2>1, <2>2, <2>3, <2>4, <2>5 DEF Startup
    <2>7. Applied'
      <3>1. ASSUME NEW i \in 2..9, NEW w, Reflects(config, i, w)
            PROVE  Reflects(config', i, w)
        BY <2>5, <3>1 DEF Reflects, Fields
      <3>2. ASSUME NEW i \in 2..9
            PROVE  SaidBy(optind - 1, line - 1, i, Default(i))'
                     = SaidBy(optind - 1, line - 1, i, Default(i))
        BY <2>2, <2>4 DEF SaidBy, Default, Value, About
      <3>3. \A i \in 2..9 : Reflects(config, i, SaidBy(optind - 1, line - 1, i, Default(i)))
        BY <1>0, <2>1 DEF Applied
      <3> QED  BY <3>1, <3>2, <3>3 DEF Applied
    <2>8. Chosen'
      <3>1. config'.loglevel = LevelBy(line - 1)'
        <4>1. line' - 1 = 0
          BY <2>1, <2>2
        <4>2. LevelBy(line - 1)' = IF debug' THEN "DEBUG" ELSE "WARNING"
          BY <4>1 DEF LevelBy
        <4> QED  BY <1>0, <2>2, <4>2 DEF Fields
      <3>2. FamilySaidBy(line - 1)' = FamilySaidBy(line - 1)
        BY <2>2, <2>4 DEF FamilySaidBy, About
      <3>3. config'.socket_family = config.socket_family
        BY <2>5 DEF Fields
      <3>4. debug' <=> \E k \in 1..(optind' - 1) : argv'[k].opt = "v"
        BY <1>0, <2>1, <2>2 DEF Chosen
      <3> QED  BY <1>0, <2>1, <3>1, <3>2, <3>3, <3>4 DEF Chosen
    <2> QED  BY <2>6, <2>7, <2>8 DEF ConfigInv
  <1>4. CASE config_line
    <2> DEFINE l == FileLines[line]
    <2>1. /\ phase = "lines" /\ confpath \in DOMAIN Files /\ FileLines = Files[confpath]
          /\ line <= Len(FileLines) /\ optind = Len(argv) + 1
      BY <1>0, <1>4 DEF config_line, Startup, FileLines
    <2>2. /\ UNCHANGED <<phase, argv, optind, confpath, debug>>
          /\ line' = line + 1
          /\ config' = IF l.key = << >> THEN config ELSE add_config_value(config, l.key, l.value)
          /\ FileLines' = FileLines
      BY <1>4, <2>1 DEF config_line, FileLines
    <2>3. l.value.num \in Int
      <3> DEFINE L == [key : Seq(STRING), value : [num : Int, unit : STRING, text : STRING]]
      <3>1. FileLines \in Seq(L) /\ line \in 1..Len(FileLines)
        BY <1>0, <2>1, FilesAssumption
      <3>2. l \in L
        <4> HIDE DEF L
        <4> QED  BY <3>1, ElementOfSeq
      <3> QED  BY <3>2
    <2>4. DOMAIN config' = Fields
      BY <1>0, <2>2, AddFields
    <2>5. Startup'
      <3>1. line' \in 1..(Len(FileLines) + 1)
        BY <1>0, <2>1, <2>2
      <3> QED  BY <1>0, <2>1, <2>2, <2>4, <3>1 DEF Startup
    <2>6. ASSUME NEW i \in 2..9
          PROVE  Reflects(config', i, SaidBy(optind - 1, line, i, Default(i)))
      <3> DEFINE n == line - 1
                 w == SaidBy(optind - 1, n, i, Default(i))
      <3>1. n \in Nat /\ n + 1 = line
        BY <1>0
      <3>2. Reflects(config, i, w)
        BY <1>0, <2>1 DEF Applied
      <3>3. SaidBy(optind - 1, line, i, Default(i)) = IF About(l, i) THEN l.value ELSE w
        <4> HIDE DEF n
        <4>1. SaidBy(optind - 1, n + 1, i, Default(i)) =
                 IF About(FileLines[n + 1], i) THEN FileLines[n + 1].value ELSE w
          BY <3>1, NextLine
        <4> QED  BY <3>1, <4>1
      <3> HIDE DEF w, n
      <3>4. CASE l.key = << >>
        BY <2>2, <3>2, <3>3, <3>4 DEF About
      <3>5. CASE l.key # << >>
        <4>1. Reflects(add_config_value(config, l.key, l.value), i,
                       IF About(l, i) THEN l.value ELSE w)
          <5> HIDE DEF l
          <5> QED  BY <1>0, <2>3, <3>2, <3>5, AddReflects
        <4> QED  BY <2>2, <3>3, <3>5, <4>1
      <3> QED  BY <3>4, <3>5
    <2>7. Applied'
      <3>1. line' - 1 = line
        BY <1>0, <2>2
      <3>2. ASSUME NEW i \in 2..9
            PROVE  SaidBy(optind - 1, line - 1, i, Default(i))'
                     = SaidBy(optind - 1, line, i, Default(i))
        BY <2>2, <3>1 DEF SaidBy, Default, Value, About
      <3> QED  BY <2>6, <3>2 DEF Applied
    <2>8. Chosen'
      <3> DEFINE n == line - 1
      <3>1. n \in Nat /\ n + 1 = line /\ line' - 1 = line
        BY <1>0, <2>2
      <3>2. /\ LevelBy(line) = IF GivesLevel(l) THEN log_level(l.value.text, "WARNING")
                              ELSE LevelBy(n)
            /\ FamilySaidBy(line) = IF About(l, 3) THEN "UNIX"
                                   ELSE IF About(l, 4) THEN "INET" ELSE FamilySaidBy(n)
        <4> HIDE DEF n
        <4>1. /\ LevelBy(n + 1) = IF GivesLevel(FileLines[n + 1])
                                  THEN log_level(FileLines[n + 1].value.text, "WARNING")
                                  ELSE LevelBy(n)
              /\ FamilySaidBy(n + 1) = IF About(FileLines[n + 1], 3) THEN "UNIX"
                                       ELSE IF About(FileLines[n + 1], 4) THEN "INET"
                                       ELSE FamilySaidBy(n)
          BY <3>1, NextLevel, NextFamily
        <4> QED  BY <3>1, <4>1
      <3>3. config.loglevel = LevelBy(n) /\ config.socket_family = FamilySaidBy(n)
        BY <1>0, <2>1 DEF Chosen
      <3>4. config'.loglevel = LevelBy(line) /\ config'.socket_family = FamilySaidBy(line)
        <4>1. CASE l.key = << >>
          BY <2>2, <3>2, <3>3, <4>1 DEF About, GivesLevel
        <4>2. CASE l.key # << >>
          <5>1. /\ config'.loglevel = IF GivesLevel(l) THEN log_level(l.value.text, "WARNING")
                                      ELSE config.loglevel
                /\ config'.socket_family = IF About(l, 3) THEN "UNIX"
                                           ELSE IF About(l, 4) THEN "INET"
                                           ELSE config.socket_family
            <6> HIDE DEF l
            <6> QED  BY <1>0, <2>2, <4>2, AddChosen
          <5> QED  BY <3>2, <3>3, <5>1
        <4> QED  BY <4>1, <4>2
      <3>5. LevelBy(line - 1)' = LevelBy(line) /\ FamilySaidBy(line - 1)' = FamilySaidBy(line)
        BY <2>2, <3>1 DEF LevelBy, FamilySaidBy, GivesLevel, About
      <3> QED  BY <1>0, <2>1, <2>2, <3>4, <3>5 DEF Chosen
    <2> QED  BY <2>5, <2>7, <2>8 DEF ConfigInv
  <1>5. CASE \/ config_loaded \/ create_and_bind_unix \/ create_and_bind_tcp \/ make_listen
             \/ phase = "loop" /\ evloop_exit
    <2>1. UNCHANGED <<argv, optind, confpath, line, debug, config>>
      BY <1>5 DEF config_loaded, create_and_bind_unix, create_and_bind_tcp, make_listen, evloop_exit
    <2>2. /\ phase' \notin {"options", "usage", "lines"}
          /\ phase \notin {"options", "usage"}
          /\ phase = "lines" => line > Len(FileLines)
      BY <1>0, <1>5
      DEF config_loaded, create_and_bind_unix, create_and_bind_tcp, make_listen, evloop_exit,
          Startup, FileLines
    <2>3. FileLines' = FileLines
      BY <2>1 DEF FileLines
    <2>4. line = Len(FileLines) + 1
      BY <1>0, <2>2 DEF Startup
    <2>5. Startup'
      BY <1>0, <2>1, <2>2, <2>3, <2>4 DEF Startup
    <2>6. Applied'
      <3>1. ASSUME NEW i \in 2..9
            PROVE  SaidBy(optind - 1, line - 1, i, Default(i))'
                     = SaidBy(optind - 1, line - 1, i, Default(i))
        BY <2>1, <2>3 DEF SaidBy, Default, Value, About
      <3> QED  BY <1>0, <2>1, <2>2, <3>1 DEF Applied, Reflects, read_memory_with_mul, capped
    <2>7. Chosen'
      <3>1. LevelBy(line - 1)' = LevelBy(line - 1) /\ FamilySaidBy(line - 1)' = FamilySaidBy(line - 1)
        BY <2>1, <2>3 DEF LevelBy, FamilySaidBy, GivesLevel, About
      <3> QED  BY <1>0, <2>1, <2>2, <3>1 DEF Chosen
    <2> QED  BY <2>5, <2>6, <2>7 DEF ConfigInv
  <1> QED
    BY <1>1, <1>2, <1>3, <1>4, <1>5 DEF ServerNext, ConfigNext, Running, servervars

\* The invariant of start-up holds throughout.
LEMMA StartInductive == ServerSpec => []ConfigInv
  BY StartInit, StartStep, PTL DEF ServerSpec

\* When the broker listens, what was said last is what was said in all.
LEMMA AllSaid ==
    ASSUME ConfigInv, phase \in {"listen", "bound", "loop"}
    PROVE  /\ \A i \in 2..9 : Reflects(config, i, Said(i, Default(i)))
           /\ config.loglevel = LevelBy(Len(FileLines))
           /\ config.socket_family = FamilySaidBy(Len(FileLines))
           /\ debug <=> \E k \in 1..Len(argv) : argv[k].opt = "v"
  <1>1. Len(argv) \in Nat /\ Len(FileLines) \in Nat
    BY FilesAssumption DEF ConfigInv, Startup, FileLines
  <1>2. optind - 1 = Len(argv) /\ line - 1 = Len(FileLines)
    BY <1>1 DEF ConfigInv, Startup
  <1> QED  BY <1>2 DEF ConfigInv, Applied, Chosen, Said

\* The comparisons find the level that a text with a character stands for.
LEMMA OneLevel ==
    ASSUME NEW text, text # "", \E level \in Levels : text \in Beginnings[level]
    PROVE  log_level(text, "WARNING") = CHOOSE level \in Levels : text \in Beginnings[level]
  <1>1. PICK level \in Levels : text \in Beginnings[level]
    OBVIOUS
  <1>2. \A m \in Levels : text \in Beginnings[m] => m = level
    <2>1. ASSUME NEW m \in Levels, m # level, text \in Beginnings[level] \cap Beginnings[m]
          PROVE  FALSE
      <3>1. Beginnings[level] \cap Beginnings[m] = {""}
        BY <2>1, BeginningsAssumption
      <3> QED  BY <2>1, <3>1
    <2> QED  BY <1>1, <2>1
  <1>3. log_level(text, "WARNING") = level
    BY <1>1, <1>2 DEF log_level, Levels
  <1> QED  BY <1>1, <1>2, <1>3

\* Whatever the options and the file, each setting, the log level and the family among
\* them, is what the operator said last when the broker listens, if its lines are
\* complete.
THEOREM SettingsSettled == ServerSpec => []Settled
  <1>1. ConfigInv => Settled
    <2> SUFFICES ASSUME ConfigInv, phase \in {"listen", "bound", "loop"}
                 PROVE  Settled
      BY DEF Settled
    <2>1. ASSUME NEW i \in {2, 5, 6, 7, 8, 9} PROVE AsSaid(i, Said(i, Default(i)))
      <3> DEFINE v == Said(i, Default(i))
      <3>1. i \in 2..9
        BY <2>1
      <3>2. Reflects(config, i, v)
        BY <3>1, AllSaid
      <3> HIDE DEF v
      <3>3. CASE i = 8
        <4> DEFINE x == v.num
        <4>1. config.tcp_backlog = capped(x) /\ x \in Int
          BY <3>2, <3>3 DEF Reflects
        <4> HIDE DEF x
        <4>2. /\ capped(x) \in {SOMAXCONN, x} /\ capped(x) <= SOMAXCONN /\ capped(x) <= x
              /\ \A n \in {SOMAXCONN, x} : n <= SOMAXCONN /\ n <= x => n = capped(x)
          BY <4>1, SomaxconnAssumption DEF capped
        <4>3. config.tcp_backlog = CHOOSE n \in {SOMAXCONN, x} : n <= SOMAXCONN /\ n <= x
          BY <4>1, <4>2
        <4> QED  BY <3>3, <4>3 DEF AsSaid, v, x
      <3>4. CASE i # 8
        BY <3>2, <3>4 DEF AsSaid, Reflects, v
      <3> QED  BY <3>3, <3>4
    <2>2. ASSUME Complete(1) PROVE config.loglevel = LevelSaid
      <3> DEFINE lines == {k \in 1..Len(FileLines) : GivesLevel(FileLines[k])}
                 text == FileLines[Max(lines)].value.text
      <3>0. Len(FileLines) \in Nat
        BY FilesAssumption DEF FileLines
      <3>1. CASE lines = {}
        BY <3>1, AllSaid DEF LevelBy, LevelSaid
      <3>2. CASE lines # {}
        <4>1. Max(lines) \in lines
          <5>1. lines \subseteq 1..Len(FileLines)
            OBVIOUS
          <5> HIDE DEF lines
          <5> QED  BY <3>0, <3>2, <5>1, MaxMember
        <4>2. Max(lines) \in 1..Len(FileLines) /\ GivesLevel(FileLines[Max(lines)])
          BY <4>1
        <4>3. text # "" /\ \E level \in Levels : text \in Beginnings[level]
          BY <2>2, <4>2 DEF GivesLevel, Complete
        <4>4. config.loglevel = log_level(text, "WARNING")
          BY <3>2, AllSaid DEF LevelBy
        <4>5. LevelSaid = CHOOSE level \in Levels : text \in Beginnings[level]
          BY <3>2 DEF LevelSaid
        <4> HIDE DEF text, lines
        <4> QED  BY <4>3, <4>4, <4>5, OneLevel
      <3> QED  BY <3>1, <3>2
    <2> QED  BY <2>1, <2>2, AllSaid DEF Settled
  <1> QED  BY <1>1, StartInductive, PTL

\* Whatever the options and the file, the host name and the family belong together
\* when the broker listens.
THEOREM FamilyFitsName == ServerSpec => []FamilyFits
  <1>1. ConfigInv => FamilyFits
    <2> SUFFICES ASSUME ConfigInv, phase \in {"listen", "bound", "loop"}
                 PROVE  FamilyFits
      BY DEF FamilyFits
    <2>1. config.socket_family = "UNIX" => config.hostname = Said(3, Value(0, "", "none")).text
      <3>1. 3 \in 2..9 /\ Default(3) = Value(0, "", "none")
        BY DEF Default
      <3>2. Reflects(config, 3, Said(3, Value(0, "", "none")))
        BY <3>1, AllSaid, Zenon
      <3> QED  BY <3>2 DEF Reflects
    <2>2. config.socket_family = "INET" => config.hostname = Said(4, Value(0, "", "127.0.0.1")).text
      <3>1. 4 \in 2..9 /\ Default(4) = Value(0, "", "127.0.0.1")
        BY DEF Default
      <3>2. Reflects(config, 4, Said(4, Value(0, "", "127.0.0.1")))
        BY <3>1, AllSaid, Zenon
      <3> QED  BY <3>2 DEF Reflects
    <2> QED  BY <2>1, <2>2 DEF FamilyFits
  <1> QED  BY <1>1, StartInductive, PTL
=============================================================================
