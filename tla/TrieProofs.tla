----------------------------- MODULE TrieProofs -----------------------------
(***************************************************************************)
(* The trie counts its keys, keeps its lists sorted and its nodes hung up,  *)
(* and is a map, for any finite set of keys.                                *)
(*                                                                          *)
(* First the sorting: merging two sorted lists without a common node gives  *)
(* the sorted list of both, hence sorting a list of different nodes gives   *)
(* the sorted list of them.  Then the tree: a path is found from the root   *)
(* when it is the name of a node (Grown), so what the trie stores is the    *)
(* data of its nodes, and each operation is a change of these.              *)
(***************************************************************************)
EXTENDS Trie, Induction, SequenceTheorems, FiniteSetTheorems

-----------------------------------------------------------------------------
(* Merging and sorting.                                                     *)

\* How many of the first n nodes that merge_tnode_list takes are nodes of s.
Firsts(s, t) ==
    LET N == Len(s) + Len(t)
        taken[n \in 0..N] ==
            IF n = 0 THEN 0
            ELSE LET i == taken[n - 1]
                 IN  IF of_first(s, t, i, n - 1 - i) THEN i + 1 ELSE i
    IN  taken

\* What the recursion of merge_tnode_list says.
LEMMA FirstsRecursion ==
    ASSUME NEW s \in Seq(Int), NEW t \in Seq(Int)
    PROVE  LET f == Firsts(s, t)
               N == Len(s) + Len(t)
           IN  /\ f \in [0..N -> Nat]
               /\ f[0] = 0
               /\ \A n \in 1..N : f[n] = IF of_first(s, t, f[n - 1], n - 1 - f[n - 1])
                                         THEN f[n - 1] + 1 ELSE f[n - 1]
               /\ merge_tnode_list(s, t) =
                    [n \in 1..N |-> IF f[n] > f[n - 1] THEN s[f[n]] ELSE t[n - f[n]]]
  <1> DEFINE N == Len(s) + Len(t)
             taken[n \in 0..N] ==
                 IF n = 0 THEN 0
                 ELSE LET i == taken[n - 1]
                      IN  IF of_first(s, t, i, n - 1 - i) THEN i + 1 ELSE i
  <1>1. Firsts(s, t) = taken
        /\ merge_tnode_list(s, t) =
             [n \in 1..N |-> IF taken[n] > taken[n - 1] THEN s[taken[n]] ELSE t[n - taken[n]]]
    BY DEF Firsts, merge_tnode_list
  <1> DEFINE Eq(g) == g = [n \in 0..N |->
                             IF n = 0 THEN 0
                             ELSE IF of_first(s, t, g[n - 1], n - 1 - g[n - 1])
                                  THEN g[n - 1] + 1 ELSE g[n - 1]]
             st == [n \in Nat |-> [v \in Nat |->
                      IF of_first(s, t, v, n - 1 - v) THEN v + 1 ELSE v]]
  <1>2. N \in Nat
    OBVIOUS
  <1>3. st \in [Nat -> [Nat -> Nat]]
    OBVIOUS
  <1>4. PICK g \in [0..N -> Nat] : g[0] = 0 /\ \A n \in 1..N : g[n] = st[n][g[n - 1]]
    <2> DEFINE b == 0
               V == Nat
    <2>1. b \in V /\ st \in [Nat -> [V -> V]]
      BY <1>3
    <2> HIDE DEF st, N, b, V
    <2>2. \E g : ByRecursion(g, N, V, b, st)
      BY <1>2, <2>1, RecursionExists, Zenon
    <2> QED  BY <2>2 DEF V, b, ByRecursion
  <1> HIDE DEF N
  <1>5. \A n \in 1..N : g[n] = IF of_first(s, t, g[n - 1], n - 1 - g[n - 1])
                               THEN g[n - 1] + 1 ELSE g[n - 1]
    <2> SUFFICES ASSUME NEW n \in 1..N
                 PROVE  g[n] = IF of_first(s, t, g[n - 1], n - 1 - g[n - 1])
                               THEN g[n - 1] + 1 ELSE g[n - 1]
      OBVIOUS
    <2>1. n \in Nat /\ n - 1 \in 0..N
      BY <1>2
    <2>2. g[n - 1] \in Nat
      BY <2>1
    <2> QED  BY <1>4, <2>1, <2>2
  <1>6. Eq(g)
    <2>1. \A n \in 0..N : n = 0 \/ n \in 1..N
      BY <1>2
    <2>2. \A n \in 0..N : g[n] = IF n = 0 THEN 0
                                 ELSE IF of_first(s, t, g[n - 1], n - 1 - g[n - 1])
                                      THEN g[n - 1] + 1 ELSE g[n - 1]
      BY <1>4, <1>5, <2>1
    <2> QED  BY <2>2
  <1>7. Eq(taken)
    <2>1. taken = CHOOSE h : Eq(h)
      OBVIOUS
    <2> HIDE DEF Eq, taken
    <2> QED  BY <1>6, <2>1
  <1> HIDE DEF taken
  <1>8. taken[0] = 0
    BY <1>2, <1>7
  <1>9. \A n \in 1..N : taken[n] = IF of_first(s, t, taken[n - 1], n - 1 - taken[n - 1])
                                   THEN taken[n - 1] + 1 ELSE taken[n - 1]
    <2>1. \A n \in 1..N : n # 0 /\ n \in 0..N
      BY <1>2
    <2> QED  BY <1>7, <2>1
  <1>10. taken \in [0..N -> Nat]
    <2> DEFINE S == {n \in 0..N : taken[n] \in Nat}
    <2>1. 0 \in S
      BY <1>2, <1>8
    <2>2. ASSUME NEW n \in 0..(N - 1), n \in S PROVE n + 1 \in S
      <3>1. n + 1 \in 1..N /\ (n + 1) - 1 = n /\ n + 1 \in 0..N
        BY <1>2
      <3>2. taken[n + 1] = taken[n] + 1 \/ taken[n + 1] = taken[n]
        BY <1>9, <3>1
      <3>3. taken[n] \in Nat
        BY <2>2
      <3>4. taken[n + 1] \in Nat
        BY <3>2, <3>3
      <3> QED  BY <3>1, <3>4
    <2> HIDE DEF S
    <2>3. 0..N \subseteq S
      BY <1>2, <2>1, <2>2, IntervalInduction
    <2>4. \A n \in 0..N : taken[n] \in Nat
      BY <2>3 DEF S
    <2>5. taken = [n \in 0..N |-> taken[n]]
      BY <1>7
    <2> QED  BY <2>4, <2>5
  <1> QED  BY <1>1, <1>8, <1>9, <1>10 DEF N

\* A strictly sorted list.
Sorted(s) == \A i, j \in 1..Len(s) : i < j => s[i] < s[j]

\* x is one of the first n nodes of s.
Among(s, n, x) == \E i \in 1..n : s[i] = x

\* merge_tnode_list takes no more nodes than there are.
LEMMA FirstsBounds ==
    ASSUME NEW s \in Seq(Int), NEW t \in Seq(Int)
    PROVE  \A n \in 0..(Len(s) + Len(t)) :
               /\ Firsts(s, t)[n] \in 0..Len(s)
               /\ n - Firsts(s, t)[n] \in 0..Len(t)
  <1> DEFINE f == Firsts(s, t)
             N == Len(s) + Len(t)
             S == {n \in 0..N : f[n] \in 0..Len(s) /\ n - f[n] \in 0..Len(t)}
  <1>1. /\ f \in [0..N -> Nat]
        /\ f[0] = 0
        /\ \A n \in 1..N : f[n] = IF of_first(s, t, f[n - 1], n - 1 - f[n - 1])
                                  THEN f[n - 1] + 1 ELSE f[n - 1]
    BY FirstsRecursion
  <1>2. N \in Nat /\ Len(s) \in Nat /\ Len(t) \in Nat
    OBVIOUS
  <1> HIDE DEF f
  <1>3. 0 \in S
    BY <1>1, <1>2
  <1>4. ASSUME NEW n \in 0..(N - 1), n \in S PROVE n + 1 \in S
    <2>1. n + 1 \in 1..N /\ (n + 1) - 1 = n /\ n + 1 \in 0..N
      BY <1>2
    <2>2. f[n] \in 0..Len(s) /\ n - f[n] \in 0..Len(t)
      BY <1>4
    <2>3. f[n + 1] = IF of_first(s, t, f[n], n - f[n]) THEN f[n] + 1 ELSE f[n]
      BY <1>1, <2>1
    <2>4. CASE of_first(s, t, f[n], n - f[n])
      <3>1. f[n] < Len(s) /\ f[n + 1] = f[n] + 1
        BY <2>3, <2>4 DEF of_first
      <3>2. f[n + 1] \in 0..Len(s)
        BY <1>2, <2>2, <3>1
      <3>3. (n + 1) - f[n + 1] = n - f[n]
        <4>1. n \in Nat /\ f[n] \in Nat
          BY <1>2, <2>2
        <4>2. f[n + 1] = f[n] + 1
          BY <3>1
        <4>3. \A a, b \in Nat : (a + 1) - (b + 1) = a - b
          OBVIOUS
        <4> QED  BY <4>1, <4>2, <4>3
      <3> QED  BY <2>1, <2>2, <3>2, <3>3
    <2>5. CASE ~of_first(s, t, f[n], n - f[n])
      <3>1. f[n] = Len(s) \/ n - f[n] < Len(t)
        BY <1>2, <2>2, <2>5 DEF of_first
      <3>2. f[n + 1] = f[n]
        BY <2>3, <2>5
      <3>3. n < Len(s) + Len(t) /\ n \in Nat
        BY <1>2
      <3> HIDE DEF N
      <3>4. (n + 1) - f[n + 1] \in 0..Len(t)
        BY <1>2, <2>2, <3>1, <3>2, <3>3
      <3> QED  BY <2>1, <2>2, <3>2, <3>4
    <2> QED  BY <2>4, <2>5
  <1> HIDE DEF S
  <1>5. 0..N \subseteq S
    BY <1>2, <1>3, <1>4, IntervalInduction
  <1> QED  BY <1>5 DEF S, f

\* The n-th node of the merged list is the next of s or the next of t.
LEMMA MergeSteps ==
    ASSUME NEW s \in Seq(Int), NEW t \in Seq(Int), NEW n \in 1..(Len(s) + Len(t))
    PROVE  LET f == Firsts(s, t)
               i == f[n - 1]
               j == n - 1 - f[n - 1]
               m == merge_tnode_list(s, t)
           IN  /\ i \in 0..Len(s) /\ j \in 0..Len(t)
               /\ \/ /\ of_first(s, t, i, j) /\ i + 1 \in 1..Len(s)
                     /\ f[n] = i + 1 /\ n - f[n] = j /\ m[n] = s[i + 1]
                  \/ /\ ~of_first(s, t, i, j) /\ j + 1 \in 1..Len(t)
                     /\ f[n] = i /\ n - f[n] = j + 1 /\ m[n] = t[j + 1]
  <1> DEFINE f == Firsts(s, t)
             N == Len(s) + Len(t)
             i == f[n - 1]
             j == n - 1 - f[n - 1]
             m == merge_tnode_list(s, t)
  <1>1. N \in Nat /\ Len(s) \in Nat /\ Len(t) \in Nat /\ n \in Nat /\ n - 1 \in 0..N /\ n \in 0..N
    OBVIOUS
  <1>2. /\ f[n] = IF of_first(s, t, i, j) THEN i + 1 ELSE i
        /\ m[n] = IF f[n] > i THEN s[f[n]] ELSE t[n - f[n]]
    <2>1. /\ \A e \in 1..N : f[e] = IF of_first(s, t, f[e - 1], e - 1 - f[e - 1])
                                    THEN f[e - 1] + 1 ELSE f[e - 1]
          /\ m = [e \in 1..N |-> IF f[e] > f[e - 1] THEN s[f[e]] ELSE t[e - f[e]]]
      BY FirstsRecursion
    <2> HIDE DEF f, m
    <2> QED  BY <2>1
  <1>3. /\ i \in 0..Len(s) /\ n - 1 - i \in 0..Len(t)
        /\ f[n] \in 0..Len(s) /\ n - f[n] \in 0..Len(t)
    BY <1>1, FirstsBounds
  <1> HIDE DEF f, m, N
  <1>4. CASE of_first(s, t, i, j)
    <2>1. f[n] = i + 1
      BY <1>2, <1>4
    <2>2. f[n] > i
      BY <1>3, <2>1
    <2>3. m[n] = s[i + 1]
      BY <1>2, <2>1, <2>2
    <2>4. i + 1 \in 1..Len(s) /\ n - f[n] = j
      BY <1>1, <1>3, <2>1
    <2> QED  BY <1>3, <1>4, <2>1, <2>3, <2>4 DEF f, m
  <1>5. CASE ~of_first(s, t, i, j)
    <2>1. f[n] = i
      BY <1>2, <1>5
    <2>2. ~(f[n] > i)
      BY <1>3, <2>1
    <2>3. n - f[n] = j + 1
      BY <1>1, <1>3, <2>1
    <2>4. m[n] = t[j + 1]
      BY <1>2, <2>2, <2>3
    <2>5. j + 1 \in 1..Len(t)
      BY <1>1, <1>3, <2>3
    <2> QED  BY <1>3, <1>5, <2>1, <2>3, <2>4, <2>5 DEF f, m
  <1> QED  BY <1>4, <1>5

\* Merging gives a list with the nodes of both.
LEMMA MergeFacts ==
    ASSUME NEW s \in Seq(Int), NEW t \in Seq(Int)
    PROVE  LET m == merge_tnode_list(s, t) IN
           /\ m \in Seq(Int)
           /\ Len(m) = Len(s) + Len(t)
           /\ \A x : Among(m, Len(m), x) <=> Among(s, Len(s), x) \/ Among(t, Len(t), x)
  <1> DEFINE f == Firsts(s, t)
             N == Len(s) + Len(t)
             m == merge_tnode_list(s, t)
  <1>1. N \in Nat /\ Len(s) \in Nat /\ Len(t) \in Nat
    OBVIOUS
  <1>2. ASSUME NEW n \in 1..N
        PROVE  /\ f[n - 1] \in 0..Len(s) /\ (n - 1) - f[n - 1] \in 0..Len(t)
               /\ \/ /\ f[n - 1] + 1 \in 1..Len(s) /\ f[n] = f[n - 1] + 1
                     /\ n - f[n] = (n - 1) - f[n - 1] /\ m[n] = s[f[n]]
                  \/ /\ n - f[n] \in 1..Len(t) /\ f[n] = f[n - 1]
                     /\ n - f[n] = ((n - 1) - f[n - 1]) + 1 /\ m[n] = t[n - f[n]]
    <2> DEFINE i == f[n - 1]
               j == n - 1 - f[n - 1]
    <2>1. /\ i \in 0..Len(s) /\ j \in 0..Len(t)
          /\ \/ i + 1 \in 1..Len(s) /\ f[n] = i + 1 /\ n - f[n] = j /\ m[n] = s[i + 1]
             \/ j + 1 \in 1..Len(t) /\ f[n] = i /\ n - f[n] = j + 1 /\ m[n] = t[j + 1]
      BY MergeSteps
    <2>2. j = (n - 1) - f[n - 1]
      OBVIOUS
    <2> HIDE DEF f, m, j
    <2> QED  BY <2>1, <2>2
  <1>3. m \in Seq(Int) /\ Len(m) = N
    <2>1. m = [n \in 1..N |-> m[n]]
      BY FirstsRecursion
    <2>2. \A n \in 1..N : m[n] \in Int
      <3> SUFFICES ASSUME NEW n \in 1..N PROVE m[n] \in Int
        OBVIOUS
      <3>1. (f[n] \in 1..Len(s) /\ m[n] = s[f[n]]) \/ (n - f[n] \in 1..Len(t) /\ m[n] = t[n - f[n]])
        BY <1>2
      <3> QED  BY <3>1, ElementOfSeq
    <2> HIDE DEF m, N
    <2>3. m \in [1..N -> Int]
      BY <2>1, <2>2
    <2>4. m \in Seq(Int)
      BY <1>1, <2>3, SeqDef
    <2>5. Len([n \in 1..N |-> m[n]]) = N
      BY <1>1
    <2> QED  BY <2>1, <2>4, <2>5
  <1>4. f[0] = 0
    BY FirstsRecursion
  <1>5. f[N] = Len(s) /\ N - f[N] = Len(t)
    <2>1. f[N] \in 0..Len(s) /\ N - f[N] \in 0..Len(t)
      BY <1>1, FirstsBounds
    <2> QED  BY <1>1, <2>1
  <1> HIDE DEF f, m, N
  <1> SUFFICES ASSUME NEW x PROVE Among(m, N, x) <=> Among(s, Len(s), x) \/ Among(t, Len(t), x)
    BY <1>3 DEF m, N
  <1> DEFINE S == {n \in 0..N : Among(m, n, x) <=> Among(s, f[n], x) \/ Among(t, n - f[n], x)}
  <1>6. 0 \in S
    <2>1. ~Among(m, 0, x) /\ ~Among(s, 0, x) /\ ~Among(t, 0, x)
      BY DEF Among
    <2>2. 0 - f[0] = 0 /\ 0 \in 0..N
      BY <1>1, <1>4
    <2> QED  BY <1>4, <2>1, <2>2
  <1>7. ASSUME NEW n \in 0..(N - 1), n \in S PROVE n + 1 \in S
    <2>1. n \in Nat /\ n + 1 \in 1..N /\ n + 1 \in 0..N /\ (n + 1) - 1 = n
      BY <1>1
    <2>2. Among(m, n, x) <=> Among(s, f[n], x) \/ Among(t, n - f[n], x)
      BY <1>7
    <2>3. Among(m, n + 1, x) <=> Among(m, n, x) \/ m[n + 1] = x
      BY <2>1 DEF Among
    <2>4. f[n] \in Nat /\ n - f[n] \in Nat
      <3> DEFINE e == n + 1
      <3>1. e \in 1..N /\ e - 1 = n
        BY <2>1
      <3> HIDE DEF e
      <3>2. f[e - 1] \in 0..Len(s) /\ (e - 1) - f[e - 1] \in 0..Len(t)
        BY <1>2, <3>1
      <3> QED  BY <3>1, <3>2
    <2>5. CASE f[n + 1] = f[n] + 1 /\ (n + 1) - f[n + 1] = n - f[n] /\ m[n + 1] = s[f[n + 1]]
      <3>1. Among(s, f[n] + 1, x) <=> Among(s, f[n], x) \/ s[f[n] + 1] = x
        BY <2>4 DEF Among
      <3> QED  BY <2>1, <2>2, <2>3, <2>5, <3>1
    <2>6. CASE f[n + 1] = f[n] /\ (n + 1) - f[n + 1] = (n - f[n]) + 1 /\ m[n + 1] = t[(n + 1) - f[n + 1]]
      <3>1. Among(t, (n - f[n]) + 1, x) <=> Among(t, n - f[n], x) \/ t[(n - f[n]) + 1] = x
        BY <2>4 DEF Among
      <3> QED  BY <2>1, <2>2, <2>3, <2>6, <3>1
    <2> QED  BY <1>2, <2>1, <2>5, <2>6
  <1> HIDE DEF S
  <1>8. 0..N \subseteq S
    BY <1>1, <1>6, <1>7, IntervalInduction
  <1>9. N \in S
    BY <1>1, <1>8
  <1> QED  BY <1>5, <1>9 DEF S

\* A node of the merged list is smaller than all that is left of both lists.
LEMMA MergeLeast ==
    ASSUME NEW s \in Seq(Int), NEW t \in Seq(Int), Sorted(s), Sorted(t),
           \A i \in 1..Len(s), j \in 1..Len(t) : s[i] # t[j],
           NEW n \in 1..(Len(s) + Len(t))
    PROVE  LET f == Firsts(s, t)[n]
               m == merge_tnode_list(s, t)
           IN  /\ \A i \in (f + 1)..Len(s) : m[n] < s[i]
               /\ \A j \in (n - f + 1)..Len(t) : m[n] < t[j]
  <1> DEFINE f == Firsts(s, t)[n]
             i == Firsts(s, t)[n - 1]
             j == n - 1 - i
             x == merge_tnode_list(s, t)[n]
  <1>1. Len(s) \in Nat /\ Len(t) \in Nat /\ \A a \in 1..Len(s) : s[a] \in Int
        /\ \A b \in 1..Len(t) : t[b] \in Int
    BY ElementOfSeq
  <1>2. /\ i \in 0..Len(s) /\ j \in 0..Len(t)
        /\ \/ /\ of_first(s, t, i, j) /\ i + 1 \in 1..Len(s)
              /\ f = i + 1 /\ n - f = j /\ x = s[i + 1]
           \/ /\ ~of_first(s, t, i, j) /\ j + 1 \in 1..Len(t)
              /\ f = i /\ n - f = j + 1 /\ x = t[j + 1]
    BY MergeSteps
  <1> HIDE DEF f, i, j, x
  <1>3. CASE /\ of_first(s, t, i, j) /\ i + 1 \in 1..Len(s)
             /\ f = i + 1 /\ n - f = j /\ x = s[i + 1]
    <2>1. \A a \in (i + 2)..Len(s) : s[i + 1] < s[a]
      BY <1>1, <1>2, <1>3 DEF Sorted
    <2>2. ASSUME NEW b \in (j + 1)..Len(t) PROVE s[i + 1] < t[b]
      <3>1. j + 1 \in 1..Len(t) /\ b \in 1..Len(t) /\ j < Len(t)
        <4>1. j \in 0..Len(t) /\ Len(t) \in Nat
          BY <1>1, <1>2
        <4> QED  BY <4>1
      <3>2. s[i + 1] <= t[j + 1] /\ s[i + 1] # t[j + 1]
        BY <1>3, <3>1 DEF of_first
      <3>3. b = j + 1 \/ t[j + 1] < t[b]
        BY <1>1, <1>2, <3>1 DEF Sorted
      <3>4. s[i + 1] \in Int /\ t[j + 1] \in Int /\ t[b] \in Int
        BY <1>1, <1>3, <3>1
      <3> QED  BY <3>2, <3>3, <3>4
    <2>3. (f + 1)..Len(s) = (i + 2)..Len(s)
      BY <1>2, <1>3
    <2> QED  BY <1>3, <2>1, <2>2, <2>3 DEF f, x
  <1>4. CASE /\ ~of_first(s, t, i, j) /\ j + 1 \in 1..Len(t)
             /\ f = i /\ n - f = j + 1 /\ x = t[j + 1]
    <2>1. \A b \in (j + 2)..Len(t) : t[j + 1] < t[b]
      BY <1>1, <1>2, <1>4 DEF Sorted
    <2>2. ASSUME NEW a \in (i + 1)..Len(s) PROVE t[j + 1] < s[a]
      <3>1. i + 1 \in 1..Len(s) /\ a \in 1..Len(s) /\ i < Len(s)
        BY <1>1, <1>2
      <3>2. t[j + 1] < s[i + 1]
        <4>1. ~(s[i + 1] <= t[j + 1])
          BY <1>4, <3>1 DEF of_first
        <4>2. t[j + 1] \in Int /\ s[i + 1] \in Int
          BY <1>1, <1>4, <3>1
        <4> QED  BY <4>1, <4>2
      <3>3. a = i + 1 \/ s[i + 1] < s[a]
        BY <1>1, <1>2, <3>1 DEF Sorted
      <3>4. t[j + 1] \in Int /\ s[i + 1] \in Int /\ s[a] \in Int
        BY <1>1, <1>4, <3>1
      <3> QED  BY <3>2, <3>3, <3>4
    <2>3. (n - f + 1)..Len(t) = (j + 2)..Len(t)
      BY <1>2, <1>4
    <2> QED  BY <1>4, <2>1, <2>2, <2>3 DEF f, x
  <1> QED  BY <1>2, <1>3, <1>4

\* Of neighbours in order follows the order of all.
LEMMA SortedByNeighbours ==
    ASSUME NEW s \in Seq(Int), \A i \in 1..(Len(s) - 1) : s[i] < s[i + 1]
    PROVE  Sorted(s)
  <1> DEFINE S == {j \in 0..Len(s) : \A i \in 1..j : i < j => s[i] < s[j]}
  <1>1. Len(s) \in Nat /\ \A i \in 1..Len(s) : s[i] \in Int
    BY ElementOfSeq
  <1>2. 0 \in S
    BY <1>1
  <1>3. ASSUME NEW j \in 0..(Len(s) - 1), j \in S PROVE j + 1 \in S
    <2>1. j + 1 \in 0..Len(s) /\ j \in Nat
      BY <1>1
    <2>2. ASSUME NEW i \in 1..(j + 1), i < j + 1 PROVE s[i] < s[j + 1]
      <3>1. j \in 1..(Len(s) - 1) /\ j \in 1..Len(s) /\ i \in 1..j /\ i \in 1..Len(s) /\ j + 1 \in 1..Len(s)
        BY <1>1, <2>1, <2>2
      <3>2. s[j] < s[j + 1]
        BY <3>1
      <3>3. i = j \/ s[i] < s[j]
        BY <1>3, <2>1, <3>1
      <3> QED  BY <1>1, <3>1, <3>2, <3>3
    <2> QED  BY <2>1, <2>2
  <1> HIDE DEF S
  <1>4. 0..Len(s) \subseteq S
    BY <1>1, <1>2, <1>3, IntervalInduction
  <1> SUFFICES ASSUME NEW i \in 1..Len(s), NEW j \in 1..Len(s), i < j PROVE s[i] < s[j]
    BY DEF Sorted
  <1>5. j \in S /\ i \in 1..j
    BY <1>1, <1>4
  <1> QED  BY <1>5 DEF S

\* Merging sorted lists without a common node gives a sorted list.
LEMMA MergeSorted ==
    ASSUME NEW s \in Seq(Int), NEW t \in Seq(Int), Sorted(s), Sorted(t),
           \A i \in 1..Len(s), j \in 1..Len(t) : s[i] # t[j]
    PROVE  Sorted(merge_tnode_list(s, t))
  <1> DEFINE f == Firsts(s, t)
             N == Len(s) + Len(t)
             m == merge_tnode_list(s, t)
  <1>1. m \in Seq(Int) /\ Len(m) = N /\ N \in Nat /\ Len(s) \in Nat /\ Len(t) \in Nat
    BY MergeFacts
  <1>2. ASSUME NEW n \in 1..(Len(m) - 1) PROVE m[n] < m[n + 1]
    <2>1. n \in 1..N /\ n + 1 \in 1..N /\ (n + 1) - 1 = n /\ n \in Nat
      BY <1>1
    <2>2. /\ \A i \in (f[n] + 1)..Len(s) : m[n] < s[i]
          /\ \A j \in (n - f[n] + 1)..Len(t) : m[n] < t[j]
      BY <2>1, MergeLeast
    <2>3. /\ f[n] \in 0..Len(s) /\ n - f[n] \in 0..Len(t)
          /\ \/ f[n] + 1 \in 1..Len(s) /\ m[n + 1] = s[f[n] + 1]
             \/ (n - f[n]) + 1 \in 1..Len(t) /\ m[n + 1] = t[(n - f[n]) + 1]
      <3> DEFINE q == n + 1
      <3>1. q \in 1..(Len(s) + Len(t)) /\ q - 1 = n
        BY <2>1
      <3> HIDE DEF q
      <3>2. /\ f[q - 1] \in 0..Len(s) /\ q - 1 - f[q - 1] \in 0..Len(t)
            /\ \/ f[q - 1] + 1 \in 1..Len(s) /\ m[q] = s[f[q - 1] + 1]
               \/ (q - 1 - f[q - 1]) + 1 \in 1..Len(t) /\ m[q] = t[(q - 1 - f[q - 1]) + 1]
        <4> DEFINE i == f[q - 1]
                   j == q - 1 - f[q - 1]
        <4>1. /\ i \in 0..Len(s) /\ j \in 0..Len(t)
              /\ \/ /\ of_first(s, t, i, j) /\ i + 1 \in 1..Len(s)
                    /\ f[q] = i + 1 /\ q - f[q] = j /\ m[q] = s[i + 1]
                 \/ /\ ~of_first(s, t, i, j) /\ j + 1 \in 1..Len(t)
                    /\ f[q] = i /\ q - f[q] = j + 1 /\ m[q] = t[j + 1]
          BY <3>1, MergeSteps
        <4> HIDE DEF f, m
        <4> QED  BY <4>1
      <3> HIDE DEF f, m
      <3> QED  BY <3>1, <3>2 DEF q
    <2> HIDE DEF f, m, N
    <2>4. CASE f[n] + 1 \in 1..Len(s) /\ m[n + 1] = s[f[n] + 1]
      <3>1. f[n] + 1 \in (f[n] + 1)..Len(s)
        BY <2>3, <2>4
      <3> QED  BY <2>2, <2>4, <3>1
    <2>5. CASE (n - f[n]) + 1 \in 1..Len(t) /\ m[n + 1] = t[(n - f[n]) + 1]
      <3>1. (n - f[n]) + 1 \in (n - f[n] + 1)..Len(t)
        BY <2>3, <2>5
      <3> QED  BY <2>2, <2>5, <3>1
    <2> QED  BY <2>3, <2>4, <2>5
  <1> HIDE DEF m
  <1>3. Sorted(m)
    BY <1>1, <1>2, SortedByNeighbours
  <1> QED  BY <1>3 DEF m

\* The halves of a list.
LEMMA BisectFacts ==
    ASSUME NEW s \in Seq(Int), ~short(s)
    PROVE  LET b == bisect_list(s)
               h == Len(s) \div 2
           IN  /\ b[1] \in Seq(Int) /\ Len(b[1]) = h
               /\ b[2] \in Seq(Int) /\ Len(b[2]) = Len(s) - h
               /\ h \in 1..(Len(s) - 1)
               /\ \A i \in 1..h : b[1][i] = s[i]
               /\ \A i \in 1..(Len(s) - h) : b[2][i] = s[h + i]
  <1> DEFINE h == Len(s) \div 2
             b == bisect_list(s)
  <1>1. Len(s) \in Nat /\ Len(s) > 1 /\ \A i \in 1..Len(s) : s[i] \in Int
    BY ElementOfSeq DEF short
  <1>2. h \in 1..(Len(s) - 1) /\ h \in Int
    BY <1>1
  <1>3. b[1] = SubSeq(s, 1, h) /\ b[2] = SubSeq(s, h + 1, Len(s))
    BY DEF bisect_list
  <1> HIDE DEF h, b
  <1>4. /\ SubSeq(s, 1, h) \in Seq(Int) /\ Len(SubSeq(s, 1, h)) = h
        /\ \A i \in 1..h : SubSeq(s, 1, h)[i] = s[i]
    <2>1. \A i \in 1..h : s[i] \in Int
      BY <1>1, <1>2
    <2> QED  BY <1>2, <2>1, SubSeqProperties
  <1>5. /\ SubSeq(s, h + 1, Len(s)) \in Seq(Int) /\ Len(SubSeq(s, h + 1, Len(s))) = Len(s) - h
        /\ \A i \in 1..(Len(s) - h) : SubSeq(s, h + 1, Len(s))[i] = s[h + i]
    <2>1. \A i \in (h + 1)..Len(s) : s[i] \in Int
      BY <1>1, <1>2
    <2>2. h + 1 \in Int /\ Len(s) \in Int
      BY <1>1, <1>2
    <2>3. /\ SubSeq(s, h + 1, Len(s)) \in Seq(Int)
          /\ Len(SubSeq(s, h + 1, Len(s))) = Len(s) - (h + 1) + 1
          /\ \A i \in 1..(Len(s) - (h + 1) + 1) : SubSeq(s, h + 1, Len(s))[i] = s[(h + 1) + i - 1]
      BY <1>1, <1>2, <2>1, <2>2, SubSeqProperties
    <2>4. Len(s) - (h + 1) + 1 = Len(s) - h /\ \A i \in 1..(Len(s) - h) : (h + 1) + i - 1 = h + i
      BY <1>1, <1>2
    <2> QED  BY <2>3, <2>4
  <1> QED  BY <1>2, <1>3, <1>4, <1>5 DEF h, b

\* What merge_sort_tnode makes of s when g is what it makes of the halves.
SortedBy(g, s) ==
    IF short(s) THEN s
    ELSE merge_tnode_list(g[bisect_list(s)[1]], g[bisect_list(s)[2]])

\* g is merge_sort_tnode for lists of up to n nodes.
SortsTo(g, n) ==
    /\ g \in [Seq(Int) -> Seq(Int)]
    /\ \A s \in Seq(Int) : Len(s) <= n => g[s] = SortedBy(g, s)

\* The halves of a list are lists, and shorter.
LEMMA Halves ==
    ASSUME NEW s \in Seq(Int), ~short(s)
    PROVE  /\ bisect_list(s)[1] \in Seq(Int) /\ Len(bisect_list(s)[1]) \in 0..(Len(s) - 1)
           /\ bisect_list(s)[2] \in Seq(Int) /\ Len(bisect_list(s)[2]) \in 0..(Len(s) - 1)
  <1> DEFINE h == Len(s) \div 2
  <1>1. /\ bisect_list(s)[1] \in Seq(Int) /\ Len(bisect_list(s)[1]) = h
        /\ bisect_list(s)[2] \in Seq(Int) /\ Len(bisect_list(s)[2]) = Len(s) - h
        /\ h \in 1..(Len(s) - 1)
    BY BisectFacts
  <1> HIDE DEF h
  <1>2. Len(s) \in Nat
    OBVIOUS
  <1> QED  BY <1>1, <1>2

\* There is such a function for every n.
LEMMA SortExists ==
    ASSUME NEW n \in Nat
    PROVE  \E g : SortsTo(g, n)
  <1> DEFINE S == {m \in Nat : \E g : SortsTo(g, m)}
  <1>1. 0 \in S
    <2> DEFINE g == [s \in Seq(Int) |-> s]
    <2>1. \A s \in Seq(Int) : Len(s) <= 0 => short(s)
      BY DEF short
    <2>2. SortsTo(g, 0)
      BY <2>1 DEF SortsTo, SortedBy
    <2> QED  BY <2>2
  <1>2. ASSUME NEW m \in Nat, m \in S PROVE m + 1 \in S
    <2>1. PICK g : SortsTo(g, m)
      BY <1>2
    <2> DEFINE h == [s \in Seq(Int) |-> SortedBy(g, s)]
    <2>2. g \in [Seq(Int) -> Seq(Int)]
      BY <2>1 DEF SortsTo
    <2>3. ASSUME NEW s \in Seq(Int) PROVE SortedBy(g, s) \in Seq(Int)
      <3>1. CASE short(s)
        BY <3>1 DEF SortedBy
      <3>2. CASE ~short(s)
        <4>1. bisect_list(s)[1] \in Seq(Int) /\ bisect_list(s)[2] \in Seq(Int)
          BY <3>2, Halves
        <4>2. g[bisect_list(s)[1]] \in Seq(Int) /\ g[bisect_list(s)[2]] \in Seq(Int)
          BY <2>2, <4>1
        <4>3. merge_tnode_list(g[bisect_list(s)[1]], g[bisect_list(s)[2]]) \in Seq(Int)
          BY <4>2, MergeFacts
        <4> QED  BY <3>2, <4>3 DEF SortedBy
      <3> QED  BY <3>1, <3>2
    <2>4. h \in [Seq(Int) -> Seq(Int)]
      BY <2>3
    <2>5. \A s \in Seq(Int) : Len(s) <= m => h[s] = g[s]
      BY <2>1 DEF SortsTo
    <2>6. ASSUME NEW s \in Seq(Int), Len(s) <= m + 1 PROVE h[s] = SortedBy(h, s)
      <3>1. CASE short(s)
        BY <3>1 DEF SortedBy
      <3>2. CASE ~short(s)
        <4>1. /\ bisect_list(s)[1] \in Seq(Int) /\ Len(bisect_list(s)[1]) \in 0..(Len(s) - 1)
              /\ bisect_list(s)[2] \in Seq(Int) /\ Len(bisect_list(s)[2]) \in 0..(Len(s) - 1)
          BY <3>2, Halves
        <4>2. Len(bisect_list(s)[1]) <= m /\ Len(bisect_list(s)[2]) <= m
          <5>1. Len(s) \in Nat
            OBVIOUS
          <5> QED  BY <2>6, <4>1, <5>1
        <4>3. h[bisect_list(s)[1]] = g[bisect_list(s)[1]] /\ h[bisect_list(s)[2]] = g[bisect_list(s)[2]]
          BY <2>5, <4>1, <4>2
        <4>4. h[s] = SortedBy(g, s)
          OBVIOUS
        <4> HIDE DEF h
        <4> QED  BY <4>3, <4>4 DEF SortedBy
      <3> QED  BY <3>1, <3>2
    <2> HIDE DEF h
    <2>7. SortsTo(h, m + 1)
      BY <2>4, <2>6 DEF SortsTo
    <2> QED  BY <2>7
  <1> HIDE DEF S
  <1>3. n \in S
    BY <1>1, <1>2, NatSetInduction
  <1> QED  BY <1>3 DEF S

\* And only one.
LEMMA SortUnique ==
    ASSUME NEW n \in Nat, NEW m \in Nat, NEW g, NEW h, SortsTo(g, n), SortsTo(h, m),
           NEW s \in Seq(Int), Len(s) <= n, Len(s) <= m
    PROVE  g[s] = h[s]
  <1> DEFINE S == {i \in Nat : \A q \in Seq(Int) :
                      Len(q) <= i /\ Len(q) <= n /\ Len(q) <= m => g[q] = h[q]}
  <1>1. 0 \in S
    <2>1. \A q \in Seq(Int) : Len(q) <= 0 => short(q)
      BY DEF short
    <2> QED  BY <2>1 DEF SortsTo, SortedBy
  <1>2. ASSUME NEW i \in Nat, i \in S PROVE i + 1 \in S
    <2> SUFFICES ASSUME NEW q \in Seq(Int), Len(q) <= i + 1, Len(q) <= n, Len(q) <= m
                 PROVE  g[q] = h[q]
      OBVIOUS
    <2>1. g[q] = SortedBy(g, q) /\ h[q] = SortedBy(h, q)
      BY DEF SortsTo
    <2>2. CASE short(q)
      BY <2>1, <2>2 DEF SortedBy
    <2>3. CASE ~short(q)
      <3> DEFINE a == bisect_list(q)[1]
                 b == bisect_list(q)[2]
      <3>1. /\ a \in Seq(Int) /\ Len(a) \in 0..(Len(q) - 1)
            /\ b \in Seq(Int) /\ Len(b) \in 0..(Len(q) - 1)
        BY <2>3, Halves
      <3> HIDE DEF a, b
      <3>2. Len(q) \in Nat
        OBVIOUS
      <3>3. /\ Len(a) <= i /\ Len(a) <= n /\ Len(a) <= m
            /\ Len(b) <= i /\ Len(b) <= n /\ Len(b) <= m
        BY <3>1, <3>2
      <3>4. g[a] = h[a] /\ g[b] = h[b]
        BY <1>2, <3>1, <3>3
      <3> QED  BY <2>1, <2>3, <3>4 DEF SortedBy, a, b
    <2> QED  BY <2>2, <2>3
  <1> HIDE DEF S
  <1>3. Len(s) \in S
    <2>1. Nat \subseteq S
      BY <1>1, <1>2, NatSetInduction
    <2> QED  BY <2>1
  <1> QED  BY <1>3 DEF S

\* What the recursion of merge_sort_tnode says.
LEMMA SortRecursion ==
    /\ merge_sort_tnode \in [Seq(Int) -> Seq(Int)]
    /\ \A s \in Seq(Int) : merge_sort_tnode[s] = SortedBy(merge_sort_tnode, s)
  <1> DEFINE G(n) == CHOOSE g : SortsTo(g, n)
             f == [s \in Seq(Int) |-> G(Len(s))[s]]
             Eq(g) == g = [s \in Seq(Int) |->
                             IF short(s) THEN s
                             ELSE merge_tnode_list(g[bisect_list(s)[1]], g[bisect_list(s)[2]])]
  <1>1. \A n \in Nat : SortsTo(G(n), n)
    BY SortExists
  <1> HIDE DEF G
  <1>2. ASSUME NEW s \in Seq(Int) PROVE f[s] \in Seq(Int) /\ f[s] = SortedBy(f, s)
    <2>1. Len(s) \in Nat /\ SortsTo(G(Len(s)), Len(s)) /\ Len(s) <= Len(s) /\ f[s] = G(Len(s))[s]
      BY <1>1
    <2>2. f[s] \in Seq(Int) /\ f[s] = SortedBy(G(Len(s)), s)
      BY <2>1 DEF SortsTo
    <2>3. CASE short(s)
      BY <2>2, <2>3 DEF SortedBy
    <2>4. CASE ~short(s)
      <3> DEFINE a == bisect_list(s)[1]
                 b == bisect_list(s)[2]
      <3>1. /\ a \in Seq(Int) /\ Len(a) \in 0..(Len(s) - 1)
            /\ b \in Seq(Int) /\ Len(b) \in 0..(Len(s) - 1)
        BY <2>4, Halves
      <3> HIDE DEF a, b
      <3>2. Len(a) \in Nat /\ Len(b) \in Nat /\ Len(a) <= Len(s) /\ Len(b) <= Len(s)
            /\ Len(a) <= Len(a) /\ Len(b) <= Len(b)
        BY <2>1, <3>1
      <3>3. G(Len(s))[a] = G(Len(a))[a]
        BY <1>1, <2>1, <3>1, <3>2, SortUnique
      <3>4. G(Len(s))[b] = G(Len(b))[b]
        BY <1>1, <2>1, <3>1, <3>2, SortUnique
      <3>5. f[a] = G(Len(s))[a] /\ f[b] = G(Len(s))[b]
        BY <3>1, <3>3, <3>4
      <3> HIDE DEF f
      <3> QED  BY <2>2, <2>4, <3>5 DEF SortedBy, a, b
    <2> QED  BY <2>2, <2>3, <2>4
  <1>3. f = [s \in Seq(Int) |-> f[s]]
    OBVIOUS
  <1> HIDE DEF f
  <1>4. Eq(f)
    BY <1>2, <1>3 DEF SortedBy
  <1>5. Eq(merge_sort_tnode)
    <2>1. merge_sort_tnode = CHOOSE h : Eq(h)
      BY DEF merge_sort_tnode
    <2> HIDE DEF Eq
    <2> QED  BY <1>4, <2>1
  <1>6. \A s \in Seq(Int) : merge_sort_tnode[s] = SortedBy(merge_sort_tnode, s)
    BY <1>5 DEF SortedBy
  <1>7. ASSUME NEW n \in Nat PROVE \A s \in Seq(Int) : Len(s) <= n => merge_sort_tnode[s] \in Seq(Int)
    <2> DEFINE S == {m \in Nat : \A s \in Seq(Int) : Len(s) <= m => merge_sort_tnode[s] \in Seq(Int)}
    <2>1. 0 \in S
      <3>1. \A s \in Seq(Int) : Len(s) <= 0 => short(s)
        BY DEF short
      <3> QED  BY <1>6, <3>1 DEF SortedBy
    <2>2. ASSUME NEW m \in Nat, m \in S PROVE m + 1 \in S
      <3> SUFFICES ASSUME NEW s \in Seq(Int), Len(s) <= m + 1 PROVE merge_sort_tnode[s] \in Seq(Int)
        OBVIOUS
      <3>1. CASE short(s)
        BY <1>6, <3>1 DEF SortedBy
      <3>2. CASE ~short(s)
        <4> DEFINE a == bisect_list(s)[1]
                   b == bisect_list(s)[2]
        <4>1. /\ a \in Seq(Int) /\ Len(a) \in 0..(Len(s) - 1)
              /\ b \in Seq(Int) /\ Len(b) \in 0..(Len(s) - 1)
          BY <3>2, Halves
        <4>2. merge_sort_tnode[s] = merge_tnode_list(merge_sort_tnode[a], merge_sort_tnode[b])
          BY <1>6, <3>2 DEF SortedBy
        <4> HIDE DEF a, b
        <4>3. Len(a) <= m /\ Len(b) <= m
          <5>1. Len(s) \in Nat
            OBVIOUS
          <5> QED  BY <4>1, <5>1
        <4>4. merge_sort_tnode[a] \in Seq(Int) /\ merge_sort_tnode[b] \in Seq(Int)
          BY <2>2, <4>1, <4>3
        <4> QED  BY <4>2, <4>4, MergeFacts
      <3> QED  BY <3>1, <3>2
    <2> HIDE DEF S
    <2>3. n \in S
      BY <2>1, <2>2, NatSetInduction
    <2> QED  BY <2>3 DEF S
  <1>8. \A s \in Seq(Int) : merge_sort_tnode[s] \in Seq(Int)
    <2>1. \A s \in Seq(Int) : Len(s) \in Nat /\ Len(s) <= Len(s)
      OBVIOUS
    <2> QED  BY <1>7, <2>1
  <1>9. merge_sort_tnode = [s \in Seq(Int) |-> merge_sort_tnode[s]]
    BY <1>5
  <1> QED  BY <1>6, <1>8, <1>9

\* No node is twice in the list.
Different(s) == \A i, j \in 1..Len(s) : s[i] = s[j] => i = j

\* m is the sorted list of the nodes of s.
SortOf(m, s) ==
    /\ m \in Seq(Int) /\ Len(m) = Len(s) /\ Sorted(m)
    /\ \A x : Among(m, Len(m), x) <=> Among(s, Len(s), x)

\* Places in a list and in its halves.
LEMMA HalfPlaces ==
    ASSUME NEW n \in Nat, NEW h \in 1..(n - 1)
    PROVE  /\ \A i \in 1..h : i \in 1..n /\ i <= h
           /\ \A i \in 1..(n - h) : h + i \in 1..n /\ h + i > h /\ i \in Int
           /\ \A i \in 1..n : i \notin 1..h => i - h \in 1..(n - h) /\ h + (i - h) = i
  OBVIOUS

\* A step of the recursion: sorted halves make a sorted list.
LEMMA SortStep ==
    ASSUME NEW s \in Seq(Int), ~short(s), Different(s),
           LET a == bisect_list(s)[1]
               b == bisect_list(s)[2]
           IN  /\ Different(a) => SortOf(merge_sort_tnode[a], a)
               /\ Different(b) => SortOf(merge_sort_tnode[b], b)
    PROVE  SortOf(merge_sort_tnode[s], s)
  <1> DEFINE a == bisect_list(s)[1]
             b == bisect_list(s)[2]
             h == Len(s) \div 2
             p == merge_sort_tnode[a]
             q == merge_sort_tnode[b]
             m == merge_tnode_list(p, q)
  <1>1. /\ a \in Seq(Int) /\ Len(a) = h
        /\ b \in Seq(Int) /\ Len(b) = Len(s) - h
        /\ h \in 1..(Len(s) - 1)
        /\ \A i \in 1..h : a[i] = s[i]
        /\ \A i \in 1..(Len(s) - h) : b[i] = s[h + i]
    BY BisectFacts
  <1>2. Len(s) \in Nat
    OBVIOUS
  <1>3. merge_sort_tnode[s] = m
    BY SortRecursion DEF SortedBy
  <1>4. (Different(a) => SortOf(p, a)) /\ (Different(b) => SortOf(q, b))
    OBVIOUS
  <1> HIDE DEF a, b, h, p, q
  <1>5. Different(a)
    <2> SUFFICES ASSUME NEW i \in 1..Len(a), NEW j \in 1..Len(a), a[i] = a[j] PROVE i = j
      BY DEF Different
    <2>1. h \in 1..(Len(s) - 1) /\ i \in 1..h /\ j \in 1..h
      BY <1>1
    <2>2. i \in 1..Len(s) /\ j \in 1..Len(s)
      BY <1>2, <2>1, HalfPlaces
    <2>3. s[i] = s[j]
      BY <1>1, <2>1
    <2> QED  BY <2>2, <2>3 DEF Different
  <1>6. Different(b)
    <2> SUFFICES ASSUME NEW i \in 1..Len(b), NEW j \in 1..Len(b), b[i] = b[j] PROVE i = j
      BY DEF Different
    <2>1. h + i \in 1..Len(s) /\ h + j \in 1..Len(s)
      <3>1. h \in 1..(Len(s) - 1) /\ i \in 1..(Len(s) - h) /\ j \in 1..(Len(s) - h)
        BY <1>1
      <3> QED  BY <1>2, <3>1, HalfPlaces
    <2>2. s[h + i] = s[h + j]
      BY <1>1
    <2>3. h + i = h + j
      BY <2>1, <2>2 DEF Different
    <2>4. h \in Int /\ i \in Int /\ j \in Int
      BY <1>1
    <2> QED  BY <2>3, <2>4
  <1>7. SortOf(p, a) /\ SortOf(q, b)
    BY <1>4, <1>5, <1>6
  <1>8. /\ p \in Seq(Int) /\ Len(p) = Len(a) /\ Sorted(p)
        /\ q \in Seq(Int) /\ Len(q) = Len(b) /\ Sorted(q)
    BY <1>7 DEF SortOf
  <1>9. ASSUME NEW x
        PROVE  /\ Among(s, Len(s), x) <=> Among(a, Len(a), x) \/ Among(b, Len(b), x)
               /\ ~(Among(a, Len(a), x) /\ Among(b, Len(b), x))
    <2>1. ASSUME Among(s, Len(s), x) PROVE Among(a, Len(a), x) \/ Among(b, Len(b), x)
      <3>1. PICK i \in 1..Len(s) : s[i] = x
        BY <2>1 DEF Among
      <3>2. CASE i \in 1..h
        BY <1>1, <3>1, <3>2 DEF Among
      <3>3. CASE i \notin 1..h
        <4>1. i - h \in 1..(Len(s) - h) /\ h + (i - h) = i
          <5>1. h \in 1..(Len(s) - 1)
            BY <1>1
          <5> QED  BY <1>2, <3>3, <5>1, HalfPlaces
        <4>2. b[i - h] = x
          BY <1>1, <3>1, <4>1
        <4> QED  BY <1>1, <4>1, <4>2 DEF Among
      <3> QED  BY <3>2, <3>3
    <2>2. ASSUME NEW i \in 1..Len(a), a[i] = x PROVE i \in 1..Len(s) /\ i <= h /\ s[i] = x
      <3>1. h \in 1..(Len(s) - 1) /\ i \in 1..h
        BY <1>1
      <3>2. i \in 1..Len(s) /\ i <= h
        BY <1>2, <3>1, HalfPlaces
      <3>3. s[i] = x
        BY <1>1, <2>2, <3>1
      <3> QED  BY <3>2, <3>3
    <2>3. ASSUME NEW i \in 1..Len(b), b[i] = x PROVE h + i \in 1..Len(s) /\ h + i > h /\ s[h + i] = x
      <3>1. h \in 1..(Len(s) - 1) /\ i \in 1..(Len(s) - h)
        BY <1>1
      <3>2. h + i \in 1..Len(s) /\ h + i > h
        BY <1>2, <3>1, HalfPlaces
      <3>3. s[h + i] = x
        BY <1>1, <2>3, <3>1
      <3> QED  BY <3>2, <3>3
    <2>4. Among(a, Len(a), x) \/ Among(b, Len(b), x) => Among(s, Len(s), x)
      BY <2>2, <2>3 DEF Among
    <2>5. ASSUME Among(a, Len(a), x), Among(b, Len(b), x) PROVE FALSE
      <3>1. PICK i \in 1..Len(a) : a[i] = x
        BY <2>5 DEF Among
      <3>2. PICK j \in 1..Len(b) : b[j] = x
        BY <2>5 DEF Among
      <3>3. i = h + j
        BY <2>2, <2>3, <3>1, <3>2 DEF Different
      <3> QED  BY <1>1, <2>2, <2>3, <3>1, <3>2, <3>3
    <2> QED  BY <2>1, <2>4, <2>5
  <1>10. ASSUME NEW i \in 1..Len(p), NEW j \in 1..Len(q), p[i] = q[j] PROVE FALSE
    <2>1. Among(p, Len(p), p[i]) /\ Among(q, Len(q), p[i])
      BY <1>10 DEF Among
    <2>2. Among(a, Len(a), p[i]) /\ Among(b, Len(b), p[i])
      BY <1>7, <2>1 DEF SortOf
    <2> QED  BY <1>9, <2>2
  <1>11. Sorted(m)
    BY <1>8, <1>10, MergeSorted
  <1>12. m \in Seq(Int) /\ Len(m) = Len(p) + Len(q)
         /\ \A x : Among(m, Len(m), x) <=> Among(p, Len(p), x) \/ Among(q, Len(q), x)
    BY <1>8, MergeFacts
  <1> HIDE DEF m
  <1>13. Len(m) = Len(s)
    BY <1>1, <1>2, <1>8, <1>12
  <1>14. \A x : Among(m, Len(m), x) <=> Among(s, Len(s), x)
    BY <1>7, <1>9, <1>12 DEF SortOf
  <1> QED  BY <1>3, <1>11, <1>12, <1>13, <1>14 DEF SortOf

\* merge_sort_tnode sorts.
LEMMA SortFacts ==
    ASSUME NEW s \in Seq(Int), Different(s)
    PROVE  SortOf(merge_sort_tnode[s], s)
  <1> DEFINE S == {n \in Nat : \A q \in Seq(Int) :
                      Len(q) <= n /\ Different(q) => SortOf(merge_sort_tnode[q], q)}
  <1>1. ASSUME NEW q \in Seq(Int), short(q) PROVE SortOf(merge_sort_tnode[q], q)
    <2>1. merge_sort_tnode[q] = q
      BY <1>1, SortRecursion DEF SortedBy
    <2>2. Len(q) \in Nat /\ Len(q) <= 1
      BY <1>1 DEF short
    <2>3. Sorted(q)
      BY <2>2 DEF Sorted
    <2> QED  BY <2>1, <2>3 DEF SortOf
  <1>2. 0 \in S
    <2>1. \A q \in Seq(Int) : Len(q) <= 0 => short(q)
      BY DEF short
    <2> QED  BY <1>1, <2>1
  <1>3. ASSUME NEW n \in Nat, n \in S PROVE n + 1 \in S
    <2> SUFFICES ASSUME NEW q \in Seq(Int), Len(q) <= n + 1, Different(q)
                 PROVE  SortOf(merge_sort_tnode[q], q)
      OBVIOUS
    <2>1. CASE short(q)
      BY <1>1, <2>1
    <2>2. CASE ~short(q)
      <3> DEFINE a == bisect_list(q)[1]
                 b == bisect_list(q)[2]
      <3>1. /\ a \in Seq(Int) /\ Len(a) \in 0..(Len(q) - 1)
            /\ b \in Seq(Int) /\ Len(b) \in 0..(Len(q) - 1)
        BY <2>2, Halves
      <3> HIDE DEF a, b
      <3>2. Len(a) <= n /\ Len(b) <= n
        <4>1. Len(q) \in Nat
          OBVIOUS
        <4> QED  BY <3>1, <4>1
      <3>3. /\ Different(a) => SortOf(merge_sort_tnode[a], a)
            /\ Different(b) => SortOf(merge_sort_tnode[b], b)
        BY <1>3, <3>1, <3>2
      <3> QED  BY <2>2, <3>3, SortStep DEF a, b
    <2> QED  BY <2>1, <2>2
  <1> HIDE DEF S
  <1>4. Len(s) \in S /\ Len(s) <= Len(s)
    <2>1. Nat \subseteq S
      BY <1>2, <1>3, NatSetInduction
    <2> QED  BY <2>1
  <1> QED  BY <1>4 DEF S

-----------------------------------------------------------------------------
(* Paths.                                                                   *)

\* The first n steps of path p.
Upto(p, n) == SubSeq(p, 1, n)

\* It is a path of that length.
LEMMA UptoFacts ==
    ASSUME NEW p \in Seq(Int), NEW n \in 0..Len(p)
    PROVE  /\ Upto(p, n) \in Seq(Int) /\ Len(Upto(p, n)) = n
           /\ \A i \in 1..n : Upto(p, n)[i] = p[i]
  <1>1. Len(p) \in Nat /\ \A i \in 1..Len(p) : p[i] \in Int
    BY ElementOfSeq
  <1>2. \A i \in 1..n : p[i] \in Int
    BY <1>1
  <1> QED  BY <1>1, <1>2, SubSeqProperties DEF Upto

\* The whole of a path.
LEMMA UptoAll ==
    ASSUME NEW p \in Seq(Int)
    PROVE  Upto(p, Len(p)) = p /\ Upto(p, 0) = << >> /\ Len(p) \in Nat
           /\ (p = << >> <=> Len(p) = 0)
  BY SubSeqFull, SubSeqEmpty, EmptySeq, LenProperties DEF Upto

\* A part of a part.
LEMMA UptoUpto ==
    ASSUME NEW p \in Seq(Int), NEW m \in 0..Len(p), NEW n \in 0..m
    PROVE  Upto(Upto(p, m), n) = Upto(p, n)
  <1> DEFINE q == Upto(p, m)
  <1>1. Len(p) \in Nat /\ n \in 0..Len(p)
    OBVIOUS
  <1>2. q \in Seq(Int) /\ Len(q) = m /\ \A i \in 1..m : q[i] = p[i]
    BY UptoFacts
  <1> HIDE DEF q
  <1>3. /\ Upto(q, n) \in Seq(Int) /\ Len(Upto(q, n)) = n
        /\ \A i \in 1..n : Upto(q, n)[i] = q[i]
    BY <1>2, UptoFacts
  <1>4. /\ Upto(p, n) \in Seq(Int) /\ Len(Upto(p, n)) = n
        /\ \A i \in 1..n : Upto(p, n)[i] = p[i]
    BY <1>1, UptoFacts
  <1>5. \A i \in 1..n : i \in 1..m
    OBVIOUS
  <1>6. Upto(q, n) = Upto(p, n)
    BY <1>2, <1>3, <1>4, <1>5, SeqEqual
  <1> QED  BY <1>6 DEF q

\* One step more.
LEMMA UptoNext ==
    ASSUME NEW p \in Seq(Int), NEW n \in 0..(Len(p) - 1)
    PROVE  p[n + 1] \in Int /\ Append(Upto(p, n), p[n + 1]) = Upto(p, n + 1)
  <1>1. Len(p) \in Nat /\ n \in 0..Len(p) /\ n + 1 \in 0..Len(p) /\ n + 1 \in 1..Len(p) /\ n \in Nat
    OBVIOUS
  <1>2. p[n + 1] \in Int
    BY <1>1, ElementOfSeq
  <1> DEFINE q == Upto(p, n)
             c == p[n + 1]
             r == Upto(p, n + 1)
  <1>3. q \in Seq(Int) /\ Len(q) = n /\ \A i \in 1..n : q[i] = p[i]
    BY <1>1, UptoFacts
  <1>4. r \in Seq(Int) /\ Len(r) = n + 1 /\ \A i \in 1..(n + 1) : r[i] = p[i]
    BY <1>1, UptoFacts
  <1> HIDE DEF q, r
  <1>5. /\ Append(q, c) \in Seq(Int) /\ Len(Append(q, c)) = n + 1
        /\ \A i \in 1..n : Append(q, c)[i] = q[i]
        /\ Append(q, c)[n + 1] = c
    BY <1>2, <1>3, AppendProperties
  <1>6. \A i \in 1..(n + 1) : i \in 1..n \/ i = n + 1
    BY <1>1
  <1>7. \A i \in 1..(n + 1) : Append(q, c)[i] = r[i]
    BY <1>3, <1>4, <1>5, <1>6
  <1>8. Append(q, c) = r
    BY <1>4, <1>5, <1>7, SeqEqual
  <1> QED  BY <1>2, <1>8 DEF q, r

\* The parent of a node, and the step from it.
LEMMA FrontFacts ==
    ASSUME NEW p \in Seq(Int), p # << >>
    PROVE  /\ Len(p) \in Nat /\ Len(p) > 0
           /\ Front(p) = Upto(p, Len(p) - 1)
           /\ Front(p) \in Seq(Int) /\ Len(Front(p)) = Len(p) - 1
           /\ Last(p) \in Int /\ Last(p) = p[Len(p)]
           /\ Append(Front(p), Last(p)) = p
  <1>1. Len(p) \in Nat /\ Len(p) > 0 /\ Upto(p, Len(p)) = p
    BY UptoAll
  <1>2. Front(p) = Upto(p, Len(p) - 1) /\ Last(p) = p[Len(p)]
    BY DEF Front, Last, Upto
  <1>3. Len(p) - 1 \in 0..(Len(p) - 1) /\ Len(p) - 1 \in 0..Len(p) /\ (Len(p) - 1) + 1 = Len(p)
    BY <1>1
  <1>4. Upto(p, Len(p) - 1) \in Seq(Int) /\ Len(Upto(p, Len(p) - 1)) = Len(p) - 1
    BY <1>3, UptoFacts
  <1>5. p[(Len(p) - 1) + 1] \in Int /\ Append(Upto(p, Len(p) - 1), p[(Len(p) - 1) + 1]) = Upto(p, (Len(p) - 1) + 1)
    BY <1>3, UptoNext
  <1> QED  BY <1>1, <1>2, <1>3, <1>4, <1>5

\* A child of a node.
LEMMA ChildFacts ==
    ASSUME NEW p \in Seq(Int), NEW c \in Int
    PROVE  /\ Append(p, c) \in Seq(Int) /\ Append(p, c) # << >> /\ Len(Append(p, c)) = Len(p) + 1
           /\ Front(Append(p, c)) = p /\ Last(Append(p, c)) = c
           /\ Append(p, c) # p
  <1> DEFINE q == Append(p, c)
  <1>1. q \in Seq(Int) /\ q # << >> /\ Len(q) = Len(p) + 1
        /\ (\A i \in 1..Len(p) : q[i] = p[i]) /\ q[Len(p) + 1] = c
    BY AppendProperties
  <1> HIDE DEF q
  <1>2. Len(p) \in Nat /\ Len(q) - 1 = Len(p) /\ Len(p) \in 0..Len(q)
    BY <1>1
  <1>3. Front(q) = Upto(q, Len(p)) /\ Last(q) = c
    BY <1>1, <1>2 DEF Front, Last, Upto
  <1>4. Upto(q, Len(p)) \in Seq(Int) /\ Len(Upto(q, Len(p))) = Len(p)
        /\ \A i \in 1..Len(p) : Upto(q, Len(p))[i] = q[i]
    BY <1>1, <1>2, UptoFacts
  <1>5. Upto(q, Len(p)) = p
    BY <1>1, <1>4, SeqEqual
  <1>6. q # p
    BY <1>1, <1>2
  <1> QED  BY <1>1, <1>3, <1>5, <1>6 DEF q

\* A prefix is the first part of a path.
LEMMA PrefixIff ==
    ASSUME NEW p \in Seq(Int), NEW q \in Seq(Int)
    PROVE  IsPrefix(p, q) <=> Len(p) <= Len(q) /\ p = Upto(q, Len(p))
  BY SubSeqFull DEF IsPrefix, Upto

\* What the set of prefixes is.
LEMMA PrefixesIff ==
    ASSUME NEW p, NEW q \in Seq(Int)
    PROVE  p \in Prefixes(q) <=> p \in Seq(Int) /\ IsPrefix(p, q)
  <1>1. Len(q) \in Nat
    OBVIOUS
  <1>2. ASSUME p \in Prefixes(q) PROVE p \in Seq(Int) /\ IsPrefix(p, q)
    <2>1. PICK n \in 0..Len(q) : p = Upto(q, n)
      BY <1>2 DEF Prefixes, Upto
    <2>2. p \in Seq(Int) /\ Len(p) = n
      BY <2>1, UptoFacts
    <2> QED  BY <1>1, <2>1, <2>2, PrefixIff
  <1>3. ASSUME p \in Seq(Int), IsPrefix(p, q) PROVE p \in Prefixes(q)
    <2>1. Len(p) <= Len(q) /\ p = Upto(q, Len(p)) /\ Len(p) \in Nat
      BY <1>3, PrefixIff, UptoAll
    <2>2. Len(p) \in 0..Len(q)
      BY <1>1, <2>1
    <2> QED  BY <2>1, <2>2 DEF Prefixes, Upto
  <1> QED  BY <1>2, <1>3

\* A child is on the way to k when its parent is, and it the next node.
LEMMA PrefixChild ==
    ASSUME NEW k \in Seq(Int), NEW p \in Seq(Int), NEW c \in Int
    PROVE  IsPrefix(Append(p, c), k) <=> IsStrictPrefix(p, k) /\ k[Len(p) + 1] = c
  <1> DEFINE q == Append(p, c)
  <1>1. /\ q \in Seq(Int) /\ Len(q) = Len(p) + 1 /\ Front(q) = p /\ Last(q) = c /\ q # << >>
    BY ChildFacts
  <1>2. Len(p) \in Nat /\ Len(k) \in Nat
    OBVIOUS
  <1>3. IsPrefix(q, k) <=> Len(q) <= Len(k) /\ q = Upto(k, Len(q))
    BY <1>1, PrefixIff
  <1>4. IsPrefix(p, k) <=> Len(p) <= Len(k) /\ p = Upto(k, Len(p))
    BY PrefixIff
  <1>5. Upto(k, Len(k)) = k
    BY UptoAll
  <1> HIDE DEF q
  <1>6. ASSUME IsPrefix(q, k) PROVE IsStrictPrefix(p, k) /\ k[Len(p) + 1] = c
    <2>1. Len(p) \in 0..(Len(k) - 1) /\ Len(p) \in 0..Len(q) /\ Len(q) \in 0..Len(k)
      BY <1>1, <1>2, <1>3, <1>6
    <2>2. Upto(q, Len(p)) = Upto(k, Len(p))
      BY <1>3, <1>6, <2>1, UptoUpto
    <2>3. p = Upto(q, Len(p))
      BY <1>1, <1>2, FrontFacts
    <2>4. p # k
      BY <1>2, <2>1
    <2>5. q[Len(q)] = c
      BY <1>1, FrontFacts
    <2>6. Len(p) + 1 \in 1..Len(q)
      BY <1>1, <1>2
    <2>7. Upto(k, Len(q))[Len(p) + 1] = k[Len(p) + 1]
      BY <1>1, <2>1, <2>6, UptoFacts
    <2> QED  BY <1>1, <1>2, <1>3, <1>4, <1>6, <2>1, <2>2, <2>3, <2>4, <2>5, <2>7 DEF IsStrictPrefix
  <1>7. ASSUME IsStrictPrefix(p, k), k[Len(p) + 1] = c PROVE IsPrefix(q, k)
    <2>1. Len(p) <= Len(k) /\ p = Upto(k, Len(p)) /\ p # k
      BY <1>4, <1>7 DEF IsStrictPrefix
    <2>2. Len(p) # Len(k)
      BY <1>5, <2>1
    <2>3. Len(p) \in 0..(Len(k) - 1)
      BY <1>2, <2>1, <2>2
    <2>4. Append(Upto(k, Len(p)), k[Len(p) + 1]) = Upto(k, Len(p) + 1)
      BY <2>3, UptoNext
    <2> QED  BY <1>1, <1>2, <1>3, <1>7, <2>1, <2>3, <2>4 DEF q
  <1> QED  BY <1>6, <1>7 DEF q

\* A path has itself as a prefix; from one prefix to the next is one step; there
\* is no way back.
LEMMA PrefixFacts ==
    ASSUME NEW p \in Seq(Int), NEW q \in Seq(Int)
    PROVE  /\ IsPrefix(p, p) /\ IsPrefix(<< >>, p)
           /\ IsPrefix(p, q) /\ IsPrefix(q, p) => p = q
           /\ IsStrictPrefix(p, q) => Len(p) \in 0..(Len(q) - 1)
           /\ q # << >> => (IsStrictPrefix(p, q) <=> IsPrefix(p, Front(q)))
  <1>1. Len(p) \in Nat /\ Len(q) \in Nat /\ Upto(p, Len(p)) = p /\ Upto(q, Len(q)) = q
        /\ Upto(p, 0) = << >> /\ << >> \in Seq(Int) /\ Len(<< >>) = 0
    BY UptoAll, EmptySeq
  <1>2. /\ IsPrefix(p, p) <=> Len(p) <= Len(p) /\ p = Upto(p, Len(p))
        /\ IsPrefix(<< >>, p) <=> Len(<< >>) <= Len(p) /\ << >> = Upto(p, Len(<< >>))
        /\ IsPrefix(p, q) <=> Len(p) <= Len(q) /\ p = Upto(q, Len(p))
        /\ IsPrefix(q, p) <=> Len(q) <= Len(p) /\ q = Upto(p, Len(q))
    BY <1>1, PrefixIff
  <1>3. IsPrefix(p, p) /\ IsPrefix(<< >>, p)
    BY <1>1, <1>2
  <1>4. IsPrefix(p, q) /\ IsPrefix(q, p) => p = q
    BY <1>1, <1>2
  <1>5. IsStrictPrefix(p, q) => Len(p) \in 0..(Len(q) - 1)
    <2> SUFFICES ASSUME IsPrefix(p, q), p # q PROVE Len(p) \in 0..(Len(q) - 1)
      BY DEF IsStrictPrefix
    <2>1. Len(p) <= Len(q) /\ Len(p) # Len(q)
      BY <1>1, <1>2
    <2> QED  BY <1>1, <2>1
  <1>6. ASSUME q # << >> PROVE IsStrictPrefix(p, q) <=> IsPrefix(p, Front(q))
    <2> DEFINE f == Front(q)
    <2>1. f = Upto(q, Len(q) - 1) /\ f \in Seq(Int) /\ Len(f) = Len(q) - 1 /\ Len(q) > 0
      BY <1>6, FrontFacts
    <2> HIDE DEF f
    <2>2. IsPrefix(p, f) <=> Len(p) <= Len(f) /\ p = Upto(f, Len(p))
      BY <2>1, PrefixIff
    <2>3. ASSUME Len(p) <= Len(q) - 1 PROVE Upto(f, Len(p)) = Upto(q, Len(p))
      <3>1. Len(q) - 1 \in 0..Len(q) /\ Len(p) \in 0..(Len(q) - 1)
        BY <1>1, <2>1, <2>3
      <3> QED  BY <2>1, <3>1, UptoUpto
    <2>4. IsStrictPrefix(p, q) => IsPrefix(p, f)
      <3> SUFFICES ASSUME IsStrictPrefix(p, q) PROVE IsPrefix(p, f)
        OBVIOUS
      <3>1. Len(p) <= Len(q) - 1
        BY <1>1, <1>5
      <3> QED  BY <1>2, <2>1, <2>2, <2>3, <3>1 DEF IsStrictPrefix
    <2>5. IsPrefix(p, f) => IsStrictPrefix(p, q)
      <3> SUFFICES ASSUME IsPrefix(p, f) PROVE IsStrictPrefix(p, q)
        OBVIOUS
      <3>1. Len(p) <= Len(q) - 1
        BY <2>1, <2>2
      <3>2. Len(p) <= Len(q) /\ p # q
        BY <1>1, <3>1
      <3> QED  BY <1>2, <2>1, <2>2, <2>3, <3>1, <3>2 DEF IsStrictPrefix
    <2> QED  BY <2>4, <2>5 DEF f
  <1> QED  BY <1>3, <1>4, <1>5, <1>6

-----------------------------------------------------------------------------
(* Lists of children.                                                       *)

\* A list of children that is in order.
Ordered(l) ==
    /\ l \in [nodes : Seq(Int), len : Nat]
    /\ Sorted(l.nodes)
    /\ l.len = Len(l.nodes)

\* c is one of the children.
Has(l, c) == Among(l.nodes, Len(l.nodes), c)

\* linear_search finds what is there.
LEMMA SearchFacts ==
    ASSUME NEW l, Ordered(l), NEW c
    PROVE  linear_search(l, c) <=> Has(l, c)
  <1> DEFINE s == l.nodes
  <1>1. s \in Seq(Int) /\ Sorted(s) /\ l.len = Len(s) /\ Len(s) \in Nat /\ DOMAIN s = 1..Len(s)
    BY LenProperties DEF Ordered
  <1> HIDE DEF s
  <1>2. linear_search(l, c) => Has(l, c)
    BY <1>1 DEF linear_search, Has, Among, s
  <1>3. ASSUME Has(l, c) PROVE linear_search(l, c)
    <2>1. PICK i \in 1..Len(s) : s[i] = c
      BY <1>3 DEF Has, Among, s
    <2>2. \A j \in 1..(i - 1) : s[j] < c
      <3> SUFFICES ASSUME NEW j \in 1..(i - 1) PROVE s[j] < c
        OBVIOUS
      <3>1. j \in 1..Len(s) /\ j < i
        BY <1>1
      <3> QED  BY <1>1, <2>1, <3>1 DEF Sorted
    <2>3. l.len # 0
      BY <1>1, <2>1
    <2> QED  BY <1>1, <2>1, <2>2, <2>3 DEF linear_search, s
  <1> QED  BY <1>2, <1>3

\* The empty list.
LEMMA EmptyList ==
    /\ Ordered(list_create)
    /\ \A c : ~Has(list_create, c)
    /\ \A l : Ordered(l) /\ l.len = 0 => \A c : ~Has(l, c)
  <1>1. << >> \in Seq(Int) /\ Len(<< >>) = 0
    BY EmptySeq
  <1>2. list_create.nodes = << >> /\ list_create.len = 0 /\ list_create \in [nodes : Seq(Int), len : Nat]
    BY <1>1 DEF list_create
  <1> QED  BY <1>1, <1>2 DEF Ordered, Sorted, Has, Among

\* A list with one child has no other.
LEMMA OnlyChild ==
    ASSUME NEW l, Ordered(l), l.len = 1, NEW c, NEW d, Has(l, c), Has(l, d)
    PROVE  c = d
  BY DEF Ordered, Has, Among

\* Pushing a new child and sorting.
LEMMA PushFacts ==
    ASSUME NEW l, Ordered(l), NEW c \in Int, ~Has(l, c)
    PROVE  LET m == [nodes |-> merge_sort_tnode[list_push(l, c).nodes], len |-> list_push(l, c).len]
           IN  Ordered(m) /\ \A x : Has(m, x) <=> Has(l, x) \/ x = c
  <1> DEFINE s == l.nodes
             r == <<c>> \o s
             m == merge_sort_tnode[r]
             n == Len(s)
  <1>1. s \in Seq(Int) /\ Sorted(s) /\ l.len = n /\ n \in Nat
    BY DEF Ordered
  <1>2. list_push(l, c).nodes = r /\ list_push(l, c).len = n + 1
    BY <1>1 DEF list_push
  <1>3. <<c>> \in Seq(Int) /\ Len(<<c>>) = 1 /\ <<c>>[1] = c
    OBVIOUS
  <1> HIDE DEF s
  <1>4. r \in Seq(Int) /\ Len(r) = n + 1
        /\ \A i \in 1..(n + 1) : r[i] = IF i <= 1 THEN c ELSE s[i - 1]
    <2>1. /\ r \in Seq(Int) /\ Len(r) = Len(<<c>>) + Len(s)
          /\ \A i \in 1..(Len(<<c>>) + Len(s)) : r[i] = IF i <= Len(<<c>>) THEN <<c>>[i] ELSE s[i - Len(<<c>>)]
      BY <1>1, <1>3, ConcatProperties
    <2>2. Len(<<c>>) + Len(s) = n + 1 /\ 1..(Len(<<c>>) + Len(s)) = 1..(n + 1)
      BY <1>1, <1>3
    <2> HIDE DEF r
    <2>3. ASSUME NEW i \in 1..(n + 1) PROVE r[i] = IF i <= 1 THEN c ELSE s[i - 1]
      <3>1. r[i] = IF i <= 1 THEN <<c>>[i] ELSE s[i - 1]
        BY <1>3, <2>1, <2>2
      <3>2. i <= 1 => i = 1
        BY <1>1
      <3> QED  BY <1>3, <3>1, <3>2
    <2> QED  BY <2>1, <2>2, <2>3
  <1> HIDE DEF r, n
  <1>5. \A i \in 1..n : s[i] # c
    BY DEF Has, Among, s, n
  <1>6. Different(r)
    <2> SUFFICES ASSUME NEW i \in 1..(n + 1), NEW j \in 1..(n + 1), r[i] = r[j], i < j PROVE FALSE
      BY <1>1, <1>4 DEF Different
    <2>1. j - 1 \in 1..n /\ r[j] = s[j - 1]
      BY <1>1, <1>4
    <2>2. i # 1
      BY <1>4, <1>5, <2>1
    <2>3. i - 1 \in 1..n /\ r[i] = s[i - 1] /\ i - 1 < j - 1
      BY <1>1, <1>4, <2>2
    <2>4. s[i - 1] < s[j - 1] /\ s[i - 1] \in Int
      BY <1>1, <2>1, <2>3, ElementOfSeq DEF Sorted, n
    <2> QED  BY <2>1, <2>3, <2>4
  <1>7. SortOf(m, r)
    BY <1>4, <1>6, SortFacts
  <1> HIDE DEF m
  <1>8. ASSUME NEW x PROVE Among(r, n + 1, x) <=> Among(s, n, x) \/ x = c
    <2>1. ASSUME NEW i \in 1..n PROVE i + 1 \in 1..(n + 1) /\ r[i + 1] = s[i]
      <3>1. i + 1 \in 1..(n + 1) /\ (i + 1) - 1 = i /\ ~(i + 1 <= 1)
        BY <1>1
      <3> QED  BY <1>4, <3>1
    <2>2. 1 \in 1..(n + 1) /\ r[1] = c
      BY <1>1, <1>4
    <2>3. ASSUME NEW i \in 1..(n + 1) PROVE i = 1 \/ (i - 1 \in 1..n /\ r[i] = s[i - 1])
      BY <1>1, <1>4
    <2> QED  BY <2>1, <2>2, <2>3 DEF Among
  <1> DEFINE k == [nodes |-> m, len |-> n + 1]
  <1>9. k.nodes = m /\ k.len = n + 1 /\ m \in Seq(Int) /\ Len(m) = n + 1 /\ Sorted(m)
        /\ k \in [nodes : Seq(Int), len : Nat]
    BY <1>1, <1>4, <1>7 DEF SortOf
  <1> HIDE DEF k
  <1>10. Ordered(k)
    BY <1>9 DEF Ordered
  <1>11. \A x : Has(k, x) <=> Has(l, x) \/ x = c
    BY <1>4, <1>7, <1>8, <1>9 DEF SortOf, Has, s, n
  <1> QED  BY <1>2, <1>10, <1>11 DEF k, m

\* Removing a child.
LEMMA RemoveFacts ==
    ASSUME NEW l, Ordered(l), NEW c, Has(l, c)
    PROVE  /\ Ordered(list_remove(l, c))
           /\ \A x : Has(list_remove(l, c), x) <=> Has(l, x) /\ x # c
  <1> DEFINE s == l.nodes
             n == Len(s)
             I == {i \in 1..n : s[i] = c}
             j == Min(I)
             r == SubSeq(s, 1, j - 1) \o SubSeq(s, j + 1, n)
  <1>1. s \in Seq(Int) /\ Sorted(s) /\ l.len = n /\ n \in Nat /\ \A i \in 1..n : s[i] \in Int
    BY ElementOfSeq DEF Ordered
  <1>2. \E i \in 1..n : s[i] = c
    BY DEF Has, Among
  <1>3. j \in 1..n /\ s[j] = c
    <2>1. I \subseteq Nat /\ I # {}
      BY <1>1, <1>2
    <2>2. PICK x \in I : \A y \in I : ~(y < x)
      BY <2>1, NatMin
    <2>3. \A y \in I : x =< y
      BY <2>1, <2>2
    <2>4. j \in I
      <3> HIDE DEF I
      <3> QED  BY <2>2, <2>3 DEF Min
    <2> QED  BY <2>4
  <1>4. RemoveFirst(s, c) = r
    BY <1>2 DEF RemoveFirst, RemoveAt, SelectInSeq
  <1>5. list_remove(l, c) = [nodes |-> r, len |-> n - 1]
    BY <1>1, <1>2, <1>4 DEF list_remove, Contains
  <1> HIDE DEF j, s, I
  <1> DEFINE a == SubSeq(s, 1, j - 1)
             b == SubSeq(s, j + 1, n)
  <1>6. a \in Seq(Int) /\ Len(a) = j - 1 /\ \A i \in 1..(j - 1) : a[i] = s[i]
    <2>1. j - 1 \in Int /\ \A i \in 1..(j - 1) : s[i] \in Int
      BY <1>1, <1>3
    <2>2. /\ a \in Seq(Int) /\ Len(a) = (IF 1 <= j - 1 THEN (j - 1) - 1 + 1 ELSE 0)
          /\ \A i \in 1..((j - 1) - 1 + 1) : a[i] = s[1 + i - 1]
      BY <2>1, SubSeqProperties
    <2> QED  BY <1>3, <2>1, <2>2
  <1>7. b \in Seq(Int) /\ Len(b) = n - j /\ \A i \in 1..(n - j) : b[i] = s[j + i]
    <2>1. j + 1 \in Int /\ n \in Int /\ \A i \in (j + 1)..n : s[i] \in Int
      BY <1>1, <1>3
    <2>2. /\ b \in Seq(Int) /\ Len(b) = (IF j + 1 <= n THEN n - (j + 1) + 1 ELSE 0)
          /\ \A i \in 1..(n - (j + 1) + 1) : b[i] = s[(j + 1) + i - 1]
      BY <2>1, SubSeqProperties
    <2>3. n - (j + 1) + 1 = n - j /\ \A i \in 1..(n - j) : (j + 1) + i - 1 = j + i
      BY <1>1, <1>3
    <2>4. Len(b) = n - j
      BY <1>1, <1>3, <2>2
    <2> HIDE DEF b
    <2> QED  BY <2>2, <2>3, <2>4
  <1> HIDE DEF a, b
  <1>8. r = a \o b
    BY DEF a, b
  <1> HIDE DEF r, n
  <1>9. r \in Seq(Int) /\ Len(r) = n - 1
        /\ \A i \in 1..(n - 1) : r[i] = IF i < j THEN s[i] ELSE s[i + 1]
    <2>1. /\ r \in Seq(Int) /\ Len(r) = Len(a) + Len(b)
          /\ \A i \in 1..(Len(a) + Len(b)) : r[i] = IF i <= Len(a) THEN a[i] ELSE b[i - Len(a)]
      BY <1>6, <1>7, <1>8, ConcatProperties
    <2>2. Len(a) + Len(b) = n - 1
      BY <1>1, <1>3, <1>6, <1>7
    <2>3. ASSUME NEW i \in 1..(n - 1) PROVE r[i] = IF i < j THEN s[i] ELSE s[i + 1]
      <3>1. CASE i < j
        <4>1. i <= Len(a) /\ i \in 1..(j - 1)
          BY <1>1, <1>3, <1>6, <3>1
        <4> QED  BY <1>6, <2>1, <2>2, <3>1, <4>1
      <3>2. CASE ~(i < j)
        <4>1. ~(i <= Len(a)) /\ i - Len(a) \in 1..(n - j) /\ j + (i - Len(a)) = i + 1
          BY <1>1, <1>3, <1>6, <3>2
        <4>2. b[i - Len(a)] = s[i + 1]
          BY <1>7, <4>1
        <4> QED  BY <2>1, <2>2, <3>2, <4>1, <4>2
      <3> QED  BY <3>1, <3>2
    <2> QED  BY <2>1, <2>2, <2>3
  <1>10. Sorted(r)
    <2> SUFFICES ASSUME NEW i \in 1..(n - 1), NEW m \in 1..(n - 1), i < m PROVE r[i] < r[m]
      BY <1>9 DEF Sorted
    <2> DEFINE x == IF i < j THEN i ELSE i + 1
               y == IF m < j THEN m ELSE m + 1
    <2>1. x \in 1..n /\ y \in 1..n /\ x < y
      BY <1>1, <1>3
    <2>2. r[i] = s[x] /\ r[m] = s[y]
      BY <1>9
    <2> HIDE DEF x, y
    <2> QED  BY <1>1, <2>1, <2>2 DEF Sorted, n
  <1>11. ASSUME NEW x PROVE Among(r, n - 1, x) <=> Among(s, n, x) /\ x # c
    <2>1. \A i \in 1..n : s[i] = c => i = j
      <3> SUFFICES ASSUME NEW i \in 1..n, s[i] = c, i # j PROVE FALSE
        OBVIOUS
      <3>1. i < j \/ j < i
        BY <1>1, <1>3
      <3>2. s[i] < s[j] \/ s[j] < s[i]
        BY <1>1, <1>3, <3>1 DEF Sorted, n
      <3> QED  BY <1>1, <1>3, <3>2
    <2>2. ASSUME NEW i \in 1..(n - 1) PROVE \E m \in 1..n : s[m] = r[i] /\ m # j
      <3>1. CASE i < j
        <4>1. i \in 1..n /\ i # j /\ r[i] = s[i]
          BY <1>1, <1>3, <1>9, <3>1
        <4> QED  BY <4>1
      <3>2. CASE ~(i < j)
        <4>1. i + 1 \in 1..n /\ i + 1 # j /\ r[i] = s[i + 1]
          BY <1>1, <1>3, <1>9, <3>2
        <4> QED  BY <4>1
      <3> QED  BY <3>1, <3>2
    <2>3. ASSUME NEW i \in 1..n, i # j PROVE \E m \in 1..(n - 1) : r[m] = s[i]
      <3>1. CASE i < j
        <4>1. i \in 1..(n - 1) /\ r[i] = s[i]
          BY <1>1, <1>3, <1>9, <3>1
        <4> QED  BY <4>1
      <3>2. CASE ~(i < j)
        <4>1. i - 1 \in 1..(n - 1) /\ ~(i - 1 < j) /\ (i - 1) + 1 = i
          BY <1>1, <1>3, <2>3, <3>2
        <4>2. r[i - 1] = s[i]
          BY <1>9, <4>1
        <4> QED  BY <4>1, <4>2
      <3> QED  BY <3>1, <3>2
    <2>4. Among(r, n - 1, x) => Among(s, n, x) /\ x # c
      BY <2>1, <2>2 DEF Among
    <2>5. Among(s, n, x) /\ x # c => Among(r, n - 1, x)
      BY <1>3, <2>3 DEF Among
    <2> QED  BY <2>4, <2>5
  <1> DEFINE k == [nodes |-> r, len |-> n - 1]
  <1>12. k.nodes = r /\ k.len = n - 1 /\ k \in [nodes : Seq(Int), len : Nat]
    <2>1. n - 1 \in Nat
      BY <1>1, <1>3
    <2> QED  BY <1>9, <2>1
  <1>13. list_remove(l, c) = k
    BY <1>5 DEF n, s
  <1> HIDE DEF k
  <1>14. Ordered(k)
    BY <1>9, <1>10, <1>12 DEF Ordered
  <1>15. \A x : Has(k, x) <=> Has(l, x) /\ x # c
    BY <1>9, <1>11, <1>12 DEF Has, s, n
  <1> QED  BY <1>13, <1>14, <1>15

-----------------------------------------------------------------------------
(* The tree.                                                                *)

\* A node: its data, and its children in order.
Noded(d) ==
    /\ d \in [data : Vals \cup {NULL}, children : [nodes : Seq(Int), len : Nat]]
    /\ Ordered(d.children)

\* t is a tree as the operations keep it: its nodes hang on their parents' lists,
\* the lists name nodes only, and the data are those of keys.
Grown(t) ==
    /\ t = [p \in DOMAIN t |-> t[p]]
    /\ DOMAIN t \subseteq Seq(Int) /\ << >> \in DOMAIN t
    /\ \A p \in DOMAIN t : Noded(t[p])
    /\ \A p \in DOMAIN t : t[p].data # NULL => p \in Keys
    /\ \A p \in DOMAIN t : \A c : Has(t[p].children, c) <=> c \in Int /\ Append(p, c) \in DOMAIN t
    /\ \A p \in DOMAIN t : p # << >> => Front(p) \in DOMAIN t

\* The data under path p, if there is a node.
Data(t, p) == IF p \in DOMAIN t THEN t[p].data ELSE NULL

\* With a node there are those on the way to it.
LEMMA UptoThere ==
    ASSUME NEW t, Grown(t), NEW p \in DOMAIN t, NEW n \in 0..Len(p)
    PROVE  Upto(p, n) \in DOMAIN t
  <1>1. p \in Seq(Int) /\ Len(p) \in Nat
    BY UptoAll DEF Grown
  <1> DEFINE S == {m \in 0..Len(p) : Upto(p, Len(p) - m) \in DOMAIN t}
  <1>2. 0 \in S
    BY <1>1, UptoAll
  <1>3. ASSUME NEW m \in 0..(Len(p) - 1), m \in S PROVE m + 1 \in S
    <2> DEFINE j == Len(p) - m
               q == Upto(p, j)
    <2>1. j \in 1..Len(p) /\ j \in 0..Len(p) /\ j - 1 \in 0..j /\ Len(p) - (m + 1) = j - 1 /\ m + 1 \in 0..Len(p)
      BY <1>1
    <2>2. q \in DOMAIN t
      BY <1>3
    <2>3. q \in Seq(Int) /\ Len(q) = j
      BY <1>1, <2>1, UptoFacts
    <2>4. Upto(q, j - 1) = Upto(p, j - 1)
      BY <1>1, <2>1, UptoUpto
    <2> HIDE DEF q, j
    <2>5. q # << >>
      BY <2>1, <2>3, UptoAll
    <2>6. Front(q) = Upto(q, j - 1)
      BY <2>3, <2>5, FrontFacts
    <2>7. Upto(p, j - 1) \in DOMAIN t
      BY <2>2, <2>4, <2>5, <2>6 DEF Grown
    <2> QED  BY <2>1, <2>7
  <1> HIDE DEF S
  <1>4. 0..Len(p) \subseteq S
    BY <1>1, <1>2, <1>3, IntervalInduction
  <1>5. Len(p) - n \in S /\ Len(p) - (Len(p) - n) = n
    BY <1>1, <1>4
  <1> QED  BY <1>5 DEF S

\* The paths that are found are the nodes.
LEMMA FoundIff ==
    ASSUME NEW t, Grown(t), NEW p \in Seq(Int)
    PROVE  /\ trie_node_find(t, p) <=> p \in DOMAIN t
           /\ trie_find(t, p) = Data(t, p)
  <1>1. Len(p) \in Nat /\ DOMAIN p = 1..Len(p) /\ Upto(p, 0) = << >> /\ Upto(p, Len(p)) = p
    BY UptoAll, LenProperties
  <1>2. ASSUME NEW i \in 1..Len(p), Upto(p, i - 1) \in DOMAIN t
        PROVE  /\ linear_search(t[Upto(p, i - 1)].children, p[i]) <=> Upto(p, i) \in DOMAIN t
    <2> DEFINE q == Upto(p, i - 1)
               c == p[i]
    <2>1. i - 1 \in 0..(Len(p) - 1) /\ (i - 1) + 1 = i
      BY <1>1
    <2>2. c \in Int /\ Append(q, c) = Upto(p, i)
      <3>1. p[(i - 1) + 1] \in Int /\ Append(Upto(p, i - 1), p[(i - 1) + 1]) = Upto(p, (i - 1) + 1)
        BY <2>1, UptoNext
      <3> QED  BY <2>1, <3>1
    <2> HIDE DEF q, c
    <2>3. q \in DOMAIN t
      BY <1>2 DEF q
    <2>4. Ordered(t[q].children) /\ (Has(t[q].children, c) <=> Append(q, c) \in DOMAIN t)
      BY <2>2, <2>3 DEF Grown, Noded
    <2>5. linear_search(t[q].children, c) <=> Upto(p, i) \in DOMAIN t
      BY <2>2, <2>4, SearchFacts
    <2> QED  BY <2>5 DEF q, c
  <1>3. trie_node_find(t, p) <=>
        \A i \in 1..Len(p) : Upto(p, i - 1) \in DOMAIN t /\ linear_search(t[Upto(p, i - 1)].children, p[i])
    BY <1>1 DEF trie_node_find, Upto
  <1>4. ASSUME p \in DOMAIN t PROVE trie_node_find(t, p)
    <2> SUFFICES ASSUME NEW i \in 1..Len(p)
                 PROVE  Upto(p, i - 1) \in DOMAIN t /\ linear_search(t[Upto(p, i - 1)].children, p[i])
      BY <1>3
    <2>1. i - 1 \in 0..Len(p) /\ i \in 0..Len(p)
      BY <1>1
    <2>2. Upto(p, i - 1) \in DOMAIN t /\ Upto(p, i) \in DOMAIN t
      BY <1>4, <2>1, UptoThere
    <2> QED  BY <1>2, <2>2
  <1>5. ASSUME trie_node_find(t, p) PROVE p \in DOMAIN t
    <2> DEFINE S == {i \in 0..Len(p) : Upto(p, i) \in DOMAIN t}
    <2>1. 0 \in S
      BY <1>1 DEF Grown
    <2>2. ASSUME NEW i \in 0..(Len(p) - 1), i \in S PROVE i + 1 \in S
      <3> DEFINE j == i + 1
      <3>1. j \in 1..Len(p) /\ j - 1 = i /\ j \in 0..Len(p)
        BY <1>1
      <3> HIDE DEF j
      <3>2. Upto(p, j - 1) \in DOMAIN t /\ linear_search(t[Upto(p, j - 1)].children, p[j])
        BY <1>3, <1>5, <3>1
      <3>3. Upto(p, j) \in DOMAIN t
        BY <1>2, <3>1, <3>2
      <3>4. j \in S
        BY <3>1, <3>3
      <3> QED  BY <3>4 DEF j
    <2> HIDE DEF S
    <2>3. 0..Len(p) \subseteq S
      BY <1>1, <2>1, <2>2, IntervalInduction
    <2>4. Len(p) \in S
      BY <1>1, <2>3
    <2> QED  BY <1>1, <2>4 DEF S
  <1> QED  BY <1>4, <1>5 DEF trie_find, Data

\* The lists of a tree are the invariant that linear_search and list_release need.
LEMMA GrownWellFormed == Grown(nodes) => WellFormed
  <1> SUFFICES ASSUME Grown(nodes) PROVE WellFormed
    OBVIOUS
  <1>1. ASSUME NEW p \in DOMAIN nodes
        PROVE  LET s == nodes[p].children.nodes IN
               /\ \A i \in 1..(Len(s) - 1) : s[i] < s[i + 1]
               /\ nodes[p].children.len = Len(s)
    <2> DEFINE s == nodes[p].children.nodes
    <2>1. s \in Seq(Int) /\ Sorted(s) /\ nodes[p].children.len = Len(s)
      BY DEF Grown, Noded, Ordered
    <2> HIDE DEF s
    <2>2. ASSUME NEW i \in 1..(Len(s) - 1) PROVE s[i] < s[i + 1]
      <3>1. Len(s) \in Nat
        BY <2>1
      <3>2. i \in 1..Len(s) /\ i + 1 \in 1..Len(s) /\ i < i + 1
        BY <3>1
      <3> QED  BY <2>1, <3>2 DEF Sorted
    <2> QED  BY <2>1, <2>2 DEF s
  <1> DEFINE K(p) == {Append(p, c) : c \in Range(nodes[p].children.nodes)}
  <1>2. ASSUME NEW p \in DOMAIN nodes, NEW c
        PROVE  c \in Range(nodes[p].children.nodes) <=> c \in Int /\ Append(p, c) \in DOMAIN nodes
    <2> DEFINE s == nodes[p].children.nodes
    <2>1. s \in Seq(Int)
      BY DEF Grown, Noded, Ordered
    <2>2. DOMAIN s = 1..Len(s)
      BY <2>1, LenProperties
    <2>3. c \in Range(s) <=> Has(nodes[p].children, c)
      BY <2>2 DEF Range, Has, Among
    <2> QED  BY <2>3 DEF Grown
  <1>3. ASSUME NEW p \in DOMAIN nodes PROVE K(p) \subseteq DOMAIN nodes
    BY <1>2
  <1>4. ASSUME NEW q \in DOMAIN nodes, q # << >> PROVE \E p \in DOMAIN nodes : q \in K(p)
    <2>1. q \in Seq(Int) /\ Front(q) \in DOMAIN nodes
      BY <1>4 DEF Grown
    <2>2. Last(q) \in Int /\ Append(Front(q), Last(q)) = q
      BY <1>4, <2>1, FrontFacts
    <2>3. Last(q) \in Range(nodes[Front(q)].children.nodes)
      BY <1>2, <2>1, <2>2
    <2> QED  BY <2>1, <2>2, <2>3
  <1>5. << >> \in DOMAIN nodes
    BY DEF Grown
  <1> HIDE DEF K
  <1>6. DOMAIN nodes = {<< >>} \cup UNION {K(p) : p \in DOMAIN nodes}
    BY <1>3, <1>4, <1>5
  <1> QED  BY <1>1, <1>6 DEF WellFormed, K

-----------------------------------------------------------------------------
(* Insertion.                                                               *)

\* The node to go on from: what it has below it is what the tree has.
LEMMA ReachFacts ==
    ASSUME NEW t, Grown(t), NEW p \in Seq(Int)
    PROVE  /\ Noded(reach(t, p)) /\ reach(t, p).data = Data(t, p)
           /\ \A c : Has(reach(t, p).children, c) <=> c \in Int /\ Append(p, c) \in DOMAIN t
  <1>1. CASE p \in DOMAIN t
    <2>1. reach(t, p) = t[p]
      BY <1>1, FoundIff DEF reach
    <2> QED  BY <1>1, <2>1 DEF Grown, Data
  <1>2. CASE p \notin DOMAIN t
    <2>1. reach(t, p) = trie_create_node
      BY <1>2, FoundIff DEF reach
    <2>2. trie_create_node.data = NULL /\ trie_create_node.children = list_create
          /\ Noded(trie_create_node)
      BY EmptyList DEF trie_create_node, Noded, Ordered
    <2>3. ASSUME NEW c \in Int, Append(p, c) \in DOMAIN t PROVE FALSE
      <3>1. Append(p, c) # << >> /\ Front(Append(p, c)) = p
        BY ChildFacts
      <3> QED  BY <1>2, <2>3, <3>1 DEF Grown
    <2> QED  BY <1>2, <2>1, <2>2, <2>3, EmptyList DEF Data
  <1> QED  BY <1>1, <1>2

\* A node on the way gets the next one as a child and stays what it was otherwise.
LEMMA DescendFacts ==
    ASSUME NEW d, Noded(d), NEW c \in Int
    PROVE  /\ Noded(descend(d, c)) /\ descend(d, c).data = d.data
           /\ \A x : Has(descend(d, c).children, x) <=> Has(d.children, x) \/ x = c
  <1>1. Ordered(d.children)
    BY DEF Noded
  <1>2. linear_search(d.children, c) <=> Has(d.children, c)
    BY <1>1, SearchFacts
  <1>3. CASE Has(d.children, c)
    BY <1>2, <1>3 DEF descend
  <1>4. CASE ~Has(d.children, c)
    <2> DEFINE m == [nodes |-> merge_sort_tnode[list_push(d.children, c).nodes],
                     len |-> list_push(d.children, c).len]
    <2>1. Ordered(m) /\ \A x : Has(m, x) <=> Has(d.children, x) \/ x = c
      BY <1>1, <1>4, PushFacts
    <2>2. descend(d, c) = [data |-> d.data, children |-> m]
      BY <1>2, <1>4 DEF descend
    <2> HIDE DEF m
    <2>3. m \in [nodes : Seq(Int), len : Nat] /\ d.data \in Vals \cup {NULL}
      BY <2>1 DEF Ordered, Noded
    <2> QED  BY <2>1, <2>2, <2>3 DEF Noded
  <1> QED  BY <1>3, <1>4

\* Insertion keeps the tree and changes the data under one key.
LEMMA InsertFacts ==
    ASSUME NEW t, Grown(t), NEW k \in Keys, NEW v \in Vals
    PROVE  LET u == trie_node_insert(t, k, v) IN
           /\ Grown(u)
           /\ \A p \in Seq(Int) : Data(u, p) = IF p = k THEN v ELSE Data(t, p)
  <1> DEFINE u == trie_node_insert(t, k, v)
             D == DOMAIN t
             E == DOMAIN u
  <1>1. k \in Seq(Int)
    BY KeysAssumption
  <1>2. E = D \cup Prefixes(k) /\ u = [p \in E |-> u[p]]
    BY DEF trie_node_insert
  <1>3. \A p : p \in Prefixes(k) <=> p \in Seq(Int) /\ IsPrefix(p, k)
    BY <1>1, PrefixesIff
  <1>4. IsPrefix(k, k) /\ IsPrefix(<< >>, k) /\ k \in E
    BY <1>1, <1>2, <1>3, PrefixFacts
  <1>5. D \subseteq Seq(Int) /\ E \subseteq Seq(Int)
    BY <1>2, <1>3 DEF Grown
  <1>6. u[k] = [data |-> v, children |-> reach(t, k).children]
    BY <1>2, <1>4 DEF trie_node_insert
  <1>7. \A p \in E : p # k /\ IsStrictPrefix(p, k) => u[p] = descend(reach(t, p), k[Len(p) + 1])
    BY DEF trie_node_insert
  <1>8. \A p \in E : p # k /\ ~IsStrictPrefix(p, k) => u[p] = t[p] /\ p \in D
    BY <1>3, <1>2 DEF trie_node_insert, IsStrictPrefix
  <1> HIDE DEF u, E
  <1>9. ASSUME NEW p \in E
        PROVE  /\ Noded(u[p])
               /\ u[p].data = IF p = k THEN v ELSE Data(t, p)
               /\ \A c : Has(u[p].children, c) <=> c \in Int /\ Append(p, c) \in E
    <2>1. p \in Seq(Int)
      BY <1>5
    <2>2. /\ Noded(reach(t, p)) /\ reach(t, p).data = Data(t, p)
          /\ \A c : Has(reach(t, p).children, c) <=> c \in Int /\ Append(p, c) \in D
      BY <2>1, ReachFacts
    <2>3. \A c \in Int : Append(p, c) \in E <=>
             Append(p, c) \in D \/ (IsStrictPrefix(p, k) /\ k[Len(p) + 1] = c)
      <3>1. \A c \in Int : Append(p, c) \in Seq(Int)
        BY <2>1, ChildFacts
      <3>2. \A c \in Int : IsPrefix(Append(p, c), k) <=> IsStrictPrefix(p, k) /\ k[Len(p) + 1] = c
        BY <1>1, <2>1, PrefixChild
      <3> QED  BY <1>2, <1>3, <3>1, <3>2
    <2>4. CASE p = k
      <3>1. u[p].data = v /\ u[p].children = reach(t, p).children
        BY <1>6, <2>4
      <3>2. Noded(u[p])
        BY <1>6, <2>2, <2>4 DEF Noded
      <3>3. ~IsStrictPrefix(p, k)
        BY <2>4 DEF IsStrictPrefix
      <3> QED  BY <2>2, <2>3, <2>4, <3>1, <3>2, <3>3
    <2>5. CASE p # k /\ IsStrictPrefix(p, k)
      <3>1. Len(p) \in 0..(Len(k) - 1)
        BY <1>1, <2>1, <2>5, PrefixFacts
      <3>2. k[Len(p) + 1] \in Int
        BY <1>1, <3>1, UptoNext
      <3>3. u[p] = descend(reach(t, p), k[Len(p) + 1])
        BY <1>7, <2>5
      <3>4. /\ Noded(u[p]) /\ u[p].data = Data(t, p)
            /\ \A x : Has(u[p].children, x) <=> Has(reach(t, p).children, x) \/ x = k[Len(p) + 1]
        <4> DEFINE d == reach(t, p)
                   x == k[Len(p) + 1]
        <4> HIDE DEF d, x
        <4>1. Noded(d) /\ x \in Int
          BY <2>2, <3>2 DEF d, x
        <4>2. /\ Noded(descend(d, x)) /\ descend(d, x).data = d.data
              /\ \A y : Has(descend(d, x).children, y) <=> Has(d.children, y) \/ y = x
          BY <4>1, DescendFacts
        <4>3. u[p] = descend(d, x)
          BY <3>3 DEF d, x
        <4> QED  BY <2>2, <4>2, <4>3 DEF d, x
      <3> QED  BY <2>2, <2>3, <2>5, <3>2, <3>4
    <2>6. CASE p # k /\ ~IsStrictPrefix(p, k)
      <3>1. u[p] = t[p] /\ p \in D
        BY <1>8, <2>6
      <3>2. Noded(t[p]) /\ t[p].data = Data(t, p)
            /\ \A c : Has(t[p].children, c) <=> c \in Int /\ Append(p, c) \in D
        BY <3>1 DEF Grown, Data
      <3> QED  BY <2>3, <2>6, <3>1, <3>2
    <2> QED  BY <2>4, <2>5, <2>6
  <1>10. \A p \in E : u[p].data # NULL => p \in Keys
    BY <1>9 DEF Grown, Data
  <1>11. ASSUME NEW p \in E, p # << >> PROVE Front(p) \in E
    <2>1. CASE p \in D
      BY <1>2, <1>11, <2>1 DEF Grown
    <2>2. CASE p \in Prefixes(k)
      <3>1. p \in Seq(Int) /\ IsPrefix(p, k)
        BY <1>3, <2>2
      <3>2. Front(p) \in Seq(Int) /\ Last(p) \in Int /\ Append(Front(p), Last(p)) = p
        BY <1>11, <3>1, FrontFacts
      <3>3. IsStrictPrefix(Front(p), k)
        <4> DEFINE q == Front(p)
                   c == Last(p)
        <4> HIDE DEF q, c
        <4>1. q \in Seq(Int) /\ c \in Int /\ IsPrefix(Append(q, c), k)
          BY <3>1, <3>2 DEF q, c
        <4>2. IsStrictPrefix(q, k)
          BY <1>1, <4>1, PrefixChild
        <4> QED  BY <4>2 DEF q
      <3> QED  BY <1>2, <1>3, <3>2, <3>3 DEF IsStrictPrefix
    <2> QED  BY <1>2, <2>1, <2>2
  <1>12. << >> \in E
    BY <1>2 DEF Grown
  <1>13. Grown(u)
    BY <1>2, <1>5, <1>9, <1>10, <1>11, <1>12 DEF Grown, E
  <1>14. ASSUME NEW p \in Seq(Int) PROVE Data(u, p) = IF p = k THEN v ELSE Data(t, p)
    <2>1. CASE p \in E
      BY <1>9, <2>1 DEF Data, E
    <2>2. CASE p \notin E
      BY <1>2, <1>4, <2>2 DEF Data, E
    <2> QED  BY <2>1, <2>2
  <1> QED  BY <1>13, <1>14 DEF u

-----------------------------------------------------------------------------
(* Deletion.                                                                *)

\* Taking away the lower end of a branch leaves a tree with the data it had.
LEMMA PruneFacts ==
    ASSUME NEW t, Grown(t), NEW D, D \subseteq DOMAIN t, << >> \notin D,
           \A q, r \in D : Front(q) = Front(r) => q = r,
           \A q \in DOMAIN t : q # << >> /\ Front(q) \in D => q \in D
    PROVE  LET u == prune(t, D) IN
           /\ Grown(u)
           /\ \A p \in Seq(Int) : Data(u, p) = IF p \in D THEN NULL ELSE Data(t, p)
  <1> DEFINE u == prune(t, D)
             E == DOMAIN u
             gone(p) == CHOOSE q \in D : Front(q) = p
  <1>1. E = DOMAIN t \ D /\ u = [p \in E |-> u[p]]
    BY DEF prune
  <1>2. \A p \in E : u[p] = [t[p] EXCEPT !.children =
                               IF \E q \in D : Front(q) = p
                               THEN list_remove(t[p].children, Last(gone(p))) ELSE t[p].children]
    BY DEF prune
  <1> HIDE DEF u, E
  <1>3. DOMAIN t \subseteq Seq(Int)
    BY DEF Grown
  <1>4. ASSUME NEW p \in E
        PROVE  /\ Noded(u[p]) /\ u[p].data = t[p].data
               /\ \A c : Has(u[p].children, c) <=> c \in Int /\ Append(p, c) \in E
    <2>1. p \in DOMAIN t /\ p \in Seq(Int) /\ Noded(t[p])
          /\ \A c : Has(t[p].children, c) <=> c \in Int /\ Append(p, c) \in DOMAIN t
      BY <1>1, <1>3 DEF Grown
    <2>2. t[p] \in [data : Vals \cup {NULL}, children : [nodes : Seq(Int), len : Nat]]
          /\ Ordered(t[p].children)
      BY <2>1 DEF Noded
    <2>3. \A c \in Int : Front(Append(p, c)) = p /\ Last(Append(p, c)) = c
      BY <2>1, ChildFacts
    <2>4. CASE \E q \in D : Front(q) = p
      <3>1. gone(p) \in D /\ Front(gone(p)) = p
        BY <2>4
      <3> DEFINE q == gone(p)
                 m == list_remove(t[p].children, Last(q))
      <3> HIDE DEF gone
      <3>2. q \in DOMAIN t /\ q # << >> /\ q \in Seq(Int)
        BY <1>3, <3>1
      <3>3. Last(q) \in Int /\ Append(p, Last(q)) = q
        BY <3>1, <3>2, FrontFacts
      <3>4. Has(t[p].children, Last(q))
        BY <2>1, <3>2, <3>3
      <3>5. Ordered(m) /\ \A x : Has(m, x) <=> Has(t[p].children, x) /\ x # Last(q)
        BY <2>2, <3>4, RemoveFacts
      <3>6. u[p] = [t[p] EXCEPT !.children = m]
        BY <1>2, <2>4 DEF q
      <3> HIDE DEF m
      <3>7. m \in [nodes : Seq(Int), len : Nat]
        BY <3>5 DEF Ordered
      <3>8. u[p].data = t[p].data /\ u[p].children = m
            /\ u[p] \in [data : Vals \cup {NULL}, children : [nodes : Seq(Int), len : Nat]]
        BY <2>2, <3>6, <3>7
      <3>9. ASSUME NEW c \in Int, Append(p, c) \in D PROVE c = Last(q)
        <4>1. Append(p, c) = q
          BY <2>3, <3>1, <3>9 DEF q
        <4> QED  BY <2>3, <4>1
      <3>10. \A c \in Int : c = Last(q) => Append(p, c) \in D
        BY <3>1, <3>3 DEF q
      <3>11. \A c : Has(m, c) <=> c \in Int /\ Append(p, c) \in E
        BY <1>1, <2>1, <3>5, <3>9, <3>10
      <3> QED  BY <3>5, <3>8, <3>11 DEF Noded
    <2>5. CASE ~\E q \in D : Front(q) = p
      <3>1. u[p].data = t[p].data /\ u[p].children = t[p].children
            /\ u[p] \in [data : Vals \cup {NULL}, children : [nodes : Seq(Int), len : Nat]]
        <4>1. u[p] = [t[p] EXCEPT !.children = t[p].children]
          BY <1>2, <2>5
        <4> QED  BY <2>2, <4>1
      <3>2. \A c \in Int : Append(p, c) \notin D
        BY <2>3, <2>5
      <3> QED  BY <1>1, <2>1, <2>2, <3>1, <3>2 DEF Noded
    <2> QED  BY <2>4, <2>5
  <1>5. \A p \in E : u[p].data # NULL => p \in Keys
    BY <1>1, <1>4 DEF Grown
  <1>6. \A p \in E : p # << >> => Front(p) \in E
    BY <1>1 DEF Grown
  <1>7. << >> \in E /\ E \subseteq Seq(Int)
    BY <1>1 DEF Grown
  <1>8. Grown(u)
    BY <1>1, <1>4, <1>5, <1>6, <1>7 DEF Grown, E
  <1>9. \A p : Data(u, p) = IF p \in D THEN NULL ELSE Data(t, p)
    BY <1>1, <1>4 DEF Data, E
  <1> QED  BY <1>8, <1>9 DEF u

\* The nodes that climbing up from k finds are the lower end of a branch.
LEMMA EligibleFacts ==
    ASSUME NEW t, Grown(t), NEW k \in DOMAIN t
    PROVE  LET D == Eligible(t, k) IN
           /\ D \subseteq DOMAIN t /\ << >> \notin D
           /\ \A q, r \in D : Front(q) = Front(r) => q = r
           /\ \A q \in DOMAIN t : q # << >> /\ Front(q) \in D => q \in D
           /\ \A q \in D : Data(t, q) = NULL
  <1> DEFINE N == Len(k)
             free(i) == /\ t[Upto(k, i)].data = NULL
                        /\ trie_is_free_node(t, Upto(k, i), IF i = N THEN 0 ELSE 1)
             M == {m \in 1..N : \A i \in m..N : free(i)}
             D == Eligible(t, k)
  <1>1. D = {Upto(k, n) : n \in M}
    BY DEF Eligible, Upto
  <1>2. k \in Seq(Int) /\ N \in Nat /\ Upto(k, N) = k
    BY UptoAll DEF Grown
  <1>3. \A n \in M : n \in 1..N /\ n \in 0..N /\ n - 1 \in 0..N /\ n - 1 \in 0..(N - 1) /\ (n - 1) + 1 = n
    BY <1>2
  <1>4. \A n \in M : free(n)
    BY <1>2
  <1>5. \A n \in M : n # N => n + 1 \in M /\ n \in 0..(N - 1)
    BY <1>2
  <1> HIDE DEF M, D
  <1>6. \A n \in M : Upto(k, n) \in DOMAIN t /\ Upto(k, n) \in Seq(Int) /\ Len(Upto(k, n)) = n
                     /\ Upto(k, n) # << >>
    <2> SUFFICES ASSUME NEW n \in M
                 PROVE  Upto(k, n) \in DOMAIN t /\ Upto(k, n) \in Seq(Int) /\ Len(Upto(k, n)) = n
                        /\ Upto(k, n) # << >>
      OBVIOUS
    <2>1. Upto(k, n) \in DOMAIN t
      BY <1>3, UptoThere
    <2>2. Upto(k, n) \in Seq(Int) /\ Len(Upto(k, n)) = n
      BY <1>2, <1>3, UptoFacts
    <2>3. n # 0
      BY <1>3
    <2> QED  BY <2>1, <2>2, <2>3, UptoAll
  <1>7. ASSUME NEW q \in D, NEW r \in D, Front(q) = Front(r) PROVE q = r
    <2>1. PICK n \in M : q = Upto(k, n)
      BY <1>1
    <2>2. PICK m \in M : r = Upto(k, m)
      BY <1>1
    <2>3. Len(Front(q)) = n - 1 /\ Len(Front(r)) = m - 1
      BY <1>6, <2>1, <2>2, FrontFacts
    <2>4. n = m
      BY <1>3, <1>7, <2>3
    <2> QED  BY <2>1, <2>2, <2>4
  <1>8. ASSUME NEW q \in DOMAIN t, q # << >>, Front(q) \in D PROVE q \in D
    <2>1. PICK n \in M : Front(q) = Upto(k, n)
      BY <1>1, <1>8
    <2> DEFINE p == Upto(k, n)
               c == Last(q)
    <2>2. q \in Seq(Int)
      BY DEF Grown
    <2>3. c \in Int /\ Append(p, c) = q
      BY <1>8, <2>1, <2>2, FrontFacts
    <2>4. p \in DOMAIN t /\ Ordered(t[p].children)
          /\ \A x : Has(t[p].children, x) <=> x \in Int /\ Append(p, x) \in DOMAIN t
      BY <1>6 DEF Grown, Noded
    <2>5. Has(t[p].children, c)
      BY <2>3, <2>4
    <2>6. t[p].children.len - (IF n = N THEN 0 ELSE 1) = 0 /\ t[p].children.len \in Nat
      BY <1>4, <2>4 DEF trie_is_free_node, Ordered
    <2> HIDE DEF p, c
    <2>7. CASE n = N
      <3>1. t[p].children.len = 0
        BY <2>6, <2>7
      <3> QED  BY <2>4, <2>5, <3>1, EmptyList
    <2>8. CASE n # N
      <3>1. t[p].children.len = 1
        BY <2>6, <2>8
      <3>2. k[n + 1] \in Int /\ Append(p, k[n + 1]) = Upto(k, n + 1) /\ n + 1 \in M
        BY <1>2, <1>5, <2>8, UptoNext DEF p
      <3>3. Has(t[p].children, k[n + 1])
        BY <1>6, <2>4, <3>2
      <3>4. c = k[n + 1]
        BY <2>4, <2>5, <3>1, <3>3, OnlyChild
      <3> QED  BY <1>1, <2>3, <3>2, <3>4
    <2> QED  BY <2>7, <2>8
  <1>9. D \subseteq DOMAIN t /\ << >> \notin D
    BY <1>1, <1>6
  <1>10. \A q \in D : Data(t, q) = NULL
    BY <1>1, <1>4, <1>6 DEF Data
  <1> QED  BY <1>7, <1>8, <1>9, <1>10 DEF D

\* Deletion keeps the tree and takes away the data under one key.
LEMMA DeleteFacts ==
    ASSUME NEW t, Grown(t), NEW k \in DOMAIN t
    PROVE  LET c == [t EXCEPT ![k].data = NULL]
               u == prune(c, Eligible(c, k))
           IN  /\ Grown(u)
               /\ \A p \in Seq(Int) : Data(u, p) = IF p = k THEN NULL ELSE Data(t, p)
  <1> DEFINE c == [t EXCEPT ![k].data = NULL]
             D == Eligible(c, k)
             u == prune(c, D)
  <1>1. DOMAIN c = DOMAIN t /\ c = [p \in DOMAIN c |-> c[p]]
    OBVIOUS
  <1>2. \A p \in DOMAIN t : Noded(t[p])
    BY DEF Grown
  <1>3. c[k] = [t[k] EXCEPT !.data = NULL] /\ \A p \in DOMAIN t : p # k => c[p] = t[p]
    OBVIOUS
  <1> HIDE DEF c
  <1>4. c[k].data = NULL /\ c[k].children = t[k].children /\ Noded(c[k])
    BY <1>2, <1>3 DEF Noded
  <1>5. Grown(c)
    BY <1>1, <1>3, <1>4 DEF Grown
  <1>6. \A p \in Seq(Int) : Data(c, p) = IF p = k THEN NULL ELSE Data(t, p)
    BY <1>1, <1>3, <1>4 DEF Data
  <1>7. /\ D \subseteq DOMAIN c /\ << >> \notin D
        /\ \A q, r \in D : Front(q) = Front(r) => q = r
        /\ \A q \in DOMAIN c : q # << >> /\ Front(q) \in D => q \in D
        /\ \A q \in D : Data(c, q) = NULL
    BY <1>1, <1>5, EligibleFacts
  <1> HIDE DEF D
  <1>8. /\ Grown(u)
        /\ \A p \in Seq(Int) : Data(u, p) = IF p \in D THEN NULL ELSE Data(c, p)
    BY <1>5, <1>7, PruneFacts
  <1> HIDE DEF u
  <1>9. \A p \in Seq(Int) : Data(u, p) = IF p = k THEN NULL ELSE Data(t, p)
    BY <1>6, <1>7, <1>8
  <1> QED  BY <1>8, <1>9 DEF u, D, c

\* Deleting a prefix with children takes away the data under all that start with it.
LEMMA PrefixDeleteFacts ==
    ASSUME NEW t, Grown(t), NEW p \in DOMAIN t
    PROVE  LET u == [q \in DOMAIN t \ Below(t, p) |->
                       IF q # p THEN t[q]
                       ELSE [data |-> NULL, children |-> list_clear(t[p].children)]]
           IN  /\ Grown(u)
               /\ \A q \in Seq(Int) : Data(u, q) = IF IsPrefix(p, q) THEN NULL ELSE Data(t, q)
  <1> DEFINE B == Below(t, p)
             u == [q \in DOMAIN t \ B |->
                     IF q # p THEN t[q]
                     ELSE [data |-> NULL, children |-> list_clear(t[p].children)]]
             E == DOMAIN u
  <1>1. p \in Seq(Int) /\ DOMAIN t \subseteq Seq(Int) /\ << >> \in DOMAIN t
    BY DEF Grown
  <1>2. B = {q \in DOMAIN t : IsStrictPrefix(p, q)}
    BY DEF Below
  <1>3. p \notin B /\ << >> \notin B
    <2>1. IsStrictPrefix(p, << >>) => p = << >>
      BY <1>1, PrefixFacts DEF IsStrictPrefix
    <2> QED  BY <1>2, <2>1 DEF IsStrictPrefix
  <1>4. E = DOMAIN t \ B /\ u = [q \in E |-> u[q]]
    OBVIOUS
  <1>5. u[p] = [data |-> NULL, children |-> list_create]
    BY <1>3 DEF list_clear
  <1>6. \A q \in E : q # p => u[q] = t[q]
    OBVIOUS
  <1> HIDE DEF u, E, B
  <1>7. u[p].data = NULL /\ u[p].children = list_create /\ Noded(u[p])
    BY <1>5, EmptyList DEF Noded, Ordered
  <1>8. ASSUME NEW q \in E, NEW c \in Int
        PROVE  Append(q, c) \in DOMAIN t => (Append(q, c) \in B <=> q = p)
    <2>1. q \in Seq(Int) /\ q \in DOMAIN t /\ ~IsStrictPrefix(p, q)
      BY <1>1, <1>2, <1>4
    <2>2. Append(q, c) \in Seq(Int) /\ Append(q, c) # << >> /\ Front(Append(q, c)) = q
      BY <2>1, ChildFacts
    <2>3. IsStrictPrefix(p, Append(q, c)) <=> IsPrefix(p, q)
      <3> DEFINE r == Append(q, c)
      <3> HIDE DEF r
      <3>1. r \in Seq(Int) /\ r # << >> /\ Front(r) = q
        BY <2>2 DEF r
      <3>2. IsStrictPrefix(p, r) <=> IsPrefix(p, Front(r))
        BY <1>1, <3>1, PrefixFacts
      <3> QED  BY <3>1, <3>2 DEF r
    <2>4. IsPrefix(p, p)
      BY <1>1, PrefixFacts
    <2> QED  BY <1>2, <2>1, <2>3, <2>4 DEF IsStrictPrefix
  <1>9. ASSUME NEW q \in E
        PROVE  \A c : Has(u[q].children, c) <=> c \in Int /\ Append(q, c) \in E
    <2>1. CASE q = p
      BY <1>4, <1>7, <1>8, <2>1, EmptyList
    <2>2. CASE q # p
      <3>1. \A c : Has(t[q].children, c) <=> c \in Int /\ Append(q, c) \in DOMAIN t
        BY <1>4 DEF Grown
      <3> QED  BY <1>4, <1>6, <1>8, <2>2, <3>1
    <2> QED  BY <2>1, <2>2
  <1>10. ASSUME NEW q \in E, q # << >> PROVE Front(q) \in E
    <2>1. q \in Seq(Int) /\ Front(q) \in DOMAIN t /\ ~IsStrictPrefix(p, q)
      BY <1>1, <1>2, <1>4, <1>10 DEF Grown
    <2>2. IsStrictPrefix(p, q) <=> IsPrefix(p, Front(q))
      BY <1>1, <1>10, <2>1, PrefixFacts
    <2> QED  BY <1>2, <1>4, <2>1, <2>2 DEF IsStrictPrefix
  <1>11. \A q \in E : Noded(u[q]) /\ (u[q].data # NULL => q \in Keys)
    BY <1>4, <1>6, <1>7 DEF Grown
  <1>12. Grown(u)
    BY <1>1, <1>3, <1>4, <1>9, <1>10, <1>11 DEF Grown, E
  <1>13. ASSUME NEW q \in Seq(Int) PROVE Data(u, q) = IF IsPrefix(p, q) THEN NULL ELSE Data(t, q)
    <2>1. IsPrefix(p, p)
      BY <1>1, PrefixFacts
    <2>2. CASE q = p
      BY <1>7, <2>1, <2>2 DEF Data
    <2>3. CASE q # p
      BY <1>2, <1>4, <1>6, <2>3 DEF Data, IsStrictPrefix, E
    <2> QED  BY <2>2, <2>3
  <1> QED  BY <1>12, <1>13 DEF u, B

\* Below a node without children there is nothing.
LEMMA NothingBelow ==
    ASSUME NEW t, Grown(t), NEW p \in DOMAIN t, t[p].children.len = 0,
           NEW q \in DOMAIN t, IsPrefix(p, q)
    PROVE  q = p
  <1> SUFFICES ASSUME q # p PROVE FALSE
    OBVIOUS
  <1>1. p \in Seq(Int) /\ q \in Seq(Int) /\ Ordered(t[p].children)
    BY DEF Grown, Noded
  <1> DEFINE n == Len(p)
  <1>2. n \in 0..(Len(q) - 1) /\ p = Upto(q, n)
    BY <1>1, PrefixFacts, PrefixIff DEF IsStrictPrefix
  <1>3. q[n + 1] \in Int /\ Append(Upto(q, n), q[n + 1]) = Upto(q, n + 1)
    BY <1>1, <1>2, UptoNext
  <1>4. n + 1 \in 0..Len(q)
    BY <1>1, <1>2
  <1>5. Upto(q, n + 1) \in DOMAIN t
    BY <1>4, UptoThere
  <1>6. Has(t[p].children, q[n + 1])
    BY <1>2, <1>3, <1>5 DEF Grown
  <1> QED  BY <1>1, <1>6, EmptyList

-----------------------------------------------------------------------------
(* The inductive invariant.                                                 *)

\* The keys that have data.
Full(t) == {k \in Keys : Data(t, k) # NULL}

\* The tree is in order, and size counts its data.
TInv ==
    /\ Grown(nodes)
    /\ size = Cardinality(Full(nodes))

\* Keys and their prefixes are paths.
LEMMA KeysAreSeqs == Keys \subseteq Seq(Int) /\ Paths \subseteq Seq(Int)
  <1>1. Keys \subseteq Seq(Int)
    BY KeysAssumption
  <1>2. \A k \in Keys : Prefixes(k) \subseteq Seq(Int)
    BY <1>1, PrefixesIff
  <1>3. << >> \in Seq(Int)
    BY EmptySeq
  <1> QED  BY <1>1, <1>2, <1>3 DEF Paths

\* There are finitely many of them.
LEMMA FullFinite ==
    ASSUME NEW t
    PROVE  IsFiniteSet(Full(t)) /\ Cardinality(Full(t)) \in Nat
  <1>1. Full(t) \in SUBSET Keys
    BY DEF Full
  <1> QED  BY <1>1, KeysAssumption, FS_Subset, FS_CardinalityType

\* The new tree is the root alone.
LEMMA InitTInv == Init => TInv /\ \A k \in Keys : Data(nodes, k) = NULL
  <1> SUFFICES ASSUME Init PROVE TInv /\ \A k \in Keys : Data(nodes, k) = NULL
    OBVIOUS
  <1>1. nodes = [p \in {<< >>} |-> trie_create_node] /\ size = 0
    BY DEF Init
  <1>2. << >> \in Seq(Int) /\ DOMAIN nodes = {<< >>} /\ nodes[<< >>] = trie_create_node
    BY <1>1, EmptySeq
  <1>3. trie_create_node.data = NULL /\ trie_create_node.children = list_create
        /\ Noded(trie_create_node)
    BY EmptyList DEF trie_create_node, Noded, Ordered
  <1>4. \A c \in Int : Append(<< >>, c) # << >>
    BY <1>2, ChildFacts
  <1>5. Grown(nodes)
    BY <1>1, <1>2, <1>3, <1>4, EmptyList DEF Grown
  <1>6. \A k \in Keys : Data(nodes, k) = NULL
    BY <1>2, <1>3 DEF Data
  <1>7. Full(nodes) = {}
    BY <1>6 DEF Full
  <1> QED  BY <1>1, <1>5, <1>6, <1>7, FS_EmptySet DEF TInv

\* What trie_insert does to the data and the size.
LEMMA InsertStep ==
    ASSUME TInv, NEW k \in Keys, NEW v \in Vals, trie_insert(k, v)
    PROVE  /\ TInv'
           /\ \A p \in Seq(Int) : Data(nodes', p) = IF p = k THEN v ELSE Data(nodes, p)
  <1>1. /\ Grown(nodes')
        /\ \A p \in Seq(Int) : Data(nodes', p) = IF p = k THEN v ELSE Data(nodes, p)
    BY InsertFacts DEF TInv, trie_insert
  <1>2. k \in Seq(Int) /\ v # NULL /\ Keys \subseteq Seq(Int)
    BY KeysAreSeqs, ValsAssumption
  <1>3. Full(nodes') = Full(nodes) \cup {k}
    BY <1>1, <1>2 DEF Full
  <1>4. trie_find(nodes, k) = Data(nodes, k)
    BY <1>2, FoundIff DEF TInv
  <1>5. size' = IF k \in Full(nodes) THEN size ELSE size + 1
    BY <1>4 DEF trie_insert, Full
  <1>6. size' = Cardinality(Full(nodes'))
    BY <1>3, <1>5, FullFinite, FS_AddElement DEF TInv
  <1> QED  BY <1>1, <1>6 DEF TInv

\* What trie_delete does.
LEMMA DeleteStep ==
    ASSUME TInv, NEW k \in Seq(Int), trie_delete(k)
    PROVE  /\ TInv'
           /\ \A p \in Seq(Int) : Data(nodes', p) = IF p = k THEN NULL ELSE Data(nodes, p)
  <1>1. Data(nodes, k) # NULL
    BY FoundIff DEF TInv, trie_delete
  <1>2. k \in DOMAIN nodes /\ k \in Keys
    BY <1>1 DEF TInv, Grown, Data
  <1>3. /\ Grown(nodes')
        /\ \A p \in Seq(Int) : Data(nodes', p) = IF p = k THEN NULL ELSE Data(nodes, p)
    BY <1>2, DeleteFacts DEF TInv, trie_delete
  <1>4. k \in Full(nodes) /\ Full(nodes') = Full(nodes) \ {k}
    BY <1>1, <1>2, <1>3, KeysAreSeqs DEF Full
  <1>5. size' = Cardinality(Full(nodes'))
    BY <1>4, FullFinite, FS_RemoveElement DEF TInv, trie_delete
  <1> QED  BY <1>3, <1>5 DEF TInv

\* What trie_prefix_delete does.
LEMMA PrefixDeleteStep ==
    ASSUME TInv, NEW p \in Seq(Int), trie_prefix_delete(p)
    PROVE  /\ TInv'
           /\ \A q \in Seq(Int) : Data(nodes', q) = IF IsPrefix(p, q) THEN NULL ELSE Data(nodes, q)
  <1>1. p \in DOMAIN nodes /\ Grown(nodes)
    BY FoundIff DEF TInv, trie_prefix_delete
  <1>2. CASE nodes[p].children.len = 0
    <2>1. trie_delete(p)
      BY <1>2 DEF trie_prefix_delete
    <2>2. TInv' /\ \A q \in Seq(Int) : Data(nodes', q) = IF q = p THEN NULL ELSE Data(nodes, q)
      BY <2>1, DeleteStep
    <2>3. \A q \in Seq(Int) : q # p /\ IsPrefix(p, q) => Data(nodes, q) = NULL
      BY <1>1, <1>2, NothingBelow DEF Data
    <2>4. IsPrefix(p, p)
      BY PrefixFacts
    <2> QED  BY <2>2, <2>3, <2>4
  <1>3. CASE nodes[p].children.len # 0
    <2>1. /\ nodes' = [q \in DOMAIN nodes \ Below(nodes, p) |->
                         IF q # p THEN nodes[q]
                         ELSE [data |-> NULL, children |-> list_clear(nodes[p].children)]]
          /\ size' = size - Cardinality(lost(p))
      BY <1>3 DEF trie_prefix_delete
    <2>2. /\ Grown(nodes')
          /\ \A q \in Seq(Int) : Data(nodes', q) = IF IsPrefix(p, q) THEN NULL ELSE Data(nodes, q)
      BY <1>1, <2>1, PrefixDeleteFacts
    <2>3. lost(p) = {q \in Full(nodes) : IsPrefix(p, q)}
      <3>1. lost(p) = {q \in Below(nodes, p) \cup ({p} \ {<< >>}) : nodes[q].data # NULL}
        BY DEF lost, Stored
      <3>2. IsPrefix(p, p) /\ << >> \notin Keys
        BY PrefixFacts, KeysAssumption
      <3>3. ASSUME NEW q PROVE q \in lost(p) <=> q \in Full(nodes) /\ IsPrefix(p, q)
        <4>1. ASSUME q \in lost(p) PROVE q \in Full(nodes) /\ IsPrefix(p, q)
          <5>1. q \in DOMAIN nodes /\ IsPrefix(p, q) /\ nodes[q].data # NULL
            BY <1>1, <3>1, <3>2, <4>1 DEF Below, IsStrictPrefix
          <5> QED  BY <1>1, <5>1 DEF Full, Data, Grown
        <4>2. ASSUME q \in Full(nodes), IsPrefix(p, q) PROVE q \in lost(p)
          <5>1. q \in DOMAIN nodes /\ q \in Keys /\ nodes[q].data # NULL
            BY <4>2 DEF Full, Data
          <5>2. q \in Below(nodes, p) \cup ({p} \ {<< >>})
            BY <3>2, <4>2, <5>1 DEF Below, IsStrictPrefix
          <5> QED  BY <3>1, <5>1, <5>2
        <4> QED  BY <4>1, <4>2
      <3> QED  BY <3>3
    <2>4. Full(nodes') = Full(nodes) \ lost(p) /\ Full(nodes) \cap lost(p) = lost(p)
      BY <2>2, <2>3, KeysAreSeqs DEF Full
    <2>5. size' = Cardinality(Full(nodes'))
      <3> DEFINE F == Full(nodes)
                 L == lost(p)
      <3> HIDE DEF F, L
      <3>1. IsFiniteSet(F) /\ size = Cardinality(F) /\ F \cap L = L /\ Full(nodes') = F \ L
        BY <2>4, FullFinite DEF F, L, TInv
      <3>2. Cardinality(F \ L) = Cardinality(F) - Cardinality(L)
        BY <3>1, FS_Difference
      <3> QED  BY <2>1, <3>1, <3>2 DEF L
    <2> QED  BY <2>2, <2>5 DEF TInv
  <1> QED  BY <1>2, <1>3

\* TInv is inductive.
LEMMA NextTInv == TInv /\ [Next]_vars => TInv'
  <1> SUFFICES ASSUME TInv, [Next]_vars PROVE TInv'
    OBVIOUS
  <1>1. Keys \subseteq Seq(Int) /\ Paths \subseteq Seq(Int)
    BY KeysAreSeqs
  <1>2. ASSUME NEW k \in Keys, NEW v \in Vals, trie_insert(k, v) PROVE TInv'
    BY <1>2, InsertStep
  <1>3. ASSUME NEW k \in Keys, trie_delete(k) PROVE TInv'
    BY <1>1, <1>3, DeleteStep
  <1>4. ASSUME NEW p \in Paths, trie_prefix_delete(p) PROVE TInv'
    BY <1>1, <1>4, PrefixDeleteStep
  <1>5. CASE UNCHANGED vars
    BY <1>5 DEF vars, TInv
  <1> QED  BY <1>2, <1>3, <1>4, <1>5 DEF Next

\* The children of every node are in order and counted, whatever the keys and
\* whatever the order in which they come and go, and every node but the root hangs
\* on its parent's list (trie.c, children_insert and merge_sort_tnode,
\* trie_node_recursive_delete, trie_prefix_delete).
THEOREM TrieWellFormed == Spec => []WellFormed
  <1>1. TInv => WellFormed
    BY GrownWellFormed DEF TInv
  <1>2. Init => TInv
    BY InitTInv
  <1> QED  BY <1>1, <1>2, NextTInv, PTL DEF Spec

\* trie_size is the number of keys that trie_find finds, for any finite set of keys
\* (trie.c, trie_node_insert, trie_node_recursive_delete, trie_prefix_delete).
THEOREM TrieCountsKeys == Spec => []SizeCountsKeys
  <1>1. TInv => SizeCountsKeys
    <2> SUFFICES ASSUME TInv PROVE SizeCountsKeys
      OBVIOUS
    <2>1. \A k \in Keys : trie_find(nodes, k) = Data(nodes, k)
      BY KeysAreSeqs, FoundIff DEF TInv
    <2>2. {k \in Keys : trie_find(nodes, k) # NULL} = Full(nodes)
      BY <2>1 DEF Full
    <2> QED  BY <2>2 DEF TInv, SizeCountsKeys
  <1>2. Init => TInv
    BY InitTInv
  <1> QED  BY <1>1, <1>2, NextTInv, PTL DEF Spec

-----------------------------------------------------------------------------
(* The refinement.                                                          *)

\* What callers observe.
Contents == [k \in Keys |-> trie_find(nodes, k)]

\* What is found is the data of the tree's nodes.
LEMMA ContentsAreData == TInv => Contents = [k \in Keys |-> Data(nodes, k)]
  <1> SUFFICES ASSUME TInv PROVE Contents = [k \in Keys |-> Data(nodes, k)]
    OBVIOUS
  <1>1. \A k \in Keys : trie_find(nodes, k) = Data(nodes, k)
    BY KeysAreSeqs, FoundIff DEF TInv
  <1> QED  BY <1>1 DEF Contents

\* Every step is one of the map, and each call the one it is named for.
LEMMA StepRefines ==
    ASSUME TInv, TInv', [Next]_vars
    PROVE  /\ [Map!Next]_Contents
           /\ [CallsAsNamed]_vars
  <1> DEFINE old == [k \in Keys |-> Data(nodes, k)]
             new == [k \in Keys |-> Data(nodes', k)]
  <1>1. Contents = old /\ Contents' = new
    <2>1. Contents = old
      BY ContentsAreData
    <2>2. Keys \subseteq Seq(Int) /\ Grown(nodes')
      BY KeysAreSeqs DEF TInv
    <2>3. \A k \in Keys : trie_find(nodes', k) = Data(nodes', k)
      BY <2>2, FoundIff
    <2>4. Contents' = new
      BY <2>3 DEF Contents
    <2> QED  BY <2>1, <2>4
  <1>2. Keys \subseteq Seq(Int) /\ Paths \subseteq Seq(Int)
    BY KeysAreSeqs
  <1>3. ASSUME NEW k \in Keys, NEW v \in Vals, trie_insert(k, v) PROVE Map!put(k, v)
    <2>1. \A j \in Keys : Data(nodes', j) = IF j = k THEN v ELSE Data(nodes, j)
      BY <1>2, <1>3, InsertStep
    <2>2. new = [old EXCEPT ![k] = v]
      BY <2>1
    <2>3. Contents' = [Contents EXCEPT ![k] = v]
      BY <1>1, <2>2
    <2> QED  BY <2>3 DEF Map!put, Contents
  <1>4. ASSUME NEW k \in Keys, trie_delete(k) PROVE Map!remove({k})
    <2>1. \A j \in Keys : Data(nodes', j) = IF j = k THEN NULL ELSE Data(nodes, j)
      BY <1>2, <1>4, DeleteStep
    <2>2. new = [j \in Keys |-> IF j \in {k} THEN NULL ELSE old[j]]
      BY <2>1
    <2>3. Contents' = [j \in Keys |-> IF j \in {k} THEN NULL ELSE Contents[j]]
      BY <1>1, <2>2
    <2> QED  BY <2>3 DEF Map!remove, Contents
  <1>5. ASSUME NEW p \in Paths, trie_prefix_delete(p) PROVE Map!remove(KeysUnder(p))
    <2>1. \A j \in Keys : Data(nodes', j) = IF IsPrefix(p, j) THEN NULL ELSE Data(nodes, j)
      BY <1>2, <1>5, PrefixDeleteStep
    <2>2. new = [j \in Keys |-> IF j \in KeysUnder(p) THEN NULL ELSE old[j]]
      BY <2>1 DEF KeysUnder
    <2>3. Contents' = [j \in Keys |-> IF j \in KeysUnder(p) THEN NULL ELSE Contents[j]]
      BY <1>1, <2>2
    <2> QED  BY <2>3 DEF Map!remove, Contents
  <1>6. CallsAsNamed
    BY <1>3, <1>4, <1>5 DEF CallsAsNamed
  <1>7. [Map!Next]_Contents
    <2>1. ASSUME NEW k \in Keys, NEW v \in Vals, trie_insert(k, v) PROVE Map!Next
      BY <1>3, <2>1 DEF Map!Next
    <2>2. ASSUME NEW k \in Keys, trie_delete(k) PROVE Map!Next
      BY <1>4, <2>2 DEF Map!Next
    <2>3. ASSUME NEW p \in Paths, trie_prefix_delete(p) PROVE Map!Next
      BY <1>5, <2>3 DEF Map!Next
    <2>4. UNCHANGED vars => Contents' = Contents
      BY DEF vars, Contents
    <2> QED  BY <2>1, <2>2, <2>3, <2>4 DEF Next
  <1> QED  BY <1>6, <1>7

\* The trie is the map that its header promises: inserting or deleting one key, with
\* the sorting and the pruning that go with it, changes no other, and a deleted prefix
\* takes exactly the keys that start with it (trie.c, all operations).
THEOREM TrieIsMap == Spec => RefinesMap
  <1>1. Init => TInv
    BY InitTInv
  <1>2. Init => Map!Init
    <2> SUFFICES ASSUME Init PROVE Map!Init
      OBVIOUS
    <2>1. Contents = [k \in Keys |-> Data(nodes, k)] /\ \A k \in Keys : Data(nodes, k) = NULL
      BY InitTInv, ContentsAreData
    <2>2. Contents = [k \in Keys |-> NULL]
      BY <2>1
    <2> QED  BY <2>2 DEF Map!Init, Contents
  <1>3. TInv /\ TInv' /\ [Next]_vars => [Map!Next]_Contents /\ [CallsAsNamed]_vars
    BY StepRefines
  <1> QED  BY <1>1, <1>2, <1>3, NextTInv, PTL DEF Spec, RefinesMap, Map!Spec, Contents
=============================================================================
