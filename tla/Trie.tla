-------------------------------- MODULE Trie --------------------------------
(***************************************************************************)
(* trie.c: the topic tree.  One node per character, the children of a node *)
(* in a linked list that is sorted again after every insertion (list_push  *)
(* and merge_sort_tnode of list.c and trie.c), so that linear_search may   *)
(* stop at the first character that is too large.                          *)
(*                                                                         *)
(* A node is named by the path that leads to it; the root by << >>.        *)
(***************************************************************************)
EXTENDS Integers, SequencesExt

CONSTANTS
    Keys,     \* the keys, as sequences of numbers
    Vals, NULL

ASSUME KeysAssumption == Keys \subseteq Seq(Int) \ {<< >>} /\ IsFiniteSet(Keys)
ASSUME ValsAssumption == NULL \notin Vals

VARIABLES
    nodes,    \* path -> struct trie_node: its data and its list of children
    size      \* struct Trie: the number of keys

vars == <<nodes, size>>

\* The paths of the tree: the keys and their prefixes.
Paths == {<< >>} \cup UNION {Prefixes(k) : k \in Keys}

-----------------------------------------------------------------------------
(* The children's list: its nodes, and len, which is counted apart from them *)
(* and by which list_release and trie_is_free_node go.                       *)

list_create == [nodes |-> << >>, len |-> 0]

\* In front of the list.
list_push(l, c) == [nodes |-> <<c>> \o l.nodes, len |-> l.len + 1]

\* The first node with c goes.
list_remove(l, c) ==
    IF ~Contains(l.nodes, c) THEN l
    ELSE [nodes |-> RemoveFirst(l.nodes, c), len |-> l.len - 1]

list_clear(l) == list_create

\* bisect_list: the slow pointer has gone half the way when the fast one
\* reaches the end, and the first part is cut off before it.
bisect_list(s) == LET h == Len(s) \div 2
                  IN  <<SubSeq(s, 1, h), SubSeq(s, h + 1, Len(s))>>

\* The next node is taken from s, when i nodes of s and j of t have been: the
\* smaller head, that of s when they are equal, and what is left of s when t is
\* empty.
of_first(s, t, i, j) == i < Len(s) /\ (j < Len(t) => s[i + 1] <= t[j + 1])

\* After n rounds of the loop it has taken taken[n] nodes of s and the others of t.
merge_tnode_list(s, t) ==
    LET N == Len(s) + Len(t)
        taken[n \in 0..N] ==
            IF n = 0 THEN 0
            ELSE LET i == taken[n - 1]
                 IN  IF of_first(s, t, i, n - 1 - i) THEN i + 1 ELSE i
    IN  [n \in 1..N |-> IF taken[n] > taken[n - 1] THEN s[taken[n]] ELSE t[n - taken[n]]]

\* Mutant: a list of two is taken to be sorted already.
short_of_two(s) == Len(s) <= 2

\* A list that needs no sorting.
short(s) == Len(s) <= 1

merge_sort_tnode[s \in Seq(Int)] ==
    IF short(s) THEN s
    ELSE LET b == bisect_list(s)
         IN  merge_tnode_list(merge_sort_tnode[b[1]], merge_sort_tnode[b[2]])

\* linear_search finds c in the list: no larger character comes before it.
linear_search(l, c) ==
    LET s == l.nodes IN
    /\ l.len # 0
    /\ \E i \in DOMAIN s : s[i] = c /\ \A j \in 1..(i - 1) : s[j] < c

-----------------------------------------------------------------------------
(* The tree.                                                               *)

trie_create_node == [data |-> NULL, children |-> list_create]

\* trie_node_find reaches a node at the end of path p of tree t.
trie_node_find(t, p) ==
    \A i \in DOMAIN p : LET parent == SubSeq(p, 1, i - 1) IN
        parent \in DOMAIN t /\ linear_search(t[parent].children, p[i])

trie_find(t, k) == IF trie_node_find(t, k) THEN t[k].data ELSE NULL

\* The node at p in t, or a new one if there is none to be found.
reach(t, p) == IF trie_node_find(t, p) THEN t[p] ELSE trie_create_node

\* Node d with a child c, new or found.
descend(d, c) ==
    IF linear_search(d.children, c) THEN d
    ELSE LET pushed == list_push(d.children, c)
         IN  [data |-> d.data,
              children |-> [nodes |-> merge_sort_tnode[pushed.nodes], len |-> pushed.len]]

\* The loop goes down along k; the node where it ends gets the data.
trie_node_insert(t, k, v) ==
    [p \in DOMAIN t \cup Prefixes(k) |->
        IF p = k THEN [data |-> v, children |-> reach(t, k).children]
        ELSE IF IsStrictPrefix(p, k) THEN descend(reach(t, p), k[Len(p) + 1])
        ELSE t[p]]

\* t without the nodes of D, the lower end of a branch: trie_node_free frees them
\* and list_remove takes the topmost off its parent's list.
prune(t, D) ==
    [p \in DOMAIN t \ D |->
        [t[p] EXCEPT !.children =
            IF \E q \in D : Front(q) = p
            THEN list_remove(@, Last(CHOOSE q \in D : Front(q) = p)) ELSE @]]

\* A node is free when its list is empty, less n children that were just removed.
trie_is_free_node(t, p, n) == t[p].children.len - n = 0

\* Mutant: every childless node on the way up goes, its data looked at or not.
Eligible_all(t, k) ==
    {SubSeq(k, 1, n) : n \in {m \in 1..Len(k) : \A i \in m..Len(k) :
        trie_is_free_node(t, SubSeq(k, 1, i), IF i = Len(k) THEN 0 ELSE 1)}}

\* The nodes that climbing up from k finds without data and with no child but
\* the one just removed.
Eligible(t, k) ==
    {SubSeq(k, 1, n) : n \in {m \in 1..Len(k) : \A i \in m..Len(k) :
        LET p == SubSeq(k, 1, i) IN
        /\ t[p].data = NULL
        /\ trie_is_free_node(t, p, IF i = Len(k) THEN 0 ELSE 1)}}

Below(t, p) == {q \in DOMAIN t : IsStrictPrefix(p, q)}

Stored(t, S) == {p \in S : t[p].data # NULL}

-----------------------------------------------------------------------------
Init ==
    /\ nodes = [p \in {<< >>} |-> trie_create_node]
    /\ size = 0

trie_insert(k, v) ==
    /\ nodes' = trie_node_insert(nodes, k, v)
    /\ size' = IF trie_find(nodes, k) = NULL THEN size + 1 ELSE size

\* trie_node_recursive_delete: k's data goes, and on the way back every node
\* that is left without data and children.
trie_delete(k) ==
    LET cleared == [nodes EXCEPT ![k].data = NULL] IN
    /\ trie_find(nodes, k) # NULL
    /\ nodes' = prune(cleared, Eligible(cleared, k))
    /\ size' = size - 1

\* Mutant: the keys below the prefix are not counted.
lost_uncounted(p) == Stored(nodes, {p})

\* The keys that trie_prefix_delete takes away: those below p, and p itself.
lost(p) == Stored(nodes, Below(nodes, p) \cup ({p} \ {<< >>}))

\* A prefix with children loses them all but stays as a leaf, for its parent
\* still sees children when it asks; one without is deleted as a key.
trie_prefix_delete(p) ==
    /\ trie_node_find(nodes, p)
    /\ IF nodes[p].children.len = 0 THEN trie_delete(p)
       ELSE /\ nodes' = [q \in DOMAIN nodes \ Below(nodes, p) |->
                           IF q # p THEN nodes[q]
                           ELSE [data |-> NULL,
                                 children |-> list_clear(nodes[p].children)]]
            /\ size' = size - Cardinality(lost(p))

Next ==
    \/ \E k \in Keys, v \in Vals : trie_insert(k, v)
    \/ \E k \in Keys : trie_delete(k)
    \/ \E p \in Paths : trie_prefix_delete(p)

Spec == Init /\ [][Next]_vars

-----------------------------------------------------------------------------
KeysUnder(p) == {k \in Keys : IsPrefix(p, k)}

Map == INSTANCE KeyValue WITH
    map <- [k \in Keys |-> trie_find(nodes, k)],
    Groups <- {{k} : k \in Keys} \cup {KeysUnder(p) : p \in Paths}

\* Each call does to the map what it is named for.
CallsAsNamed ==
    /\ \A k \in Keys : /\ trie_delete(k) => Map!remove({k})
                       /\ \A v \in Vals : trie_insert(k, v) => Map!put(k, v)
    /\ \A p \in Paths : trie_prefix_delete(p) => Map!remove(KeysUnder(p))

\* The trie is a map: inserting or deleting one key, with the sorting and the
\* pruning that go with it, never hides or reveals another, and a deleted
\* prefix takes with it exactly the keys that start with it.
RefinesMap == Map!Spec /\ [][CallsAsNamed]_vars

\* trie_size is the number of keys that trie_find finds: insertion counts a
\* node that had no data, the two deletions each node that had some.
SizeCountsKeys == size = Cardinality({k \in Keys : trie_find(nodes, k) # NULL})

\* The lists are strictly sorted, which linear_search relies on; their len, by
\* which nodes are found free and lists released, counts their nodes; and every
\* node hangs on its parent's list: none leaks, none is freed twice.
WellFormed ==
    /\ \A p \in DOMAIN nodes : LET s == nodes[p].children.nodes IN
          /\ \A i \in 1..(Len(s) - 1) : s[i] < s[i + 1]
          /\ nodes[p].children.len = Len(s)
    /\ DOMAIN nodes = {<< >>} \cup
          UNION {{Append(p, c) : c \in Range(nodes[p].children.nodes)} : p \in DOMAIN nodes}
=============================================================================
