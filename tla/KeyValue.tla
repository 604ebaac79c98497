------------------------------ MODULE KeyValue ------------------------------
(***************************************************************************)
(* What hashtable.h and trie.h promise: a map from keys to values.         *)
(***************************************************************************)
CONSTANTS
    Keys, Vals, NULL,
    Groups    \* the sets of keys that one call may remove

VARIABLE map    \* map[k]: the value stored under k, or NULL

Init == map = [k \in Keys |-> NULL]

put(k, v) == map' = [map EXCEPT ![k] = v]

remove(G) == map' = [k \in Keys |-> IF k \in G THEN NULL ELSE map[k]]

Next ==
    \/ \E k \in Keys, v \in Vals : put(k, v)
    \/ \E G \in Groups : remove(G)

Spec == Init /\ [][Next]_map
=============================================================================
