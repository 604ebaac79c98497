---------------------------- MODULE MCHashTable ----------------------------
(* Instances of HashTable for TLC.                                         *)
EXTENDS HashTable

CONSTANTS k1, k2, k3, k4, k5

\* In a table of 8 slots k1, k2 and k4 have the same home, next to that of k3, which is
\* at the end of the table, where probing wraps.  A chain of two cannot hold all of
\* them; and if k3 is in slot 0, behind k1 and k2, a rehash takes it first, so that the
\* table of 16 has no slot for k2: the loop of the rehash rehashes.
MCHash == (k1 :> 6) @@ (k2 :> 22) @@ (k3 :> 7) @@ (k4 :> 14) @@ (k5 :> 5)

None == {}
Symmetry == Permutations(Vals)
=============================================================================
