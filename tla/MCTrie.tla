------------------------------- MODULE MCTrie -------------------------------
(* Instances of Trie for TLC.                                              *)
EXTENDS Trie

\* A node with three children, which arrive in any order; chains of up to three
\* nodes, some of whose inner nodes are keys.
MCKeys == {<<2>>, <<3>>, <<2, 1>>, <<2, 2>>, <<2, 3>>, <<2, 2, 1>>, <<1, 1, 1>>}
=============================================================================
