----------------------------- MODULE MCSessions -----------------------------
(* Instances of Sessions for TLC.                                          *)
EXTENDS Sessions, TLC

CONSTANTS p1, p2, i1, i2

\* Everything a peer may do, with one identifier shared by both peers.
AnyIds == (p1 :> {i1}) @@ (p2 :> {i1, i2})
AnyMay == [p \in Peers |-> Ops]

\* Peers that keep to the protocol, each with an identifier of its own, one of
\* them given to bad bytes, packets that are too large and early requests.
OwnIds == (p1 :> {i1}) @@ (p2 :> {i2})
GoodMay == (p1 :> {"ack", "disconnect"})
        @@ (p2 :> {"ack", "disconnect", "qos0", "large", "badbyte", "early"})

\* One peer whose connection breaks now and then.
LoneIds == (p1 :> {i1})
LoneMay == (p1 :> {"drop"})

Symmetric == Permutations(Closures) \cup Permutations(Addrs)
=============================================================================
