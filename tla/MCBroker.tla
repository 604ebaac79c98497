------------------------------ MODULE MCBroker ------------------------------
(* Instances of Broker for TLC.                                            *)
EXTENDS Broker

CONSTANTS p1, p2, i1, i2

OwnIds == (p1 :> {i1}) @@ (p2 :> {i2})

\* The two shapes sys_topics has: with a '/' at the end and without.
Sys == <<"$SOL", "">>
Sol == <<"$SOL", "sol">>
SysNames == {Sys, Sol}
StatNames == {Sys, Sol}

tuple(t) == [topic |-> t, qos |-> 1]

\* p1 subscribes, p2 publishes and subscribes: a name below $SOL/, its twin with
\* one '/' more, and one elsewhere, below a "#" that may come before or after it.
SomeSubs == (p1 :> {<<tuple(<<"$SOL", "#">>)>>, <<tuple(<<"$SOL", "b">>)>>})
         @@ (p2 :> {<<tuple(<<"$SOL", "b", "">>)>>, <<tuple(<<"b", "#">>)>>})
SomePubs == (p1 :> {[topic |-> <<"$SOL", "b">>, qos |-> 0],
                    [topic |-> <<"$SOL", "b">>, qos |-> 3]})
         @@ (p2 :> {[topic |-> <<"$SOL", "b">>, qos |-> 1],
                    [topic |-> <<"$SOL", "", "">>, qos |-> 2],
                    [topic |-> <<"b", "c">>, qos |-> 1]})

\* p1 subscribes to the topic p2 publishes on, with a packet of two filters among
\* others, leaves and comes back to subscribe again; p2 publishes and vanishes.
ChurnSubs == (p1 :> {<<tuple(<<"$SOL", "#">>)>>,
                     <<tuple(<<"$SOL", "b">>), tuple(<<"$SOL", "">>)>>})
          @@ (p2 :> {})
ChurnPubs == (p1 :> {})
          @@ (p2 :> {[topic |-> <<"$SOL", "b">>, qos |-> 2]})

PoliteMay == [p \in Peers |-> {"ack", "qos0", "disconnect"}]
StayMay == [p \in Peers |-> {"ack", "qos0"}]
ChurnMay == (p1 :> {"ack", "disconnect"}) @@ (p2 :> {"ack", "drop"})

Symmetric == Permutations(Closures) \cup Permutations(Addrs)
=============================================================================
