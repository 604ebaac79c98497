----------------------------- MODULE MCRequests -----------------------------
(* An instance of Requests for TLC.                                        *)
EXTENDS Requests

\* Lengths around the ends of the length field's first and second byte, and of
\* an unsigned short.
MCTopicLens == {0, 1, 2, 65533, 65534, 65535}
MCPayloadLens ==
    {0, 1} \cup 120..130 \cup 16374..16386 \cup {65533, 65534, 65535}

\* Up to four filters, of each shape, and as many as make a packet's length need a second
\* byte.
MCFilterSeqs ==
    (BoundedSeq({f \in [len : {0, 1, 4}, shape : Shapes] : f.shape \in ShapesOf(f.len)}, 2)
         \ {<< >>})
        \cup [1..3 -> [len : {2}, shape : Shapes]]
        \cup [1..4 -> [len : {1}, shape : {"plain", "slash"}]]
        \cup {[i \in 1..n |-> [len |-> 1, shape |-> "plain"]] : n \in {31, 32, 41, 42}}

\* What is found behind a packet, or instead of it: nothing, one or two filters, and
\* around the 126 with which the length of a SUBACK needs a second byte.
MCStrays ==
    BoundedSeq({f \in [len : {0, 1, 2}, shape : Shapes] : f.shape \in ShapesOf(f.len)}, 2)
        \cup {[i \in 1..n |-> [len |-> 1, shape |-> "plain"]] : n \in 125..127}

\* A table with every handler in its place.
MCTable == [t \in 0..15 |-> IF t \in {CONNECT, PUBLISH, SUBSCRIBE, UNSUBSCRIBE, PINGREQ,
                                       DISCONNECT} \cup ACKS THEN t ELSE 0]

\* What is assumed of Table is true of the source's.
ASSUME HandlersFit ==
    /\ handlers \in [0..15 -> 0..15]
    /\ \A t \in 0..15 : handlers[t] = DISCONNECT => t \in {PINGREQ, PINGRESP, DISCONNECT}
=============================================================================
