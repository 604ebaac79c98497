----------------------------- MODULE MCFraming ------------------------------
(* An instance of Framing for TLC.                                         *)
EXTENDS Framing

\* A packet of n body bytes b, with its length in as many bytes as it takes.
Packet(first, n, b) ==
    <<first>> \o (IF n < LenBase THEN <<n>> ELSE <<LenBase + (n % LenBase), n \div LenBase>>)
        \o [i \in 1..n |-> b]

\* Bodies whose bytes could be taken for a first byte or for a length, none at all, and
\* the lengths on both sides of a second length byte.
Good == {Packet(3, 0, 1), Packet(1, LenBase - 1, 2), Packet(7, LenBase, 1)}

\* Lengths on both sides of the end of the buffer and of max_request_size, a first byte
\* out of range, one that no table knows and a length field longer than the buffer.
Bad ==
    {Packet(3, MaxRequest - 1, 3), Packet(3, MaxRequest, 2), Packet(3, MaxRequest + 1, 2),
     Packet(0, 0, 1), Packet(2, 1, 3),
     <<3>> \o [i \in 1..MaxRequest |-> LenBase] \o <<0>>}

Pair(p, q) == [bytes |-> p \o q, starts |-> {0, Len(p), Len(p) + Len(q)}]

MCStreams ==
    {Pair(p, q) : p \in {Packet(1, LenBase - 1, 2), Packet(7, LenBase, 1)}, q \in Good}
        \cup {Pair(Packet(3, 0, 1), q) : q \in Bad}

ASSUME MCStreamsFramed == Framed
=============================================================================
