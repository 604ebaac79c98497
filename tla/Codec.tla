-------------------------------- MODULE Codec -------------------------------
(***************************************************************************)
(* How a PUBLISH packet is packed (mqtt.c, pack.c, and the length that      *)
(* server.c computes for send_bytes) and unpacked again.  The contents of   *)
(* topic and payload do not matter, their lengths do: the size of the       *)
(* buffer is computed before anything is written into it, by a formula that *)
(* has to agree with what the loop of mqtt_encode_length will write.        *)
(*                                                                          *)
(* One step per iteration of the two length loops.  Topic and payload hold  *)
(* no NUL, at which pack_bytes would stop.                                  *)
(***************************************************************************)
EXTENDS Integers, Sequences

CONSTANTS
    TopicLens, PayloadLens,  \* the lengths of topics and payloads: unsigned short
    Qos

MQTT_HEADER_LEN == 2
MAX_LEN_BYTES == 4
U16 == 65536

ASSUME LensAssumption ==
    \A n \in TopicLens \cup PayloadLens : n \in Nat /\ n < U16
ASSUME QosAssumption == Qos \subseteq 0..3

VARIABLES
    pc,
    pkt,         \* what is packed: topiclen, payloadlen and qos
    size,        \* the size of the buffer
    written,     \* the bytes written into it
    rest,        \* len in mqtt_encode_length
    bytes,       \* the bytes of the length field
    pos, value, multiplier,  \* the state of mqtt_decode_length
    got          \* what is unpacked

vars == <<pc, pkt, size, written, rest, bytes, pos, value, multiplier, got>>

Packets == [topiclen : TopicLens, payloadlen : PayloadLens, qos : Qos]

\* The packet identifier is there for every QoS but 0; the field has two bits.
IdLen(p) == IF p.qos > 0 THEN 2 ELSE 0

\* The length of the packet with a length field of one byte.
pktlen(p) == MQTT_HEADER_LEN + 2 + p.topiclen + p.payloadlen + IdLen(p)

\* Mutant: the threshold is off by one.
remaininglen_offset_late(n) ==
    IF n - 1 > 2097153 THEN 3
    ELSE IF n - 1 > 16385 THEN 2
    ELSE IF n - 1 > 129 THEN 1
    ELSE 0

\* The bytes the length field takes beyond the first: 0x200000, 0x4000, 0x80.
remaininglen_offset(n) ==
    IF n - 1 > 2097152 THEN 3
    ELSE IF n - 1 > 16384 THEN 2
    ELSE IF n - 1 > 128 THEN 1
    ELSE 0

Remaining(p) == pktlen(p) - MQTT_HEADER_LEN

Init ==
    /\ pkt \in Packets
    /\ pc = "pack"
    /\ size = 0
    /\ written = 0
    /\ rest = 0
    /\ bytes = << >>
    /\ pos = 0
    /\ value = 0
    /\ multiplier = 1
    /\ got = [topiclen |-> 0, payloadlen |-> 0, qos |-> pkt.qos]

\* pack_mqtt_publish up to the length field: the buffer and the first byte.
pack_mqtt_publish ==
    /\ pc = "pack"
    /\ size' = pktlen(pkt) + remaininglen_offset(pktlen(pkt))
    /\ written' = 1
    /\ rest' = size' - MQTT_HEADER_LEN - remaininglen_offset(pktlen(pkt))
    /\ pc' = "encode"
    /\ UNCHANGED <<pkt, bytes, pos, value, multiplier, got>>

\* Mutant: the continuation bit is set when there were bytes left before.
digit_early(n) == (n % 128) + (IF n > 0 THEN 128 ELSE 0)

\* One byte of the length field: seven bits of n, and the continuation bit when
\* n has more.
digit(n) == (n % 128) + (IF n \div 128 > 0 THEN 128 ELSE 0)

\* One iteration of the loop in mqtt_encode_length; the last one moves on.
mqtt_encode_length ==
    /\ pc = "encode"
    /\ IF Len(bytes) + 1 > MAX_LEN_BYTES
       THEN pc' = "body" /\ UNCHANGED <<bytes, rest>>
       ELSE /\ bytes' = Append(bytes, digit(rest))
            /\ rest' = rest \div 128
            /\ pc' = IF rest' > 0 THEN "encode" ELSE "body"
    /\ UNCHANGED <<pkt, size, written, pos, value, multiplier, got>>

\* The rest of pack_mqtt_publish: the pointer moves past the length field, and
\* the topic with its length, the identifier and the payload follow.
pack_body ==
    /\ pc = "body"
    /\ written' = written + Len(bytes) + 2 + pkt.topiclen + IdLen(pkt) + pkt.payloadlen
    /\ pc' = "decode"
    /\ UNCHANGED <<pkt, size, rest, bytes, pos, value, multiplier, got>>

\* One iteration of the loop in mqtt_decode_length.
mqtt_decode_length ==
    /\ pc = "decode"
    /\ pos < Len(bytes)
    /\ value' = value + (bytes[pos + 1] % 128) * multiplier
    /\ multiplier' = multiplier * 128
    /\ pos' = pos + 1
    /\ pc' = IF bytes[pos + 1] >= 128 THEN "decode" ELSE "unpack"
    /\ UNCHANGED <<pkt, size, written, rest, bytes, got>>

\* Mutant: the identifier is not taken off the length of the message.
message_len_id(len, p) == ((len % U16) - 2 - p.topiclen) % U16

\* message_len in unpack_mqtt_publish, an unsigned short that may wrap on the
\* way.
message_len(len, p) == ((len % U16) - IdLen(p) - 2 - p.topiclen) % U16

\* The rest of unpack_mqtt_publish: the topic comes with its length, the length
\* of the payload is what remains.
unpack_mqtt_publish ==
    /\ pc = "unpack"
    /\ got' = [topiclen |-> pkt.topiclen, payloadlen |-> message_len(value, pkt),
               qos |-> pkt.qos]
    /\ pc' = "done"
    /\ UNCHANGED <<pkt, size, written, rest, bytes, pos, value, multiplier>>

Next ==
    \/ pack_mqtt_publish
    \/ mqtt_encode_length
    \/ pack_body
    \/ mqtt_decode_length
    \/ unpack_mqtt_publish

Spec == Init /\ [][Next]_vars

-----------------------------------------------------------------------------
\* The buffer that pack_mqtt_publish allocates, and the length that
\* publish_handler and publish_message give send_bytes (the same formula), is
\* filled to the last byte and not beyond, on both sides of every length at
\* which the length field grows.
FillsBuffer == pc \in {"decode", "unpack", "done"} => written = size

\* mqtt_decode_length reads only bytes that mqtt_encode_length wrote, and its
\* int multiplier does not overflow.
DecodeInBounds ==
    /\ multiplier < 268435456 * 2
    /\ pc = "decode" => pos < Len(bytes)

\* The length field is decoded to the length that was encoded, and the payload
\* comes out with the length it went in with, although unsigned short
\* message_len holds less than the packet's length may be.
RoundTrip == pc = "done" => value = Remaining(pkt) /\ got = pkt
=============================================================================
