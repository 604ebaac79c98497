------------------------------- MODULE Requests -----------------------------
(***************************************************************************)
(* A packet from unpack_mqtt_packet through its handler to the reply that   *)
(* pack_mqtt_packet builds (mqtt.c, server.c): what is read, what is        *)
(* allocated and freed on the way, and how many bytes are written.  Codec   *)
(* is the part of PUBLISH that depends on lengths; replies take its loop    *)
(* for the length field.                                                    *)
(*                                                                          *)
(* A packet goes to the handler that Table has for its type.  In the code   *)
(* Table is handlers, below: it lacks the entry for PUBREL, so that all     *)
(* entries after it are one place too low.  Routing and connections are the *)
(* subject of Broker and Sessions.                                          *)
(*                                                                          *)
(* The buffer is as recv_packet leaves it, with the body right behind the   *)
(* first byte of the length field.                                          *)
(***************************************************************************)
EXTENDS Codec, SequencesExt

CONSTANTS
    Types,       \* the packet types that arrive: four bits
    Table,       \* Table[t]: the type that the handler for packets of type t is for,
                 \* 0 if there is none
    FilterSeqs,  \* the filters of SUBSCRIBE and UNSUBSCRIBE packets
    Strays,      \* what memory may be taken for: sequences of filters
    SizeMax      \* the largest size_t

CONNECT == 1
CONNACK == 2
PUBLISH == 3
ACKS == 4..7     \* PUBACK, PUBREC, PUBREL, PUBCOMP
SUBSCRIBE == 8
SUBACK == 9
UNSUBSCRIBE == 10
PINGREQ == 12
PINGRESP == 13
DISCONNECT == 14
MQTT_ACK_LEN == 4

\* How a filter ends: with a slash, with "/#", or with neither.
Shapes == {"slash", "hash", "plain"}

\* What a name of n characters can end with.
ShapesOf(n) == IF n = 0 THEN {"plain"} ELSE IF n = 1 THEN {"plain", "slash"} ELSE Shapes

ASSUME TypesAssumption == Types \subseteq 0..15
ASSUME FilterSeqsAssumption ==
    FilterSeqs \subseteq Seq([len : Nat, shape : Shapes]) \ {<< >>}
ASSUME StraysAssumption == Strays \subseteq Seq([len : Nat, shape : Shapes])
\* tuples_len is an unsigned short, and has room for filters that were not sent.
ASSUME FewFiltersAssumption ==
    \A s \in FilterSeqs \cup {<< >>} : \A t \in Strays \cup {<< >>} : Len(s) + Len(t) < U16
ASSUME ShapesAssumption ==
    \A s \in FilterSeqs \cup Strays : \A i \in DOMAIN s : s[i].shape \in ShapesOf(s[i].len)
\* No packet with fields gets to disconnect_handler, which would not release them.
ASSUME TableAssumption ==
    /\ Table \in [0..15 -> 0..15]
    /\ \A t \in 0..15 : Table[t] = DISCONNECT => t \in {PINGREQ, PINGRESP, DISCONNECT}
ASSUME SizeMaxAssumption == SizeMax \in Nat

\* The bytes a filter takes in a packet of type t: its length, itself and its QoS.
FilterBytes(t, f) == 2 + f.len + (IF t = SUBSCRIBE THEN 1 ELSE 0)

\* The bytes of the filters s.
SentBytes(t, s) ==
    LET sum[i \in 0..Len(s)] == IF i = 0 THEN 0 ELSE sum[i - 1] + FilterBytes(t, s[i])
    IN  sum[Len(s)]

\* The table of server.c.
handlers ==
    [t \in 0..15 |-> IF t = 0 THEN 0
                     ELSE <<CONNECT, 0, PUBLISH, 4, 5, 7, SUBSCRIBE, 0, UNSUBSCRIBE, 0,
                            PINGREQ, 0, DISCONNECT, 0, 0>>[t]]

\* A packet's length is a size_t.
ASSUME PacketsAssumption ==
    \A t \in {SUBSCRIBE, UNSUBSCRIBE} : \A s \in FilterSeqs : SentBytes(t, s) <= SizeMax

\* The fields of a CONNECT that are not there in every packet.
ConnectFields == {"client_id", "will", "username", "password"}

VARIABLES
    type,
    sent,       \* the filters in the packet
    fields,     \* the ConnectFields it has
    step,       \* where on_read is with it
    left,       \* the bytes of the packet that buf has not passed
    remaining,  \* remaining_bytes
    tuples,     \* the filters read
    round,      \* i in subscribe_handler
    alloced,    \* its flag
    live,       \* the blocks that are allocated
    twice       \* history: blocks that were freed twice

request == <<type, sent, fields>>
filters == <<left, remaining, tuples>>
loop == <<round, alloced>>
allvars == <<vars, request, step, filters, loop, live, twice>>

-----------------------------------------------------------------------------
\* A packet is in the buffer, behind its fixed header; of a SUBSCRIBE or an
\* UNSUBSCRIBE the identifier is read.
RequestsInit ==
    /\ type \in Types
    /\ IF type = PUBLISH THEN Init
       ELSE /\ pc = "none"
            /\ pkt = [topiclen |-> 0, payloadlen |-> 0, qos |-> 0]
            /\ size = 0 /\ written = 0 /\ rest = 0 /\ bytes = << >>
            /\ pos = 0 /\ value = 0 /\ multiplier = 1
            /\ got = pkt
    /\ sent \in (IF type \in {SUBSCRIBE, UNSUBSCRIBE} THEN FilterSeqs ELSE {<< >>})
    /\ fields \in (IF type = CONNECT THEN SUBSET ConnectFields ELSE {{}})
    /\ step = "unpack"
    /\ left = SentBytes(type, sent)
    /\ remaining = left
    /\ tuples = << >>
    /\ round = 1
    /\ alloced = FALSE
    /\ live = {}
    /\ twice = {}

\* The length field has one byte, so that mqtt_decode_length finds it in the buffer.
OneLengthByte ==
    IF type = PUBLISH THEN Remaining(pkt) < 128 ELSE 2 + SentBytes(type, sent) < 128

-----------------------------------------------------------------------------
(* unpack_mqtt_packet                                                      *)

\* DISCONNECT, PINGREQ, PINGRESP: nothing but the header.
unpack_header ==
    /\ step = "unpack"
    /\ type \in {DISCONNECT, PINGREQ, PINGRESP}
    /\ step' = "handle"
    /\ UNCHANGED <<vars, request, filters, loop, live, twice>>

\* A type without an entry in unpack_handlers, which ends at UNSUBSCRIBE.
unpack_unknown ==
    /\ step = "unpack"
    /\ type \in {0, CONNACK, SUBACK, 11, 15}
    /\ step' = "undefined"
    /\ UNCHANGED <<vars, request, filters, loop, live, twice>>

\* The blocks that hold a field of a CONNECT.
FieldBlocks(field) ==
    IF field = "will" THEN {<<"will_topic", 0>>, <<"will_message", 0>>} ELSE {<<field, 0>>}

\* The flags are eight bytes behind the length's first byte, whatever its size:
\* recv_packet stores the body right behind that byte.
unpack_mqtt_connect ==
    /\ step = "unpack"
    /\ type = CONNECT
    /\ live' = UNION {FieldBlocks(field) : field \in fields}
    /\ step' = "handle"
    /\ UNCHANGED <<vars, request, filters, loop, twice>>

unpack_mqtt_ack ==
    /\ step = "unpack"
    /\ type \in ACKS
    /\ step' = "handle"
    /\ UNCHANGED <<vars, request, filters, loop, live, twice>>

\* The strings of a PUBLISH, whose lengths are the subject of Codec.
unpack_publish_strings ==
    /\ step = "unpack"
    /\ type = PUBLISH
    /\ OneLengthByte
    /\ pc = "done"
    /\ live' = {<<"topic", 0>>, <<"payload", 0>>}
    /\ step' = "handle"
    /\ UNCHANGED <<vars, request, filters, loop, twice>>

\* Mutant: the two bytes of a filter's length are not counted.
counted_short(r, n) == (r - n) % (SizeMax + 1)

\* remaining_bytes after a filter of length n.  The QoS byte is taken off len,
\* not off remaining_bytes.
counted(r, n) == (r - 2 - n) % (SizeMax + 1)

\* Mutant: the loops go on when nothing is left.
more_zero(r) == r >= 0

\* The condition of both loops.
more(r) == r > 0

\* The blocks of the filters s: the array of tuples and their strings.
TupleBlocks(s) == {<<"tuples", 0>> : i \in DOMAIN s} \cup {<<"topic", i>> : i \in DOMAIN s}

\* The filters s are read, behind those that were.
AddTuples(s) ==
    /\ tuples' = tuples \o s
    /\ live' = TupleBlocks(tuples \o s)

\* One iteration of the loop in unpack_mqtt_subscribe and unpack_mqtt_unsubscribe.
unpack_filter ==
    /\ step = "unpack"
    /\ type \in {SUBSCRIBE, UNSUBSCRIBE}
    /\ OneLengthByte
    /\ more(remaining)
    /\ Len(tuples) < Len(sent)
    /\ LET f == sent[Len(tuples) + 1] IN
          /\ remaining' = counted(remaining, f.len)
          /\ left' = left - FilterBytes(type, f)
          /\ AddTuples(<<f>>)
    /\ UNCHANGED <<vars, request, step, loop, twice>>

\* The loop goes on past the packet's end and takes what is there for filters.  If
\* remaining_bytes gets to zero with one of them the loop ends; else it wraps and the
\* loop reads on, through memory that is not the buffer's.
unpack_behind ==
    /\ step = "unpack"
    /\ type \in {SUBSCRIBE, UNSUBSCRIBE}
    /\ OneLengthByte
    /\ more(remaining)
    /\ Len(tuples) = Len(sent)
    /\ \/ /\ \E s \in Strays :
                /\ SentBytes(UNSUBSCRIBE, s) = remaining
                /\ AddTuples(s)
          /\ remaining' = 0
          /\ step' = "handle"
       \/ /\ step' = "undefined"
          /\ UNCHANGED <<remaining, tuples, live>>
    /\ UNCHANGED <<vars, request, left, loop, twice>>

\* A longer length field: the body is stored over its second byte, so that
\* mqtt_decode_length takes bytes of the body for the rest of the length and what
\* comes after them for the fields.  Whatever lengths those seem to have, the handler
\* gets some strings or filters, or the reading runs out of the buffer.
unpack_misread ==
    /\ step = "unpack"
    /\ type \in {PUBLISH, SUBSCRIBE, UNSUBSCRIBE}
    /\ ~OneLengthByte
    /\ type = PUBLISH => pc = "done"
    /\ \/ /\ type = PUBLISH
          /\ live' = {<<"topic", 0>>, <<"payload", 0>>}
          /\ step' = "handle"
          /\ UNCHANGED filters
       \/ /\ type # PUBLISH
          /\ \E s \in Strays : AddTuples(s)
          /\ step' = "handle"
          /\ UNCHANGED <<left, remaining>>
       \/ /\ step' = "undefined"
          /\ UNCHANGED <<filters, live>>
    /\ UNCHANGED <<vars, request, loop, twice>>

unpack_filters_end ==
    /\ step = "unpack"
    /\ type \in {SUBSCRIBE, UNSUBSCRIBE}
    /\ OneLengthByte
    /\ ~more(remaining)
    /\ step' = "handle"
    /\ UNCHANGED <<vars, request, filters, loop, live, twice>>

-----------------------------------------------------------------------------
(* The handlers.                                                           *)

\* Mutant: the payload of a PUBLISH is forgotten.
mqtt_packet_release_topic(t) ==
    IF t = PUBLISH THEN {<<"topic", 0>>}
    ELSE TupleBlocks(tuples)

\* The blocks mqtt_packet_release frees for a packet of type t.  It is called for
\* PUBLISH and SUBSCRIBE, and for SUBACK, for which it frees the codes.
mqtt_packet_release(t) ==
    IF t = PUBLISH THEN {<<"topic", 0>>, <<"payload", 0>>}
    ELSE TupleBlocks(tuples)

\* on_read calls the handler of packets of type t with such a packet.
Dispatched(t) == step = "handle" /\ type = t /\ Table[t] = t

\* A reply of n bytes is packed into a buffer of that size: pc and rest are as
\* mqtt_encode_length finds them, len is the length of what follows it.
start_reply(n, len) ==
    /\ pc' = "encode"
    /\ size' = n
    /\ written' = 1
    /\ rest' = len
    /\ bytes' = << >>
    /\ step' = "pack"
    /\ UNCHANGED <<pkt, pos, value, multiplier, got>>

\* connect_handler.  An identifier of length 0 is a NULL pointer, which the table
\* cannot look up.
connect_unnamed ==
    /\ Dispatched(CONNECT)
    /\ "client_id" \notin fields
    /\ step' = "undefined"
    /\ UNCHANGED <<vars, request, filters, loop, live, twice>>

\* The identifier is in use: no reply.
connect_double ==
    /\ Dispatched(CONNECT)
    /\ "client_id" \in fields
    /\ step' = "done"
    /\ UNCHANGED <<vars, request, filters, loop, live, twice>>

\* The identifier becomes the key of the client's entry.  The packet is not released.
connect_handler ==
    /\ Dispatched(CONNECT)
    /\ "client_id" \in fields
    /\ live' = live \cup {<<"response", 0>>, <<"packed", 0>>}
    /\ start_reply(MQTT_ACK_LEN, MQTT_HEADER_LEN)
    /\ UNCHANGED <<request, filters, loop, twice>>

\* disconnect_handler does not look at the packet.
disconnect_handler ==
    /\ step = "handle"
    /\ Table[type] = DISCONNECT
    /\ step' = "done"
    /\ UNCHANGED <<vars, request, filters, loop, live, twice>>

\* A NULL in the table, a handler that takes the packet for one of another type, or one
\* that is declared and has no definition: those for PUBACK, PUBREC, PUBREL, PUBCOMP
\* and PINGREQ.
unhandled ==
    /\ step = "handle"
    /\ Table[type] # DISCONNECT
    /\ Table[type] # type \/ type \in {0, PINGREQ} \cup ACKS
    /\ step' = "undefined"
    /\ UNCHANGED <<vars, request, filters, loop, live, twice>>

\* Mutant: the topic is freed whether or not it was allocated.
frees_topic_any(own) == TRUE

\* Whether free(topic) at the end of a round hits the packet's own string: alloced
\* is set when a filter is copied, and never reset.
frees_topic(own) == alloced /\ own

\* One round of subscribe_handler's loop.  A filter that ends with neither "/" nor
\* "/#" is copied with a slash, and the copy freed at the end of the round.
subscribe_tuple ==
    LET own == tuples[round].shape # "plain"
        topic == <<"topic", round>>
    IN  /\ Dispatched(SUBSCRIBE)
        /\ round <= Len(tuples)
        /\ alloced' = (alloced \/ ~own)
        /\ round' = round + 1
        /\ live' = IF frees_topic(own) THEN live \ {topic} ELSE live
        /\ UNCHANGED <<vars, request, step, filters, twice>>

\* Mutant: the packet identifier is left out.
suback_len_short(n) == MQTT_HEADER_LEN + n

\* The size of the SUBACK's buffer and of the payload that is copied from it.
suback_len(n) == MQTT_HEADER_LEN + 2 + n

\* The rest of it: mqtt_packet_suback, which copies the codes, the release of the
\* packet, and pack_mqtt_suback up to the length field.
subscribe_handler ==
    /\ Dispatched(SUBSCRIBE)
    /\ round > Len(tuples)
    /\ twice' = mqtt_packet_release(SUBSCRIBE) \ live
    /\ live' = (live \ mqtt_packet_release(SUBSCRIBE))
                  \cup {<<"suback", 0>>, <<"rcs", 0>>, <<"packed", 0>>}
    /\ start_reply(suback_len(Len(tuples)), 2 + Len(tuples))
    /\ UNCHANGED <<request, filters, loop>>

\* The packet is not released.
unsubscribe_handler ==
    /\ Dispatched(UNSUBSCRIBE)
    /\ live' = live \cup {<<"packed", 0>>}
    /\ start_reply(MQTT_ACK_LEN, MQTT_HEADER_LEN)
    /\ UNCHANGED <<request, filters, loop, twice>>

\* QoS 0, and 3: no reply.
publish_qos0 ==
    /\ Dispatched(PUBLISH)
    /\ pkt.qos \notin {1, 2}
    /\ live' = live \ mqtt_packet_release(PUBLISH)
    /\ step' = "done"
    /\ UNCHANGED <<vars, request, filters, loop, twice>>

\* PUBACK or PUBREC.
publish_acked ==
    /\ Dispatched(PUBLISH)
    /\ pkt.qos \in {1, 2}
    /\ live' = (live \ mqtt_packet_release(PUBLISH)) \cup {<<"packed", 0>>}
    /\ start_reply(MQTT_ACK_LEN, MQTT_HEADER_LEN)
    /\ UNCHANGED <<request, filters, loop, twice>>

\* The rest of pack_mqtt_connack, pack_mqtt_ack and pack_mqtt_suback behind the
\* length field, the copy to cb->payload, and the release of what the reply took.
pack_reply ==
    /\ step = "pack"
    /\ pc = "body"
    /\ written' = written + Len(bytes) + (IF type = SUBSCRIBE THEN 2 + Len(tuples) ELSE 2)
    /\ live' = (live \ {<<"packed", 0>>, <<"response", 0>>, <<"suback", 0>>, <<"rcs", 0>>})
                  \cup {<<"reply", size>>}
    /\ pc' = "packed"
    /\ step' = "done"
    /\ UNCHANGED <<pkt, size, rest, bytes, pos, value, multiplier, got>>
    /\ UNCHANGED <<request, filters, loop, twice>>

-----------------------------------------------------------------------------
RequestsNext ==
    \/ /\ type = PUBLISH /\ step = "unpack"
       /\ Next
       /\ UNCHANGED <<request, step, filters, loop, live, twice>>
    \/ /\ step = "pack"
       /\ mqtt_encode_length
       /\ UNCHANGED <<request, step, filters, loop, live, twice>>
    \/ unpack_header
    \/ unpack_unknown
    \/ unpack_mqtt_connect
    \/ unpack_mqtt_ack
    \/ unpack_publish_strings
    \/ unpack_filter
    \/ unpack_behind
    \/ unpack_misread
    \/ unpack_filters_end
    \/ connect_unnamed
    \/ connect_double
    \/ connect_handler
    \/ disconnect_handler
    \/ unhandled
    \/ subscribe_tuple
    \/ subscribe_handler
    \/ unsubscribe_handler
    \/ publish_qos0
    \/ publish_acked
    \/ pack_reply

RequestsSpec == RequestsInit /\ [][RequestsNext]_allvars

\* The code is sequential: it goes on until it returns.
RequestsFairSpec == RequestsSpec /\ WF_allvars(RequestsNext)

-----------------------------------------------------------------------------
\* As long as the length field has one byte, a handler gets the filters that were sent,
\* all of them and in their order, and unsubscribe_handler gets nothing else.  On the way
\* remaining_bytes never falls short of what is left, and for UNSUBSCRIBE is just that.
\* (For SUBSCRIBE it is more, and subscribe_handler gets filters that were not sent.)
ReadsAll ==
    type \in {SUBSCRIBE, UNSUBSCRIBE} /\ OneLengthByte =>
        /\ step = "unpack" => remaining >= left /\ (type = UNSUBSCRIBE => remaining = left)
        /\ step \in {"handle", "pack", "done"} =>
              /\ IsPrefix(sent, tuples)
              /\ type = UNSUBSCRIBE => tuples = sent

\* No block is freed twice, except the string of a filter that needs no slash and
\* comes after one that does in the same SUBSCRIBE, which subscribe_handler and
\* mqtt_packet_release both free.
FreedOnce ==
    type = SUBSCRIBE /\ step \in {"pack", "done"} =>
        \A i \in DOMAIN tuples :
            <<"topic", i>> \in twice <=>
                /\ tuples[i].shape # "plain"
                /\ \E j \in 1..(i - 1) : tuples[j].shape = "plain"

\* Once a PUBLISH, a SUBSCRIBE or a DISCONNECT is dealt with, nothing of it is
\* left in memory but the reply, whatever its QoS and its filters.  (A CONNECT's
\* strings and an UNSUBSCRIBE's filters are never released.)
Released ==
    step = "done" /\ type \notin {CONNECT, UNSUBSCRIBE} =>
        live \subseteq {<<"reply", size>>}

\* The bytes of a SUBACK's length field behind the first one.
MoreLengthBytes(codes) == IF codes < 126 THEN 0 ELSE IF codes < 16382 THEN 1 ELSE 2

\* A reply fills its buffer, which is also what is copied and sent: for SUBACK only
\* while its length fits one byte.  From 126 codes on one byte is written past the
\* buffer and the last code is not sent, from 16382 codes on two.
ReplyFits ==
    pc = "packed" =>
        written = size + (IF type = SUBSCRIBE THEN MoreLengthBytes(Len(tuples)) ELSE 0)

\* The packets whose handling keeps to what was sent: the table has their handler, their
\* length field one byte, a CONNECT names its client, and they are not a SUBSCRIBE, which
\* is read past its end.
Sound ==
    /\ Table[type] = type
    /\ OneLengthByte
    /\ \/ type \in {PUBLISH, UNSUBSCRIBE, DISCONNECT}
       \/ type = CONNECT /\ "client_id" \in fields

\* Each request is dealt with or known to go wrong: both length loops and the loops over
\* filters end, and a packet that is sound is dealt with.
Answered == <>(step = "done" \/ (step = "undefined" /\ ~Sound))

=============================================================================
