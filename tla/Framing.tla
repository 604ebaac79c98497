------------------------------- MODULE Framing ------------------------------
(***************************************************************************)
(* The bytes of one connection: recv_packet and on_read (server.c) with      *)
(* recv_bytes (network.c) on the way in, send_bytes and on_write on the way *)
(* out.  The socket does not block, so bytes arrive, and room to send them  *)
(* appears, between any two system calls.                                   *)
(*                                                                          *)
(* recv_packet stores the first byte at buf[0], the bytes of the length     *)
(* field from buf[1] on and the body from buf[2] on, however long the       *)
(* length field is.  A length byte carries LenBase values, 128 in the code, *)
(* and the continuation bit above them.                                     *)
(*                                                                          *)
(* Handlers belong to Sessions and Broker.  Here a packet that recv_packet  *)
(* returns and the tables of handlers know is answered by some reply, and   *)
(* other connections' handlers send messages to this one between its        *)
(* callbacks.  recv_packet lets the first bytes 1 to 14 through, whose type *)
(* is 0, and the tables hold NULL for it: in the code Dispatched is {} and  *)
(* every packet ends with dispatch_null.  What is said here about what      *)
(* follows is said for any Dispatched.                                      *)
(***************************************************************************)
EXTENDS Integers, SequencesExt

CONSTANTS
    LenBase,      \* the values a length byte carries
    MaxRequest,   \* conf->max_request_size, the size of the buffer
    Streams,      \* what the peer sends: bytes, and where in them a packet starts
                  \* and the last one ends
    Replies,      \* the sizes of replies and messages
    Room,         \* the bytes the socket takes before it is full
    May,          \* what the peer does: "fin", "rst"
    Dispatched,   \* the first bytes that unpack_handlers and handlers have a function for
    NULL

CONNECT == 1
DISCONNECT == 14
MAX_LEN_BYTES == 4

Byte == 0..(2 * LenBase - 1)

ASSUME LenBaseAssumption == LenBase \in Nat \ {0}
ASSUME MaxRequestAssumption == MaxRequest \in Nat
ASSUME StreamsAssumption ==
    \A s \in Streams :
        /\ s.bytes \in Seq(Byte)
        /\ s.starts \subseteq 0..Len(s.bytes)
        /\ 0 \in s.starts
ASSUME NullAssumption == NULL \notin Byte
ASSUME RoomAssumption == Room \in Nat \ {0} /\ Replies \subseteq Nat \ {0}

VARIABLES
    stream,     \* the bytes the peer sends
    starts,     \* where in the stream a packet starts, and where the last one ends
    arrived,    \* how many of them are in the socket or were
    peer,       \* "here", "fin" or "rst"
    pc,         \* where the connection's callback is
    read,       \* how many bytes recv(2) has returned
    buf,        \* on_read's buffer, with the two bytes behind its end
    top,        \* one more than the highest index stored to
    buff,       \* the bytes of the length field, also those past the end of buff[4]
    tlen,       \* the length they encode
    total,      \* the bytes of the body that were received
    result,     \* what recv_packet returned, or how its packet was dispatched
    cut,        \* history: a packet was not read to its end
    handed,     \* history: where packets start that were handed over, until one is cut
    payload,    \* the size of cb->payload, 0 for NULL
    size, sent, \* what send_bytes is given, and how much of it went out
    room,       \* what the socket takes at once
    full,       \* history: the socket had no room for the rest of a payload
    split       \* history: a payload went out in part

wire == <<stream, starts, arrived, peer>>
reader == <<read, buf, top, buff, tlen, total, result, cut, handed>>
writer == <<payload, size, sent, room, full, split>>
vars == <<stream, starts, arrived, peer, pc, read, buf, top, buff, tlen, total,
          result, cut, handed, payload, size, sent, room, full, split>>

Fresh == [i \in 0..(MaxRequest + 1) |-> NULL]

TypeOK ==
    /\ stream \in Seq(Byte)
    /\ arrived \in 0..Len(stream)
    /\ peer \in {"here", "fin", "rst"}
    /\ pc \in {"idle", "first", "length", "body", "handle", "write", "reply",
               "push", "deaf", "closed", "undefined"}
    /\ read \in 0..arrived
    /\ buf \in [0..(MaxRequest + 1) -> Byte \cup {NULL}]
    /\ top \in Nat
    /\ buff \in Seq(Byte)
    /\ tlen \in Nat /\ total \in 0..tlen
    /\ result \in {"none", "ok", "dc", "packeterr", "maxreqsize", "quiet", "null"}
    /\ cut \in BOOLEAN /\ full \in BOOLEAN /\ split \in BOOLEAN
    /\ payload \in Nat /\ size \in Nat /\ sent \in 0..size
    /\ room \in 0..Room

Init ==
    /\ \E s \in Streams :
          /\ stream = s.bytes
          /\ starts = s.starts
    /\ arrived = 0
    /\ peer = "here"
    /\ pc = "idle"
    /\ read = 0
    /\ buf = Fresh
    /\ top = 0
    /\ buff = << >>
    /\ tlen = 0
    /\ total = 0
    /\ result = "none"
    /\ cut = FALSE
    /\ handed = << >>
    /\ payload = 0
    /\ size = 0
    /\ sent = 0
    /\ room = Room
    /\ full = FALSE
    /\ split = FALSE

-----------------------------------------------------------------------------
(* The network and the peer.                                               *)

\* Bytes arrive, as long as the connection is read.
Arrive ==
    /\ peer = "here"
    /\ pc \notin {"deaf", "closed", "undefined"}
    /\ arrived < Len(stream)
    /\ arrived' \in (arrived + 1)..Len(stream)
    /\ UNCHANGED <<stream, starts, peer, pc, reader, writer>>

Leave(how) ==
    /\ peer = "here"
    /\ how \in May
    /\ peer' = how
    /\ UNCHANGED <<stream, starts, arrived, pc, reader, writer>>

\* The peer takes what was sent and the socket has room again.
Drain ==
    /\ peer # "rst"
    /\ pc \notin {"deaf", "closed", "undefined"}
    /\ room < Room
    /\ room' = Room
    /\ UNCHANGED <<wire, pc, reader, payload, size, sent, full, split>>

-----------------------------------------------------------------------------
(* Reading.                                                                *)

\* recv(2) returns bytes; after a reset it fails and what was there is lost.
Readable == peer # "rst" /\ read < arrived

\* EPOLLIN.
on_read ==
    /\ pc = "idle"
    /\ Readable \/ peer = "fin"
    /\ pc' = "first"
    /\ UNCHANGED <<wire, reader, writer>>

\* EPOLLERR: the loop takes the event and nobody arms the descriptor again.
hangup ==
    /\ pc \in {"idle", "write"}
    /\ peer = "rst"
    /\ pc' = "deaf"
    /\ UNCHANGED <<wire, reader, writer>>

\* recv_bytes of one byte returns 0 or -1: -ERRCLIENTDC, and on_read frees the
\* buffer with what was read and returns without arming the descriptor.
recv_nothing ==
    /\ pc \in {"first", "length"}
    /\ ~Readable
    /\ pc' = "deaf"
    /\ result' = "dc"
    /\ cut' = (cut \/ read \notin starts)
    /\ UNCHANGED <<wire, read, buf, top, buff, tlen, total, handed, writer>>

\* The whole byte is compared, although the packet type is its upper half.
in_range(b) == CONNECT <= b /\ b <= DISCONNECT

\* The first byte; a wrong one makes on_read drop the connection.
recv_first ==
    /\ pc = "first"
    /\ Readable
    /\ read' = read + 1
    /\ buf' = [buf EXCEPT ![0] = stream[read + 1]]
    /\ top' = 1
    /\ IF in_range(stream[read + 1])
       THEN pc' = "length" /\ UNCHANGED result
       ELSE pc' = "closed" /\ result' = "packeterr"
    /\ UNCHANGED <<wire, buff, tlen, total, cut, handed, writer>>

\* Mutant: every byte counts as much as the first.
mqtt_decode_length_flat(s) == FoldLeft(LAMBDA sum, b : sum + (b % LenBase), 0, s)

\* What byte i of the length bytes s carries, without the continuation bit.
digit(s, i) == IF i <= Len(s) THEN s[i] % LenBase ELSE 0

\* The value of the length bytes s, at most MAX_LEN_BYTES of them: each is multiplied
\* by one more power of the base.
mqtt_decode_length(s) ==
    digit(s, 1) + digit(s, 2) * LenBase + digit(s, 3) * (LenBase * LenBase)
        + digit(s, 4) * (LenBase * LenBase * LenBase)

too_large(n) == n > MaxRequest

\* A length byte goes to buf[1 + count] and buff[count], as long as the bytes have
\* the continuation bit.  buff holds four: from the fifth on they are stored past its
\* end, and at some time past the end of buf, and the process may die of it, at the
\* latest when recv_packet decodes and returns.
recv_length ==
    LET b == stream[read + 1]
        field == Append(buff, b)
        over == Len(field) > MAX_LEN_BYTES
    IN  /\ pc = "length"
        /\ Readable
        /\ read' = read + 1
        /\ buf' = [i \in DOMAIN buf |-> IF i = 1 + Len(buff) THEN b ELSE buf[i]]
        /\ top' = 2 + Len(buff)
        /\ buff' = field
        /\ tlen' = IF b >= LenBase \/ over THEN 0 ELSE mqtt_decode_length(field)
        /\ \/ b >= LenBase /\ pc' = "length" /\ UNCHANGED result
           \/ over /\ pc' = "undefined" /\ UNCHANGED result
           \/ /\ b < LenBase /\ ~over /\ too_large(tlen')
              /\ pc' = "deaf" /\ result' = "maxreqsize"
           \/ /\ b < LenBase /\ ~over /\ ~too_large(tlen')
              /\ pc' = "body" /\ UNCHANGED result
        /\ UNCHANGED <<wire, total, cut, handed, writer>>

\* Mutant: the body goes over the length byte.
body_at_first == 1

\* Where the body goes, whatever the length of the length field.
body_at == 2

\* Mutants: what was received is asked for again; the fixed header is counted in.
missing_again == tlen
missing_whole == 1 + Len(buff) + tlen - total

\* What recv_bytes asks recv(2) for.
missing == tlen - total

\* One recv(2) of the body: as much as there is of what is missing.
recv_body ==
    LET n == IF missing < arrived - read THEN missing ELSE arrived - read
        from == body_at + total
    IN  /\ pc = "body"
        /\ total < tlen
        /\ Readable
        /\ buf' = [i \in DOMAIN buf |->
                     IF i \in from..(from + n - 1) THEN stream[read + 1 + i - from]
                     ELSE buf[i]]
        /\ top' = IF from + n > top THEN from + n ELSE top
        /\ read' = read + n
        /\ total' = total + n
        /\ UNCHANGED <<wire, pc, buff, tlen, result, cut, handed, writer>>

\* The body is complete, or recv(2) says EAGAIN or the end of the stream: either
\* way recv_packet returns the packet.
recv_done ==
    /\ pc = "body"
    /\ total = tlen \/ (~Readable /\ peer # "rst")
    /\ pc' = "handle"
    /\ result' = "ok"
    /\ cut' = (cut \/ total < tlen)
    /\ handed' = IF cut' THEN << >> ELSE Append(handed, read - total - Len(buff) - 1)
    /\ UNCHANGED <<wire, read, buf, top, buff, tlen, total, writer>>

\* An error while the body is read: the descriptor is closed, and the number of
\* bytes so far returned with command 0, for which handlers has no function.
recv_err ==
    /\ pc = "body"
    /\ total < tlen
    /\ peer = "rst"
    /\ pc' = "undefined"
    /\ cut' = TRUE
    /\ UNCHANGED <<wire, read, buf, top, buff, tlen, total, result, handed, writer>>

\* The handler stores a reply of n bytes, the descriptor is armed for writing and
\* the buffer freed.
handle(n) ==
    /\ pc = "handle"
    /\ buf[0] \in Dispatched
    /\ pc' = "write"
    /\ payload' = n
    /\ buf' = Fresh
    /\ top' = 0
    /\ buff' = << >>
    /\ tlen' = 0
    /\ total' = 0
    /\ result' = "none"
    /\ UNCHANGED <<wire, read, cut, handed, size, sent, room, full, split>>

\* The handler returns REARM_R, for which on_read has no branch (it compares with
\* REARM_W twice): the buffer is freed and the descriptor stays disarmed.
handle_quiet ==
    /\ pc = "handle"
    /\ buf[0] \in Dispatched
    /\ pc' = "deaf"
    /\ result' = "quiet"
    /\ UNCHANGED <<wire, read, buf, top, buff, tlen, total, cut, handed, writer>>

\* The table has NULL for the packet's type, and it is called.
dispatch_null ==
    /\ pc = "handle"
    /\ buf[0] \notin Dispatched
    /\ pc' = "undefined"
    /\ result' = "null"
    /\ UNCHANGED <<wire, read, buf, top, buff, tlen, total, cut, handed, writer>>

-----------------------------------------------------------------------------
(* Writing.                                                                *)

\* EPOLLOUT: on_write hands the payload to send_bytes.
on_write ==
    /\ pc = "write"
    /\ peer # "rst"
    /\ room > 0
    /\ pc' = "reply"
    /\ size' = payload
    /\ UNCHANGED <<wire, reader, payload, sent, room, full, split>>

\* A handler of another connection sends a message of n bytes to this one, which
\* may have a reply of its own to write.
publish(n) ==
    /\ pc \in {"idle", "write"}
    /\ pc' = "push"
    /\ size' = n
    /\ UNCHANGED <<wire, reader, payload, sent, room, full, split>>

\* Mutant: the loop stops when one byte is left.
unsent_short == sent + 1 < size

\* The condition of send_bytes' loop.
unsent == sent < size

\* One send(2), which takes what there is room for.
send_some ==
    LET n == IF size - sent < room THEN size - sent ELSE room IN
    /\ pc \in {"reply", "push"}
    /\ unsent
    /\ peer # "rst"
    /\ room > 0
    /\ sent' = sent + n
    /\ room' = room - n
    /\ UNCHANGED <<wire, pc, reader, payload, size, full, split>>

\* Mutant: on_write leaves the descriptor disarmed.
sent_bytes_unarmed ==
    /\ IF pc = "reply" THEN payload' = 0 ELSE UNCHANGED payload
    /\ pc' = IF pc = "reply" THEN "deaf" ELSE IF payload' = 0 THEN "idle" ELSE "write"
    /\ split' = (split \/ sent < size)
    /\ size' = 0
    /\ sent' = 0

\* send_bytes returns and the rest is forgotten.  on_write then releases the
\* payload and arms the descriptor for reading.
sent_bytes ==
    /\ IF pc = "reply" THEN payload' = 0 ELSE UNCHANGED payload
    /\ pc' = IF payload' = 0 THEN "idle" ELSE "write"
    /\ split' = (split \/ sent < size)
    /\ size' = 0
    /\ sent' = 0

\* Everything is sent.
send_all ==
    /\ pc \in {"reply", "push"}
    /\ ~unsent
    /\ sent_bytes
    /\ UNCHANGED <<wire, reader, room, full>>

\* EAGAIN: the socket is full.
send_full ==
    /\ pc \in {"reply", "push"}
    /\ unsent
    /\ peer # "rst"
    /\ room = 0
    /\ full' = TRUE
    /\ sent_bytes
    /\ UNCHANGED <<wire, reader, room>>

\* Any other error.
send_err ==
    /\ pc \in {"reply", "push"}
    /\ unsent
    /\ peer = "rst"
    /\ sent_bytes
    /\ UNCHANGED <<wire, reader, room, full>>

-----------------------------------------------------------------------------
Callbacks ==
    \/ on_read
    \/ hangup
    \/ recv_nothing
    \/ recv_first
    \/ recv_length
    \/ recv_body
    \/ recv_done
    \/ recv_err
    \/ \E n \in Replies : handle(n)
    \/ handle_quiet
    \/ dispatch_null
    \/ on_write
    \/ send_some
    \/ send_all
    \/ send_full
    \/ send_err

Next ==
    \/ Arrive
    \/ \E how \in {"fin", "rst"} : Leave(how)
    \/ Drain
    \/ \E n \in Replies : publish(n)
    \/ Callbacks

Spec == Init /\ [][Next]_vars

\* The loop runs on, the network delivers and a peer that is there reads.  Messages
\* of other connections come between this one's callbacks, but the loop serves a
\* descriptor that is ready in its turn, whatever the others do (EventLoop's Reached).
FairSpec ==
    /\ Spec
    /\ WF_vars(Callbacks)
    /\ SF_vars(on_read)
    /\ SF_vars(on_write)
    /\ WF_vars(Arrive)
    /\ WF_vars(Drain)
-----------------------------------------------------------------------------
\* The length of the body that the sender announces with the length bytes s.
Announced(s) ==
    digit(s, 1) + LenBase * (digit(s, 2) + LenBase * (digit(s, 3) + LenBase * digit(s, 4)))

\* From start r on, bytes hold a packet as its sender means it: a first byte, k
\* length bytes and, if those can be decoded, a body of that length, which ends
\* where the next packet starts.
Framed ==
    \A s \in Streams : \A r \in s.starts :
        r < Len(s.bytes) =>
            \E k \in 1..(Len(s.bytes) - r - 1) :
                /\ \A i \in 1..(k - 1) : s.bytes[r + 1 + i] >= LenBase
                /\ s.bytes[r + 1 + k] < LenBase
                /\ k <= MAX_LEN_BYTES =>
                      r + 1 + k + Announced(SubSeq(s.bytes, r + 2, r + 1 + k))
                          \in s.starts

\* The reader never loses its place by itself: whenever it waits for the next
\* packet it stands where one starts, however the bytes arrived and however long
\* the length fields were, unless a packet was returned before all of it was there
\* (recv_bytes stops at EAGAIN).
Synchronised == pc = "idle" /\ ~cut => read \in starts

\* However its bytes arrived, a packet with one length byte that was read to its end is
\* in the buffer as it was sent, where the unpack functions look for it.  (Of a
\* longer length field the body replaces the second byte.)
Legible ==
    result = "ok" /\ ~cut /\ Len(buff) = 1 =>
        \A i \in 0..(1 + tlen) : buf[i] = stream[Last(handed) + 1 + i]

\* As long as the packet fits into the buffer, by the length of its length field so far
\* and the length of the body it claims, nothing is stored past the buffer's end,
\* whatever the packet claims and however it arrives.  (A packet that does not fit is
\* refused only if its body alone is too long.)
InBuffer == 1 + Len(buff) + tlen <= MaxRequest => top <= MaxRequest

-----------------------------------------------------------------------------
\* Replies and messages of other connections, which share the socket, go out whole
\* and one after the other until the socket is full: only then does send_bytes give
\* up the rest of a payload, and the peer loses its place.
OutWhole == split /\ peer # "rst" => full

\* Every packet of a peer that stays is handed over, once and in order, unless one
\* is cut or refused or its handler returns REARM_R: on every other path the
\* descriptor is armed again, after the reply if there is one.
Delivered ==
    <>[](peer = "here" /\ ~cut /\ result \notin {"packeterr", "maxreqsize", "quiet"}
            /\ pc # "undefined"
         => handed = SetToSortSeq(starts \ {Len(stream)}, <))
=============================================================================
