--------------------------- MODULE FramingProofs ----------------------------
(***************************************************************************)
(* Proofs about module Framing, for every stream of bytes, every size of    *)
(* the buffer and of the socket, however the bytes arrive: types, the       *)
(* bounds of the buffer, where a packet is found in it, payloads that go    *)
(* out whole, and, for streams of packets, the place of the reader.         *)
(***************************************************************************)
EXTENDS Framing, SequenceTheorems, TLAPS

-----------------------------------------------------------------------------
(* The inductive invariant.                                                *)

\* Where in the stream the packet starts that is being read.
Base == read - total - Len(buff) - 1

\* The callback is between two packets.
Between == pc \in {"idle", "first", "write", "reply", "push"}

\* What the reader's variables hold at each place of the callback.
Phases ==
    /\ Between => buff = << >> /\ tlen = 0 /\ total = 0 /\ top = 0 /\ result = "none"
    /\ pc = "length" => total = 0
    /\ pc \in {"length", "body"} => result = "none"
    /\ pc = "body" => Len(buff) > 0 /\ Len(buff) <= MAX_LEN_BYTES
    /\ pc = "handle" => result = "ok" /\ Len(buff) > 0
    /\ result = "ok" => pc = "handle"
    /\ pc \notin {"reply", "push"} => sent = 0

\* The stores so far end with the length field or with the body.
Stored ==
    /\ total <= MaxRequest
    /\ pc = "body" => tlen <= MaxRequest
    /\ top <= 1 + Len(buff) \/ (Len(buff) > 0 /\ top <= 2 + total)

\* What was read of the packet is in the buffer, from Base on.
Held ==
    /\ pc \in {"length", "body", "handle"} =>
         /\ Base >= 0
         /\ buf[0] = stream[Base + 1]
         /\ \A i \in 1..Len(buff) : buff[i] = stream[Base + 1 + i]
         /\ Len(buff) > 0 => buf[1] = buff[1]
         /\ \A i \in 0..(total - 1) : buf[2 + i] = stream[Base + 2 + Len(buff) + i]
    /\ handed \in Seq(Nat)
    /\ pc = "handle" /\ ~cut => total = tlen /\ handed # << >> /\ Last(handed) = Base

\* A reader that cut no packet short knows where it is.
Placed ==
    ~cut =>
        /\ Between \/ pc = "handle" => read \in starts
        /\ pc \in {"length", "body"} => Base \in starts
        /\ pc = "length" => \A i \in 1..Len(buff) : buff[i] >= LenBase
        /\ pc = "body" =>
             /\ tlen = mqtt_decode_length(buff)
             /\ \A i \in 1..(Len(buff) - 1) : buff[i] >= LenBase
             /\ buff[Len(buff)] < LenBase

\* The stream is one of Streams.
Given == \E s \in Streams : stream = s.bytes /\ starts = s.starts

IInv == Given /\ TypeOK /\ Phases /\ Stored /\ Held

-----------------------------------------------------------------------------
(* What the helpers return.                                                *)

\* What a length byte carries is a natural number.
LEMMA DigitNat ==
    ASSUME NEW s \in Seq(Byte), NEW i \in Nat \ {0}
    PROVE  digit(s, i) \in Nat
  <1> SUFFICES ASSUME i <= Len(s) PROVE s[i] % LenBase \in Nat
    BY DEF digit
  <1>1. s[i] \in Nat
    BY LenBaseAssumption DEF Byte
  <1> QED  BY <1>1, LenBaseAssumption

\* A length field is decoded to the number that it announces.
LEMMA DecodeNat ==
    ASSUME NEW s \in Seq(Byte)
    PROVE  mqtt_decode_length(s) \in Nat /\ mqtt_decode_length(s) = Announced(s)
  <1>1. ASSUME NEW a \in Nat, NEW b \in Nat, NEW c \in Nat, NEW d \in Nat, NEW x \in Nat
        PROVE  /\ a + b * x + c * (x * x) + d * (x * x * x) \in Nat
               /\ a + b * x + c * (x * x) + d * (x * x * x) = a + x * (b + x * (c + x * d))
    <2>1. b * x \in Nat /\ x * x \in Nat /\ x * x * x \in Nat
      OBVIOUS
    <2>2. c * (x * x) \in Nat /\ d * (x * x * x) \in Nat
      BY <2>1
    <2> QED  BY <2>1, <2>2
  <1>2. digit(s, 1) \in Nat /\ digit(s, 2) \in Nat /\ digit(s, 3) \in Nat /\ digit(s, 4) \in Nat
    BY DigitNat
  <1>3. LenBase \in Nat
    BY LenBaseAssumption
  <1>4. PICK a \in Nat, b \in Nat, c \in Nat, d \in Nat, x \in Nat :
          /\ digit(s, 1) = a /\ digit(s, 2) = b /\ digit(s, 3) = c /\ digit(s, 4) = d
          /\ LenBase = x
    BY <1>2, <1>3
  <1>5. /\ mqtt_decode_length(s) = a + b * x + c * (x * x) + d * (x * x * x)
        /\ Announced(s) = a + x * (b + x * (c + x * d))
    BY <1>4, Zenon DEF mqtt_decode_length, Announced
  <1>6. /\ a + b * x + c * (x * x) + d * (x * x * x) \in Nat
        /\ a + b * x + c * (x * x) + d * (x * x * x) = a + x * (b + x * (c + x * d))
    BY <1>1
  <1> QED  BY <1>5, <1>6, Zenon

\* A buffer that on_read has just allocated.
LEMMA FreshFacts == Fresh \in [0..(MaxRequest + 1) -> Byte \cup {NULL}]
  BY DEF Fresh

-----------------------------------------------------------------------------
(* Types and phases.                                                       *)

\* The invariant holds at first.
LEMMA InitIInv == Init => IInv
  <1> SUFFICES ASSUME Init PROVE IInv
    OBVIOUS
  <1>1. PICK s \in Streams : stream = s.bytes /\ starts = s.starts
    BY DEF Init
  <1>2. Given
    BY <1>1 DEF Given
  <1>3. stream \in Seq(Byte) /\ Len(stream) \in Nat
    BY <1>1, StreamsAssumption
  <1>4. TypeOK
    <2>1. buf \in [0..(MaxRequest + 1) -> Byte \cup {NULL}]
      BY FreshFacts DEF Init
    <2>2. buff \in Seq(Byte)
      BY DEF Init
    <2>3. arrived \in 0..Len(stream) /\ read \in 0..arrived /\ total \in 0..tlen
      BY <1>3 DEF Init
    <2>4. room \in 0..Room /\ sent \in 0..size
      BY RoomAssumption DEF Init
    <2> QED  BY <1>3, <2>1, <2>2, <2>3, <2>4 DEF Init, TypeOK
  <1>5. Phases /\ Stored /\ Held
    BY MaxRequestAssumption DEF Init, Phases, Between, Stored, Held, MAX_LEN_BYTES
  <1> QED  BY <1>2, <1>4, <1>5 DEF IInv

\* Types and phases are kept by each step.
LEMMA TypeStep ==
    ASSUME TypeOK, Phases, [Next]_vars
    PROVE  TypeOK' /\ Phases'
  <1> USE DEF MAX_LEN_BYTES
  <1>1. CASE UNCHANGED vars
    BY <1>1 DEF vars, TypeOK, Phases, Between
  <1>2. CASE Arrive
    <2>1. Len(stream) \in Nat
      BY DEF TypeOK
    <2> QED  BY <1>2, <2>1 DEF Arrive, TypeOK, Phases, Between, reader, writer
  <1>3. ASSUME NEW how \in {"fin", "rst"}, Leave(how) PROVE TypeOK' /\ Phases'
    BY <1>3 DEF Leave, TypeOK, Phases, Between, reader, writer
  <1>4. CASE Drain
    BY <1>4, RoomAssumption DEF Drain, TypeOK, Phases, Between, wire, reader
  <1>5. ASSUME NEW n \in Replies, publish(n) PROVE TypeOK' /\ Phases'
    BY <1>5, RoomAssumption DEF publish, TypeOK, Phases, Between, wire, reader
  <1>6. CASE on_read
    BY <1>6 DEF on_read, TypeOK, Phases, Between, wire, reader, writer
  <1>7. CASE hangup
    BY <1>7 DEF hangup, TypeOK, Phases, Between, wire, reader, writer
  <1>8. CASE recv_nothing
    BY <1>8 DEF recv_nothing, TypeOK, Phases, Between, wire, writer
  <1>9. CASE recv_first
    <2>1. /\ stream[read + 1] \in Byte
          /\ read + 1 \in 0..arrived
      BY <1>9 DEF recv_first, Readable, TypeOK
    <2>2. buf' \in [0..(MaxRequest + 1) -> Byte \cup {NULL}]
      BY <1>9, <2>1 DEF recv_first, TypeOK
    <2> QED  BY <1>9, <2>1, <2>2 DEF recv_first, TypeOK, Phases, Between, wire, writer
  <1>10. CASE recv_length
    <2>1. /\ stream[read + 1] \in Byte
          /\ read + 1 \in 0..arrived
          /\ read' = read + 1
          /\ total = 0
      BY <1>10 DEF recv_length, Readable, TypeOK, Phases
    <2>2. /\ buff' \in Seq(Byte)
          /\ Len(buff') = Len(buff) + 1
          /\ Len(buff) \in Nat
      <3>1. buff' = Append(buff, stream[read + 1])
        BY <1>10 DEF recv_length
      <3> QED  BY <3>1, <2>1, AppendProperties DEF TypeOK
    <2>3. tlen' \in Nat
      <3>1. tlen' = 0 \/ tlen' = mqtt_decode_length(buff')
        BY <1>10 DEF recv_length
      <3>2. mqtt_decode_length(buff') \in Nat
        <4>1. \A t \in Seq(Byte) : mqtt_decode_length(t) \in Nat
          BY DecodeNat
        <4> QED  BY <2>2, <4>1
      <3> QED  BY <3>1, <3>2
    <2>4. buf' \in [0..(MaxRequest + 1) -> Byte \cup {NULL}]
      BY <1>10, <2>1 DEF recv_length, TypeOK
    <2>5. top' \in Nat
      BY <1>10, <2>2 DEF recv_length
    <2>6. \/ pc' = "length" /\ result' = result
          \/ pc' = "undefined" /\ result' = result
          \/ pc' = "deaf" /\ result' = "maxreqsize"
          \/ pc' = "body" /\ result' = result /\ Len(buff') <= MAX_LEN_BYTES
      <3>1. buff' = Append(buff, stream[read + 1])
        BY <1>10 DEF recv_length
      <3>2. Len(buff') \in Nat /\ (~(Len(buff') > 4) => Len(buff') <= 4)
        <4>1. \A k \in Nat : ~(k > 4) => k <= 4
          OBVIOUS
        <4> QED  BY <2>2, <4>1
      <3> HIDE DEF MAX_LEN_BYTES
      <3>3. MAX_LEN_BYTES = 4
        BY DEF MAX_LEN_BYTES
      <3> QED  BY <1>10, <3>1, <3>2, <3>3 DEF recv_length
    <2>7. UNCHANGED <<wire, total, cut, handed, writer>> /\ pc = "length"
      BY <1>10 DEF recv_length
    <2>8. TypeOK'
      BY <2>1, <2>2, <2>3, <2>4, <2>5, <2>6, <2>7 DEF TypeOK, wire, writer
    <2> QED  BY <2>1, <2>2, <2>6, <2>7, <2>8 DEF Phases, Between, wire, writer
  <1>11. CASE recv_body
    <2> DEFINE n == IF missing < arrived - read THEN missing ELSE arrived - read
               from == body_at + total
    <2>1. /\ n \in Nat /\ total + n <= tlen /\ read + n <= arrived
          /\ arrived \in Nat /\ arrived <= Len(stream) /\ Len(stream) \in Nat
          /\ read \in Nat /\ total \in Nat
      BY <1>11 DEF recv_body, missing, TypeOK
    <2>2. /\ read' = read + n
          /\ total' = total + n
          /\ top' \in Nat
      BY <1>11, <2>1 DEF recv_body, body_at, TypeOK
    <2>3. ASSUME NEW i \in from..(from + n - 1)
          PROVE  stream[read + 1 + i - from] \in Byte
      <3>1. read + 1 + i - from \in 1..Len(stream)
        BY <2>1, <2>3 DEF body_at
      <3> QED  BY <3>1 DEF TypeOK
    <2>4. buf' \in [0..(MaxRequest + 1) -> Byte \cup {NULL}]
      <3>1. buf' = [i \in DOMAIN buf |->
                     IF i \in from..(from + n - 1) THEN stream[read + 1 + i - from]
                     ELSE buf[i]]
        BY <1>11 DEF recv_body
      <3> QED  BY <2>3, <3>1 DEF TypeOK
    <2>5. read' \in 0..arrived /\ total' \in 0..tlen
      BY <2>1, <2>2
    <2>6. pc = "body" /\ UNCHANGED <<wire, pc, buff, tlen, result, cut, handed, writer>>
      BY <1>11 DEF recv_body
    <2>7. TypeOK'
      BY <2>2, <2>4, <2>5, <2>6 DEF TypeOK, wire, writer
    <2> QED  BY <2>6, <2>7 DEF Phases, Between, writer
  <1>12. CASE recv_done
    BY <1>12 DEF recv_done, TypeOK, Phases, Between, wire, writer
  <1>13. CASE recv_err
    BY <1>13 DEF recv_err, TypeOK, Phases, Between, wire, writer
  <1>14. ASSUME NEW n \in Replies, handle(n) PROVE TypeOK' /\ Phases'
    BY <1>14, FreshFacts, RoomAssumption DEF handle, TypeOK, Phases, Between, wire
  <1>19. CASE dispatch_null
    BY <1>19 DEF dispatch_null, TypeOK, Phases, Between, wire, reader, writer
  <1>15. CASE handle_quiet
    BY <1>15 DEF handle_quiet, TypeOK, Phases, Between, wire, writer
  <1>16. CASE on_write
    BY <1>16 DEF on_write, TypeOK, Phases, Between, wire, reader
  <1>17. CASE send_some
    <2> DEFINE n == IF size - sent < room THEN size - sent ELSE room
    <2>1. n \in Nat /\ sent + n <= size /\ n <= room /\ room \in Nat /\ sent \in Nat /\ size \in Nat
      BY <1>17 DEF send_some, TypeOK
    <2>2. sent' = sent + n /\ room' = room - n
      BY <1>17 DEF send_some
    <2>3. sent' \in 0..size /\ room' \in 0..Room
      BY <2>1, <2>2, RoomAssumption DEF TypeOK
    <2> QED  BY <1>17, <2>3 DEF send_some, TypeOK, Phases, Between, wire, reader
  <1>18. CASE send_all \/ send_full \/ send_err
    <2>1. sent_bytes /\ pc \in {"reply", "push"}
      BY <1>18 DEF send_all, send_full, send_err
    <2>2. UNCHANGED <<wire, reader, room>> /\ full' \in BOOLEAN
      BY <1>18 DEF send_all, send_full, send_err, TypeOK
    <2>3. /\ payload' \in Nat
          /\ pc' \in {"idle", "write"}
          /\ split' \in BOOLEAN
          /\ size' = 0 /\ sent' = 0
      BY <2>1 DEF sent_bytes, TypeOK
    <2> QED  BY <2>1, <2>2, <2>3 DEF TypeOK, Phases, Between, wire, reader
  <1> QED
    BY <1>1, <1>2, <1>3, <1>4, <1>5, <1>6, <1>7, <1>8, <1>9, <1>10, <1>11, <1>12,
       <1>13, <1>14, <1>15, <1>16, <1>17, <1>18, <1>19 DEF Next, Callbacks

-----------------------------------------------------------------------------
(* The bounds of the stores.                                               *)

\* A step that is none of the reader's leaves its variables alone, and its place in
\* the packet unless the callback ends.
Aside ==
    /\ UNCHANGED <<stream, starts, read, buf, top, buff, tlen, total, handed>>
    /\ ~cut' => ~cut
    /\ \/ UNCHANGED pc
       \/ Between /\ Between'
       \/ pc' \in {"deaf", "closed", "undefined"}

\* Every step but the five that read bytes or end a packet is one aside.
LEMMA AsideSteps ==
    ASSUME TypeOK, Phases, [Next]_vars,
           ~recv_first, ~recv_length, ~recv_body, ~recv_done,
           ~(\E n \in Replies : handle(n))
    PROVE  Aside
  <1> USE DEF Aside, Between, wire, reader, writer
  <1>1. CASE UNCHANGED vars
    BY <1>1 DEF vars
  <1>2. CASE Arrive \/ Drain
    BY <1>2 DEF Arrive, Drain
  <1>3. CASE \E how \in {"fin", "rst"} : Leave(how)
    BY <1>3 DEF Leave
  <1>4. CASE \E n \in Replies : publish(n)
    BY <1>4 DEF publish
  <1>5. CASE on_read \/ hangup
    BY <1>5 DEF on_read, hangup
  <1>6. CASE recv_nothing
    <2>1. ~cut' => ~cut
      BY <1>6, Zenon DEF recv_nothing
    <2> QED  BY <1>6, <2>1 DEF recv_nothing
  <1>7. CASE recv_err \/ handle_quiet \/ dispatch_null
    BY <1>7 DEF recv_err, handle_quiet, dispatch_null
  <1>8. CASE on_write \/ send_some
    BY <1>8 DEF on_write, send_some
  <1>9. CASE send_all \/ send_full \/ send_err
    BY <1>9 DEF send_all, send_full, send_err, sent_bytes
  <1> QED
    BY <1>1, <1>2, <1>3, <1>4, <1>5, <1>6, <1>7, <1>8, <1>9 DEF Next, Callbacks

\* The bounds of the stores are kept by each step.
LEMMA StoredStep ==
    ASSUME TypeOK, Phases, Stored, [Next]_vars
    PROVE  Stored'
  <1> USE DEF MAX_LEN_BYTES
  <1>1. CASE Aside
    BY <1>1 DEF Aside, Stored, Between
  <1>2. CASE recv_first
    BY <1>2 DEF recv_first, Stored, Phases, Between
  <1>3. CASE recv_length
    <2>1. /\ Len(buff) \in Nat /\ Len(buff') = Len(buff) + 1
          /\ top' = 2 + Len(buff)
      <3>1. stream[read + 1] \in Byte
        BY <1>3 DEF recv_length, Readable, TypeOK
      <3> QED  BY <1>3, <3>1, AppendProperties DEF recv_length, TypeOK
    <2>2. pc' = "body" => ~too_large(tlen')
      BY <1>3 DEF recv_length
    <2>3. total' = total
      BY <1>3 DEF recv_length
    <2>4. tlen' \in Nat
      BY TypeStep DEF TypeOK
    <2> QED
      BY <2>1, <2>2, <2>3, <2>4, MaxRequestAssumption DEF Stored, too_large
  <1>4. CASE recv_body
    <2> DEFINE n == IF missing < arrived - read THEN missing ELSE arrived - read
    <2>1. /\ n \in Nat /\ total + n <= tlen
          /\ total \in Nat /\ tlen \in Nat /\ top \in Nat
      BY <1>4 DEF recv_body, missing, TypeOK
    <2>2. /\ total' = total + n
          /\ top' = IF 2 + total + n > top THEN 2 + total + n ELSE top
          /\ tlen' = tlen /\ buff' = buff /\ pc = "body" /\ pc' = "body"
      BY <1>4 DEF recv_body, body_at
    <2>3. Len(buff) \in Nat /\ Len(buff) > 0
      BY <2>2 DEF TypeOK, Phases
    <2> HIDE DEF n
    <2> QED  BY <2>1, <2>2, <2>3, MaxRequestAssumption DEF Stored
  <1>5. CASE recv_done
    BY <1>5 DEF recv_done, Stored
  <1>6. CASE \E n \in Replies : handle(n)
    BY <1>6, MaxRequestAssumption DEF handle, Stored
  <1> QED
    BY <1>1, <1>2, <1>3, <1>4, <1>5, <1>6, AsideSteps

-----------------------------------------------------------------------------
(* Where a packet is found in the buffer.                                  *)

\* What was read of a packet is in the buffer after each step.
LEMMA HeldStep ==
    ASSUME TypeOK, Phases, Stored, Held, [Next]_vars
    PROVE  Held'
  <1> USE DEF MAX_LEN_BYTES
  <1>0. /\ read \in Nat /\ total \in Nat /\ Len(buff) \in Nat /\ tlen \in Nat
        /\ buff \in Seq(Byte) /\ Base \in Int
    BY DEF TypeOK, Base
  <1>1. CASE Aside
    <2>1. Base' = Base /\ Len(buff)' = Len(buff)
      BY <1>1 DEF Aside, Base
    <2>2. pc' \in {"length", "body", "handle"} => pc' = pc
      BY <1>1 DEF Aside, Between
    <2> QED  BY <1>1, <2>1, <2>2 DEF Aside, Held
  <1>2. CASE recv_first
    <2>1. buff = << >> /\ total = 0
      BY <1>2 DEF recv_first, Phases, Between
    <2>2. /\ buff' = << >> /\ total' = 0 /\ stream' = stream /\ read' = read + 1
          /\ pc' \notin {"body", "handle"} /\ handed' = handed
      BY <1>2, <2>1 DEF recv_first, wire
    <2>3. Base' = read
      BY <1>0, <2>2 DEF Base
    <2>4. buf'[0] = stream[read + 1]
      BY <1>2, MaxRequestAssumption DEF recv_first, TypeOK
    <2> QED  BY <1>0, <2>2, <2>3, <2>4 DEF Held
  <1>3. CASE recv_length
    <2> DEFINE b == stream[read + 1]
    <2>0. pc = "length" /\ total = 0 /\ total' = 0 /\ read' = read + 1
          /\ stream' = stream /\ handed' = handed
      BY <1>3 DEF recv_length, Phases, wire
    <2>1. /\ buf' = [i \in 0..(MaxRequest + 1) |-> IF i = 1 + Len(buff) THEN b ELSE buf[i]]
          /\ buff' = Append(buff, b)
          /\ pc' # "handle"
      BY <1>3 DEF recv_length, TypeOK
    <2>2. b \in Byte
      BY <1>3 DEF recv_length, Readable, TypeOK
    <2>3. /\ Len(buff') = Len(buff) + 1
          /\ \A i \in 1..Len(buff) : buff'[i] = buff[i]
          /\ buff'[Len(buff) + 1] = b
      BY <1>0, <2>1, <2>2, AppendProperties
    <2>4. Base' = Base
      BY <1>0, <2>0, <2>3 DEF Base
    <2>5. Base + 2 + Len(buff) = read + 1
      BY <1>0, <2>0 DEF Base
    <2>6. \A i \in 1..Len(buff') : buff'[i] = stream[Base + 1 + i]
      <3> SUFFICES ASSUME NEW i \in 1..Len(buff') PROVE buff'[i] = stream[Base + 1 + i]
        OBVIOUS
      <3>1. CASE i = Len(buff) + 1
        <4>1. Base + 1 + i = read + 1
          BY <1>0, <2>5, <3>1
        <4> QED  BY <2>3, <3>1, <4>1
      <3>2. CASE i # Len(buff) + 1
        <4>1. i \in 1..Len(buff)
          BY <1>0, <2>3, <3>2
        <4> QED  BY <2>0, <2>3, <4>1 DEF Held
      <3> QED  BY <3>1, <3>2
    <2>7. buf'[0] = buf[0]
      BY <1>0, <2>1, MaxRequestAssumption DEF TypeOK
    <2>8. buf'[1] = buff'[1]
      <3>1. CASE Len(buff) = 0
        BY <2>1, <2>3, <3>1, MaxRequestAssumption DEF TypeOK
      <3>2. CASE Len(buff) # 0
        <4>1. Len(buff) > 0 /\ 1 \in 1..Len(buff)
          BY <1>0, <3>2
        <4>2. buf'[1] = buf[1]
          BY <1>0, <2>1, <3>2, MaxRequestAssumption DEF TypeOK
        <4>3. buf[1] = buff[1]
          BY <2>0, <4>1 DEF Held
        <4> QED  BY <2>3, <4>1, <4>2, <4>3
      <3> QED  BY <3>1, <3>2
    <2> QED
      BY <2>0, <2>1, <2>4, <2>6, <2>7, <2>8 DEF Held
  <1>4. CASE recv_body
    <2> DEFINE n == IF missing < arrived - read THEN missing ELSE arrived - read
               from == 2 + total
    <2>1. /\ n \in Nat /\ total + n <= tlen /\ tlen <= MaxRequest /\ MaxRequest \in Nat
          /\ pc = "body"
      BY <1>4, MaxRequestAssumption DEF recv_body, missing, TypeOK, Stored
    <2>2. /\ buf' = [i \in 0..(MaxRequest + 1) |->
                       IF i \in from..(from + n - 1) THEN stream[read + 1 + i - from]
                       ELSE buf[i]]
          /\ read' = read + n /\ total' = total + n
          /\ pc' = "body" /\ stream' = stream /\ buff' = buff /\ handed' = handed
      BY <1>4 DEF recv_body, body_at, wire, TypeOK
    <2> HIDE DEF n
    <2>3. Base' = Base /\ Base + 2 + Len(buff) + total = read + 1
      BY <1>0, <2>1, <2>2 DEF Base
    <2>4. buf'[0] = buf[0] /\ buf'[1] = buf[1]
      BY <1>0, <2>1, <2>2
    <2>5. \A i \in 0..(total' - 1) : buf'[2 + i] = stream[Base + 2 + Len(buff) + i]
      <3> SUFFICES ASSUME NEW i \in 0..(total' - 1)
                   PROVE  buf'[2 + i] = stream[Base + 2 + Len(buff) + i]
        OBVIOUS
      <3>1. 2 + i \in 0..(MaxRequest + 1)
        BY <1>0, <2>1, <2>2
      <3>2. CASE i < total
        <4>1. i \in 0..(total - 1) /\ 2 + i \notin from..(from + n - 1)
          BY <1>0, <2>1, <3>2
        <4>2. buf'[2 + i] = buf[2 + i]
          BY <2>2, <3>1, <4>1
        <4> QED  BY <2>1, <4>1, <4>2 DEF Held
      <3>3. CASE i >= total
        <4>1. 2 + i \in from..(from + n - 1)
          BY <1>0, <2>1, <2>2, <3>3
        <4>2. buf'[2 + i] = stream[read + 1 + (2 + i) - from]
          BY <2>2, <3>1, <4>1
        <4>3. read + 1 + (2 + i) - from = Base + 2 + Len(buff) + i
          BY <1>0, <2>3
        <4> QED  BY <4>2, <4>3
      <3> QED  BY <1>0, <3>2, <3>3
    <2> QED  BY <2>1, <2>2, <2>3, <2>4, <2>5 DEF Held
  <1>5. CASE recv_done
    <2>1. /\ UNCHANGED <<stream, read, buf, buff, tlen, total>>
          /\ pc = "body" /\ pc' = "handle"
      BY <1>5 DEF recv_done, wire
    <2>2. Base' = Base /\ Base \in Nat
      BY <1>0, <2>1 DEF Base, Held
    <2>3. handed' \in Seq(Nat) /\ (~cut' => total = tlen /\ handed' = Append(handed, Base))
      <3>1. CASE cut'
        BY <1>5, <3>1 DEF recv_done
      <3>2. CASE ~cut'
        <4>1. handed' = Append(handed, Base)
          BY <1>5, <3>2 DEF recv_done, Base
        <4>2. ~(total < tlen)
          BY <1>5, <3>2, Zenon DEF recv_done
        <4>3. total = tlen
          BY <4>2 DEF TypeOK
        <4> QED  BY <4>1, <4>3, <2>2, AppendProperties DEF Held
      <3> QED  BY <3>1, <3>2
    <2>4. ~cut' => handed' # << >> /\ Last(handed') = Base
      BY <2>2, <2>3, AppendProperties DEF Held, Last
    <2> QED  BY <2>1, <2>2, <2>3, <2>4 DEF Held
  <1>6. CASE \E n \in Replies : handle(n)
    BY <1>6 DEF handle, Held
  <1> QED
    BY <1>1, <1>2, <1>3, <1>4, <1>5, <1>6, AsideSteps

\* The stream does not change.
LEMMA GivenStep == Given /\ [Next]_vars => Given'
  <1> SUFFICES ASSUME Given, [Next]_vars PROVE UNCHANGED <<stream, starts>>
    BY DEF Given
  <1> QED
    BY DEF vars, Next, Callbacks, Arrive, Leave, Drain, publish, on_read, hangup, recv_nothing,
       recv_first, recv_length, recv_body, recv_done, recv_err, handle, handle_quiet, dispatch_null,
       on_write, send_some, send_all, send_full, send_err, wire

\* The inductive invariant holds throughout.
LEMMA Inductive == Spec => []IInv
  <1>1. IInv /\ [Next]_vars => IInv'
    BY GivenStep, TypeStep, StoredStep, HeldStep DEF IInv
  <1> QED  BY <1>1, InitIInv, PTL DEF Spec

\* Every value of the connection keeps its type, and no more of a body is read than was
\* announced.
THEOREM TypeCorrect == Spec => []TypeOK
  BY Inductive, PTL DEF IInv

\* A packet that fits into recv_packet's buffer stays in it, whatever its length field
\* claims, however long that is and however the bytes arrive.
THEOREM BufferKept == Spec => []InBuffer
  <1>1. IInv => InBuffer
    <2> SUFFICES ASSUME IInv PROVE InBuffer
      OBVIOUS
    <2>1. /\ total <= tlen /\ total \in Nat /\ tlen \in Nat /\ top \in Nat
          /\ Len(buff) \in Nat
      BY DEF IInv, TypeOK
    <2> QED  BY <2>1, MaxRequestAssumption DEF IInv, Stored, InBuffer
  <1> QED  BY <1>1, Inductive, PTL

\* A packet with one length byte that was read to its end stands in the buffer as it
\* was sent, however its bytes arrived.
THEOREM PacketsLegible == Spec => []Legible
  <1>1. IInv => Legible
    <2> SUFFICES ASSUME IInv, result = "ok", ~cut, Len(buff) = 1,
                        NEW i \in 0..(1 + tlen)
                 PROVE  buf[i] = stream[Last(handed) + 1 + i]
      BY DEF Legible
    <2>1. pc = "handle"
      BY DEF IInv, Phases
    <2>2. /\ Last(handed) = Base /\ total = tlen
          /\ buf[0] = stream[Base + 1]
          /\ \A j \in 1..Len(buff) : buff[j] = stream[Base + 1 + j]
          /\ buf[1] = buff[1]
          /\ \A j \in 0..(total - 1) : buf[2 + j] = stream[Base + 2 + Len(buff) + j]
      BY <2>1 DEF IInv, Held
    <2>3. Base \in Int /\ tlen \in Nat
      BY DEF IInv, TypeOK, Base
    <2>4. CASE i = 0
      <3>1. Base + 1 + i = Base + 1
        BY <2>3, <2>4
      <3> QED  BY <2>2, <2>4, <3>1
    <2>5. CASE i = 1
      BY <2>2, <2>5
    <2>6. CASE i > 1
      <3>1. i - 2 \in 0..(total - 1) /\ 2 + (i - 2) = i
            /\ Base + 2 + Len(buff) + (i - 2) = Base + 1 + i
        BY <2>2, <2>3, <2>6
      <3>2. buf[2 + (i - 2)] = stream[Base + 2 + Len(buff) + (i - 2)]
        BY <2>2, <3>1
      <3> QED  BY <2>2, <3>1, <3>2
    <2> QED  BY <2>3, <2>4, <2>5, <2>6
  <1> QED  BY <1>1, Inductive, PTL

-----------------------------------------------------------------------------
(* Payloads go out whole.                                                  *)

\* send_bytes gives up the rest of a payload for a peer that is still there only
\* when the socket is full.
THEOREM PayloadsWhole == Spec => []OutWhole
  <1>1. Init => OutWhole
    BY DEF Init, OutWhole
  <1>2. TypeOK /\ OutWhole /\ [Next]_vars => OutWhole'
    <2> SUFFICES ASSUME TypeOK, OutWhole, [Next]_vars PROVE OutWhole'
      OBVIOUS
    <2> USE DEF OutWhole, writer, wire
    <2>1. CASE send_all
      <3>1. split' = (split \/ sent < size) /\ ~(sent < size) /\ UNCHANGED <<peer, full>>
        BY <2>1 DEF send_all, sent_bytes, unsent
      <3> QED  BY <3>1, Zenon
    <2>2. CASE send_full \/ send_err
      BY <2>2 DEF send_full, send_err
    <2>3. CASE UNCHANGED vars
      BY <2>3 DEF vars
    <2>4. CASE Arrive \/ Drain \/ \E how \in {"fin", "rst"} : Leave(how)
      BY <2>4 DEF Arrive, Drain, Leave
    <2>5. CASE on_write \/ send_some \/ \E n \in Replies : publish(n)
      BY <2>5 DEF on_write, send_some, publish
    <2>6. CASE \/ on_read \/ hangup \/ recv_nothing \/ recv_first \/ recv_length
               \/ recv_body \/ recv_done \/ recv_err \/ handle_quiet \/ dispatch_null
               \/ \E n \in Replies : handle(n)
      <3>1. UNCHANGED <<peer, full, split>>
        BY <2>6 DEF on_read, hangup, recv_nothing, recv_first, recv_length, recv_body,
           recv_done, recv_err, handle_quiet, dispatch_null, handle, reader
      <3> QED  BY <3>1
    <2> QED  BY <2>1, <2>2, <2>3, <2>4, <2>5, <2>6 DEF Next, Callbacks
  <1> QED  BY <1>1, <1>2, TypeCorrect, PTL DEF Spec

-----------------------------------------------------------------------------
(* The reader keeps its place.                                             *)

\* In a stream of packets, the length field that was read is the one the sender
\* wrote, and the packet that was read to its end ends where the next one starts.
LEMMA EndsAtStart ==
    ASSUME Framed, IInv, Placed, ~cut, pc = "body", total = tlen
    PROVE  read \in starts
  <1> DEFINE k == Len(buff)
  <1>1. /\ k \in Nat /\ k > 0 /\ k <= MAX_LEN_BYTES /\ buff \in Seq(Byte)
        /\ tlen \in Nat /\ read \in Nat /\ read <= Len(stream)
        /\ stream \in Seq(Byte) /\ Len(stream) \in Nat
    BY DEF IInv, TypeOK, Phases
  <1>2. /\ Base \in starts /\ Base \in Nat
        /\ tlen = mqtt_decode_length(buff)
        /\ \A i \in 1..(k - 1) : buff[i] >= LenBase
        /\ buff[k] < LenBase
        /\ \A i \in 1..k : buff[i] = stream[Base + 1 + i]
    BY <1>1 DEF Placed, IInv, Held, Base
  <1>3. read = Base + 1 + k + tlen
    BY <1>1 DEF Base
  <1>4. PICK j \in 1..(Len(stream) - Base - 1) :
            /\ \A i \in 1..(j - 1) : stream[Base + 1 + i] >= LenBase
            /\ stream[Base + 1 + j] < LenBase
            /\ j <= MAX_LEN_BYTES =>
                 Base + 1 + j + Announced(SubSeq(stream, Base + 2, Base + 1 + j)) \in starts
    <2>1. Base < Len(stream)
      BY <1>1, <1>2, <1>3
    <2>2. PICK s \in Streams : stream = s.bytes /\ starts = s.starts
      BY DEF IInv, Given
    <2> QED  BY <1>2, <2>1, <2>2 DEF Framed
  <1>5. j = k
    <2>0. \A i \in 1..Len(stream) : stream[i] \in Int
      BY <1>1, LenBaseAssumption DEF Byte
    <2>1. ~(j < k)
      <3> SUFFICES ASSUME j < k PROVE FALSE
        OBVIOUS
      <3>1. j \in 1..(k - 1) /\ j \in 1..k /\ Base + 1 + j \in 1..Len(stream)
        BY <1>1, <1>2
      <3>2. stream[Base + 1 + j] >= LenBase
        BY <1>2, <3>1
      <3> QED  BY <1>4, <2>0, <3>1, <3>2, LenBaseAssumption
    <2>2. ~(k < j)
      <3> SUFFICES ASSUME k < j PROVE FALSE
        OBVIOUS
      <3>1. k \in 1..(j - 1) /\ k \in 1..k /\ Base + 1 + k \in 1..Len(stream)
        BY <1>1, <1>2
      <3>2. stream[Base + 1 + k] >= LenBase /\ stream[Base + 1 + k] < LenBase
        BY <1>2, <1>4, <3>1
      <3> QED  BY <2>0, <3>1, <3>2, LenBaseAssumption
    <2> QED  BY <1>1, <2>1, <2>2
  <1>6. SubSeq(stream, Base + 2, Base + 1 + k) = buff
    <2> DEFINE f == SubSeq(stream, Base + 2, Base + 1 + k)
    <2>1. /\ Base + 2 \in Int /\ Base + 1 + k \in Int /\ Base + 2 <= Base + 1 + k
          /\ \A i \in (Base + 2)..(Base + 1 + k) : stream[i] \in Byte
      <3>1. \A i \in (Base + 2)..(Base + 1 + k) : i \in 1..Len(stream)
        BY <1>1, <1>2, <1>3
      <3> QED  BY <1>1, <1>2, <3>1
    <2>2. /\ f \in Seq(Byte)
          /\ Len(f) = (Base + 1 + k) - (Base + 2) + 1
          /\ \A i \in 1..((Base + 1 + k) - (Base + 2) + 1) : f[i] = stream[Base + 2 + i - 1]
      <3> HIDE DEF k
      <3> QED  BY <2>1, SubSeqProperties
    <2>3. (Base + 1 + k) - (Base + 2) + 1 = k
      BY <1>1, <1>2
    <2>4. \A i \in 1..k : f[i] = buff[i]
      <3> SUFFICES ASSUME NEW i \in 1..k PROVE f[i] = buff[i]
        OBVIOUS
      <3>1. Base + 2 + i - 1 = Base + 1 + i
        BY <1>2
      <3> QED  BY <1>2, <2>2, <2>3, <3>1
    <2> HIDE DEF f
    <2> QED  BY <1>1, <2>2, <2>3, <2>4, SeqEqual DEF f
  <1>7. tlen = Announced(buff)
    BY <1>1, <1>2, DecodeNat
  <1> QED  BY <1>1, <1>2, <1>3, <1>4, <1>5, <1>6, <1>7

\* A reader that cut no packet short keeps its place with each step.
LEMMA PlacedStep ==
    ASSUME Framed, IInv, Placed, [Next]_vars
    PROVE  Placed'
  <1>0. /\ read \in Nat /\ total \in Nat /\ Len(buff) \in Nat
        /\ buff \in Seq(Byte) /\ Base \in Int /\ TypeOK /\ Phases
    BY DEF IInv, TypeOK, Base
  <1>1. CASE Aside
    <2>1. Base' = Base /\ Len(buff)' = Len(buff)
      BY <1>1 DEF Aside, Base
    <2> QED  BY <1>1, <2>1 DEF Aside, Placed, Between
  <1>2. CASE recv_first
    <2>1. buff = << >> /\ total = 0
      BY <1>0, <1>2 DEF recv_first, Phases, Between
    <2>2. /\ buff' = << >> /\ total' = 0 /\ read' = read + 1 /\ cut' = cut /\ starts' = starts
          /\ pc = "first" /\ pc' \in {"length", "closed"}
      BY <1>2, <2>1 DEF recv_first, wire
    <2>3. Base' = read
      BY <1>0, <2>2 DEF Base
    <2> QED  BY <2>2, <2>3 DEF Placed, Between
  <1>3. CASE recv_length
    <2> DEFINE b == stream[read + 1]
    <2>0. pc = "length" /\ total = 0 /\ total' = 0 /\ read' = read + 1
          /\ starts' = starts /\ cut' = cut
      BY <1>0, <1>3 DEF recv_length, Phases, wire
    <2>2. b \in Byte
      BY <1>0, <1>3 DEF recv_length, Readable, TypeOK
    <2>5. b \in Int /\ LenBase \in Int
      BY <2>2, LenBaseAssumption DEF Byte
    <2>1. /\ buff' = Append(buff, b)
          /\ pc' \in {"length", "body", "deaf", "undefined"}
          /\ pc' = "length" => b >= LenBase
          /\ pc' = "body" => b < LenBase /\ tlen' = mqtt_decode_length(buff')
      BY <1>3, <2>5 DEF recv_length
    <2>3. /\ Len(buff') = Len(buff) + 1
          /\ \A i \in 1..Len(buff) : buff'[i] = buff[i]
          /\ buff'[Len(buff) + 1] = b
      BY <1>0, <2>1, <2>2, AppendProperties
    <2>4. Base' = Base
      BY <1>0, <2>0, <2>3 DEF Base
    <2>6. ASSUME ~cut PROVE \A i \in 1..Len(buff) : buff'[i] >= LenBase
      BY <2>0, <2>3, <2>6 DEF Placed
    <2>7. ASSUME ~cut, pc' = "length" PROVE \A i \in 1..Len(buff)' : buff'[i] >= LenBase
      <3> SUFFICES ASSUME NEW i \in 1..Len(buff') PROVE buff'[i] >= LenBase
        OBVIOUS
      <3>1. i = Len(buff) + 1 \/ i \in 1..Len(buff)
        BY <1>0, <2>3
      <3> QED  BY <2>1, <2>3, <2>6, <2>7, <3>1
    <2>8. ASSUME ~cut, pc' = "body"
          PROVE  /\ tlen' = mqtt_decode_length(buff')
                 /\ \A i \in 1..(Len(buff)' - 1) : buff'[i] >= LenBase
                 /\ buff'[Len(buff)'] < LenBase
      <3>1. Len(buff)' - 1 = Len(buff)
        BY <1>0, <2>3
      <3> QED  BY <2>1, <2>3, <2>5, <2>6, <2>8, <3>1
    <2> QED
      BY <2>0, <2>1, <2>4, <2>7, <2>8 DEF Placed, Between, mqtt_decode_length, digit
  <1>4. CASE recv_body
    <2> DEFINE n == IF missing < arrived - read THEN missing ELSE arrived - read
    <2>1. /\ n \in Int /\ pc = "body" /\ pc' = "body"
          /\ read' = read + n /\ total' = total + n
          /\ UNCHANGED <<buff, tlen, starts, cut>>
      BY <1>0, <1>4 DEF recv_body, missing, wire, TypeOK
    <2> HIDE DEF n
    <2>2. Base' = Base
      BY <1>0, <2>1 DEF Base
    <2> QED  BY <2>1, <2>2 DEF Placed, Between
  <1>5. CASE recv_done
    <2>1. /\ UNCHANGED <<starts, read>>
          /\ pc = "body" /\ pc' = "handle"
      BY <1>5 DEF recv_done, wire
    <2>2. ASSUME ~cut' PROVE read \in starts
      <3>1. ~cut /\ ~(total < tlen)
        BY <1>5, <2>2, Zenon DEF recv_done
      <3>2. total = tlen
        BY <1>0, <3>1 DEF TypeOK
      <3> QED  BY <2>1, <3>1, <3>2, EndsAtStart
    <2> QED  BY <2>1, <2>2 DEF Placed, Between
  <1>6. CASE \E n \in Replies : handle(n)
    BY <1>6 DEF handle, Placed, Between, wire
  <1> QED
    BY <1>0, <1>1, <1>2, <1>3, <1>4, <1>5, <1>6, AsideSteps

\* When the peer sends packets, a reader that cut none short stands where one
\* starts whenever it waits for the next, however the bytes arrived and however
\* long the length fields are.
THEOREM ReaderSynchronised == Framed => (Spec => []Synchronised)
  <1> SUFFICES ASSUME Framed PROVE Spec => []Synchronised
    OBVIOUS
  <1>1. Init => Placed
    <2> SUFFICES ASSUME Init PROVE Placed
      OBVIOUS
    <2>1. 0 \in starts
      BY StreamsAssumption DEF Init
    <2> QED  BY <2>1 DEF Init, Placed, Between
  <1>2. IInv /\ Placed /\ [Next]_vars => Placed'
    BY PlacedStep
  <1>3. Placed => Synchronised
    BY DEF Placed, Synchronised, Between
  <1> QED  BY <1>1, <1>2, <1>3, Inductive, PTL DEF Spec
=============================================================================
