--------------------------- MODULE RequestsProofs ---------------------------
(***************************************************************************)
(* The PUBLISH codec is right for every topic and payload length that an    *)
(* unsigned short can hold, not only for those TLC tries.                   *)
(*                                                                          *)
(* Its invariant says what the loops have done: byte i of the length field  *)
(* holds the i-th group of seven bits of the length L; while encoding, rest *)
(* is what the bytes so far leave of L; while decoding, value is L modulo   *)
(* the weight of the next byte.  L is less than 2^21, so three bytes are    *)
(* always enough and the weights are four known numbers.                    *)
(*                                                                          *)
(* What Requests says of a packet holds for filters of any number and       *)
(* length that a packet can hold, and for every size of size_t.             *)
(*                                                                          *)
(* The invariant has a part for each property.  Given and Reading: as long  *)
(* as the length field has one byte, the filters read are the first ones    *)
(* sent, and remaining_bytes is the bytes of the others, for a SUBSCRIBE    *)
(* plus one for each filter read.  Blocks: which strings    *)
(* subscribe_handler has freed when it is at a round.  Memory: what each    *)
(* step of a packet that is released leaves allocated.  Answer: how far the *)
(* loop of mqtt_encode_length is with the length of a reply.  Coded: the    *)
(* invariant of the PUBLISH codec, until a reply takes its variables.       *)
(***************************************************************************)
EXTENDS Requests, Induction, SequenceTheorems

-----------------------------------------------------------------------------
(* The codec.                                                               *)

\* The weight of byte i.
Weight(i) ==
    IF i = 1 THEN 1 ELSE IF i = 2 THEN 128 ELSE IF i = 3 THEN 16384 ELSE 2097152

L == Remaining(pkt)

\* A length that three bytes can encode.
Short(l) == l \in Nat /\ l < 2097152

\* All of the bytes that encode L are there.
Complete ==
    /\ Len(bytes) \in 1..3
    /\ L \div Weight(Len(bytes) + 1) = 0
    /\ Len(bytes) > 1 => L \div Weight(Len(bytes)) > 0

Sized == size = pktlen(pkt) + remaininglen_offset(pktlen(pkt))

Fresh == pos = 0 /\ value = 0 /\ multiplier = 1

CInv ==
    /\ pkt \in Packets
    /\ bytes \in Seq(0..255)
    /\ \A i \in 1..Len(bytes) : bytes[i] = digit(L \div Weight(i))
    /\ \/ /\ pc = "pack"
          /\ bytes = << >>
          /\ Fresh
       \/ /\ pc = "encode"
          /\ Sized
          /\ Fresh
          /\ written = 1
          /\ Len(bytes) \in 0..2
          /\ rest = L \div Weight(Len(bytes) + 1)
          /\ Len(bytes) > 0 => rest > 0
       \/ /\ pc = "body"
          /\ Sized
          /\ Fresh
          /\ written = 1
          /\ Complete
       \/ /\ pc = "decode"
          /\ written = size
          /\ Complete
          /\ pos \in 0..(Len(bytes) - 1)
          /\ multiplier = Weight(pos + 1)
          /\ value = L % Weight(pos + 1)
       \/ /\ pc = "unpack"
          /\ written = size
          /\ multiplier \in Nat /\ multiplier <= 2097152
          /\ value = L
       \/ /\ pc = "done"
          /\ written = size
          /\ multiplier \in Nat /\ multiplier <= 2097152
          /\ value = L
          /\ got = pkt

\* What the types say of a packet's length.
LEMMA LengthBounds ==
    ASSUME pkt \in Packets
    PROVE  /\ pkt.topiclen \in Nat /\ pkt.topiclen < 65536
           /\ pkt.payloadlen \in Nat /\ pkt.payloadlen < 65536
           /\ IdLen(pkt) \in {0, 2}
           /\ L = 2 + pkt.topiclen + pkt.payloadlen + IdLen(pkt)
           /\ Short(L)
           /\ pktlen(pkt) = L + 2
<1>0. pkt.topiclen \in TopicLens /\ pkt.payloadlen \in PayloadLens /\ pkt.qos \in Qos
  BY SMT DEF Packets
<1>1. /\ pkt.topiclen \in Nat /\ pkt.topiclen < 65536
      /\ pkt.payloadlen \in Nat /\ pkt.payloadlen < 65536
      /\ pkt.qos \in 0..3
  <2>1. \A n \in TopicLens \cup PayloadLens : n \in Nat /\ n < 65536
    BY LensAssumption, SMT DEF U16
  <2>2. pkt.qos \in 0..3
    BY <1>0, QosAssumption
  <2> QED
    BY <1>0, <2>1, <2>2, SMT
<1>2. IdLen(pkt) \in {0, 2}
  BY SMT DEF IdLen
<1> QED
  BY <1>1, <1>2, SMT DEF L, Remaining, pktlen, MQTT_HEADER_LEN, Short

\* A digit is a byte, and says whether more follow.
LEMMA DigitFacts ==
    ASSUME NEW n \in Nat
    PROVE  /\ digit(n) % 128 = n % 128
           /\ n \div 128 = 0 => digit(n) \in 0..127
           /\ n \div 128 > 0 => digit(n) \in 128..255
           /\ digit(n) \in 0..255
<1>1. n % 128 \in 0..127 /\ n \div 128 \in Nat
  BY SMT
<1> QED
  BY <1>1, SMT DEF digit

\* What one more group of seven bits does to quotient and remainder.
LEMMA NextGroup ==
    ASSUME NEW l, Short(l), NEW i \in 1..3
    PROVE  /\ l \div Weight(i) \in Nat
           /\ (l \div Weight(i)) \div 128 = l \div Weight(i + 1)
           /\ (l % Weight(i)) + ((l \div Weight(i)) % 128) * Weight(i) = l % Weight(i + 1)
           /\ Weight(i) * 128 = Weight(i + 1)
<1>1. CASE i = 1
  BY <1>1, SMT DEF Weight, Short
<1>2. CASE i = 2
  BY <1>2, SMT DEF Weight, Short
<1>3. CASE i = 3
  BY <1>3, SMT DEF Weight, Short
<1> QED
  BY <1>1, <1>2, <1>3, SMT

-----------------------------------------------------------------------------
\* Nothing is packed at the start.
LEMMA CodecInit == Init => CInv
<1> SUFFICES ASSUME Init PROVE CInv
  OBVIOUS
<1>1. bytes \in Seq(0..255) /\ Len(bytes) = 0
  BY SMT DEF Init
<1> QED
  BY <1>1, SMT DEF Init, CInv, Fresh

\* The buffer's size is computed, and L is what is left to encode.
LEMMA PackStep == CInv /\ pack_mqtt_publish => CInv'
<1> SUFFICES ASSUME CInv, pack_mqtt_publish PROVE CInv'
  OBVIOUS
<1>1. /\ pkt \in Packets /\ pkt' = pkt
      /\ bytes = << >> /\ bytes' = bytes
      /\ Fresh /\ Fresh'
      /\ pc' = "encode" /\ written' = 1
  BY SMT DEF CInv, pack_mqtt_publish, Fresh
<1>2. L' = L /\ pktlen(pkt') = pktlen(pkt)
  BY <1>1, SMT DEF L
<1>3. Sized'
  BY <1>1, SMT DEF pack_mqtt_publish, Sized
<1>4. remaininglen_offset(pktlen(pkt)) \in 0..3
  BY SMT DEF remaininglen_offset
<1>5. rest' = L
  <2> DEFINE o == remaininglen_offset(pktlen(pkt))
  <2>1. size' = pktlen(pkt) + o /\ rest' = size' - 2 - o
    BY SMT DEF pack_mqtt_publish, MQTT_HEADER_LEN
  <2>2. pktlen(pkt) = L + 2 /\ L \in Nat
    BY <1>1, LengthBounds, SMT DEF Short
  <2> HIDE DEF o
  <2>3. o \in 0..3
    BY <1>4 DEF o
  <2> QED
    BY <2>1, <2>2, <2>3, SMT
<1>6. Len(bytes') = 0 /\ bytes' \in Seq(0..255) /\ Weight(1) = 1
  BY <1>1, SMT DEF Weight, Short
<1>7. rest' = L' \div Weight(Len(bytes') + 1)
  BY <1>1, <1>2, <1>5, <1>6, LengthBounds, SMT DEF Short
<1> QED
  BY <1>1, <1>2, <1>3, <1>6, <1>7, SMT DEF CInv

\* One more byte of the length field.
LEMMA EncodeStep == CInv /\ mqtt_encode_length => CInv'
<1> SUFFICES ASSUME CInv, mqtt_encode_length PROVE CInv'
  OBVIOUS
<1> DEFINE n == Len(bytes)
<1>1. /\ pkt \in Packets
      /\ bytes \in Seq(0..255)
      /\ \A i \in 1..n : bytes[i] = digit(L \div Weight(i))
      /\ Sized /\ Fresh /\ written = 1
      /\ n \in 0..2
      /\ rest = L \div Weight(n + 1)
      /\ n > 0 => rest > 0
  BY SMT DEF CInv, mqtt_encode_length
<1>2. /\ bytes' = Append(bytes, digit(rest))
      /\ rest' = rest \div 128
      /\ pc' = IF rest' > 0 THEN "encode" ELSE "body"
      /\ UNCHANGED <<pkt, size, written, pos, value, multiplier, got>>
  BY <1>1, SMT DEF mqtt_encode_length, MAX_LEN_BYTES
<1>3. L' = L /\ Sized' /\ Fresh' /\ pkt' \in Packets /\ written' = 1
  BY <1>1, <1>2, SMT DEF L, Sized, Fresh
<1>4. Short(L)
  BY <1>1, LengthBounds, SMT
<1>5. n + 1 \in 1..3
  BY <1>1, SMT
<1>6. rest \in Nat /\ rest' = L \div Weight(n + 2)
  <2>1. (n + 1) + 1 = n + 2
    BY <1>1, SMT
  <2>2. /\ L \div Weight(n + 1) \in Nat
        /\ (L \div Weight(n + 1)) \div 128 = L \div Weight((n + 1) + 1)
    BY <1>4, <1>5, NextGroup
  <2> QED
    BY <1>1, <1>2, <2>1, <2>2
<1>7. digit(rest) \in 0..255
  BY <1>6, DigitFacts
<1>8. bytes' \in Seq(0..255) /\ Len(bytes') = n + 1
  BY <1>1, <1>2, <1>7, SMT
<1>9. \A i \in 1..Len(bytes') : bytes'[i] = digit(L \div Weight(i))
  <2> TAKE i \in 1..Len(bytes')
  <2>1. CASE i = n + 1
    BY <2>1, <1>1, <1>2, <1>8, SMT
  <2>2. CASE i \in 1..n
    BY <2>2, <1>1, <1>2, <1>8, SMT
  <2> QED
    BY <2>1, <2>2, <1>1, <1>8, SMT
<1>10. CASE rest' > 0
  <2>1. n + 1 \in 0..2
    <3>1. CASE n = 2
      BY <3>1, <1>4, <1>6, <1>10, SMT DEF Weight, Short
    <3> QED
      BY <3>1, <1>1, SMT
  <2> QED
    BY <1>2, <1>3, <1>6, <1>8, <1>9, <1>10, <2>1, SMT DEF CInv
<1>11. CASE ~(rest' > 0)
  <2>1. rest' = 0
    BY <1>2, <1>6, <1>11, SMT
  <2>2. Complete'
    BY <1>1, <1>3, <1>5, <1>6, <1>8, <2>1, SMT DEF Complete
  <2> QED
    BY <1>2, <1>3, <1>8, <1>9, <1>11, <2>2, SMT DEF CInv
<1> QED
  BY <1>10, <1>11

\* The formula for the buffer agrees with the bytes that were needed.
LEMMA BodyStep == CInv /\ pack_body => CInv'
<1> SUFFICES ASSUME CInv, pack_body PROVE CInv'
  OBVIOUS
<1>1. /\ pkt \in Packets
      /\ bytes \in Seq(0..255)
      /\ \A i \in 1..Len(bytes) : bytes[i] = digit(L \div Weight(i))
      /\ Sized /\ Fresh /\ written = 1 /\ Complete
  BY SMT DEF CInv, pack_body
<1>2. /\ written' = written + Len(bytes) + 2 + pkt.topiclen + IdLen(pkt) + pkt.payloadlen
      /\ pc' = "decode"
      /\ UNCHANGED <<pkt, size, rest, bytes, pos, value, multiplier, got>>
  BY SMT DEF pack_body
<1>3. L \in Nat /\ L < 2097152 /\ pktlen(pkt) = L + 2
  BY <1>1, LengthBounds, SMT DEF Short
<1>4. Len(bytes) = 1 + remaininglen_offset(L + 2)
  <2>1. CASE Len(bytes) = 1
    BY <1>1, <1>3, <2>1, SMT DEF Complete, Weight, remaininglen_offset
  <2>2. CASE Len(bytes) = 2
    BY <1>1, <1>3, <2>2, SMT DEF Complete, Weight, remaininglen_offset
  <2>3. CASE Len(bytes) = 3
    <3>1. L \div 16384 > 0
      BY <1>1, <2>3, SMT DEF Complete, Weight
    <3>2. L >= 16384
      BY <1>3, <3>1, SMT
    <3> QED
      BY <1>3, <2>3, <3>2, SMT DEF remaininglen_offset
  <2> QED
    BY <1>1, <2>1, <2>2, <2>3, SMT DEF Complete
<1>5. Len(bytes) \in 1..3
  BY <1>1, SMT DEF Complete
<1>6. written' = size'
  <2>1. size' = L + 2 + remaininglen_offset(L + 2)
    BY <1>1, <1>2, <1>3, SMT DEF Sized
  <2>2. written' = 1 + Len(bytes) + L
    <3>1. written' = 1 + Len(bytes) + 2 + pkt.topiclen + IdLen(pkt) + pkt.payloadlen
      BY <1>1, <1>2
    <3>2. /\ pkt.topiclen \in Nat /\ pkt.payloadlen \in Nat /\ IdLen(pkt) \in {0, 2}
          /\ L = 2 + pkt.topiclen + pkt.payloadlen + IdLen(pkt)
      BY <1>1, LengthBounds
    <3> DEFINE n == Len(bytes)
               t == pkt.topiclen
               p == pkt.payloadlen
               i == IdLen(pkt)
    <3>3. n \in Nat /\ t \in Nat /\ p \in Nat /\ i \in Nat
      BY <1>5, <3>2, SMT
    <3> HIDE DEF n, t, p, i
    <3>4. 1 + n + 2 + t + i + p = 1 + n + (2 + t + p + i)
      BY <3>3, SMT
    <3> QED
      BY <3>1, <3>2, <3>4 DEF n, t, p, i
  <2>3. remaininglen_offset(L + 2) = Len(bytes) - 1
    <3>1. remaininglen_offset(L + 2) \in 0..3
      BY SMT DEF remaininglen_offset
    <3> QED
      BY <1>4, <1>5, <3>1, SMT
  <2> QED
    BY <1>3, <1>5, <2>1, <2>2, <2>3, SMT
<1>7. L' = L /\ Complete'
  BY <1>1, <1>2, SMT DEF L, Complete
<1>8. /\ pos' \in 0..(Len(bytes') - 1)
      /\ multiplier' = Weight(pos' + 1)
      /\ value' = L' % Weight(pos' + 1)
  <2>1. pos' = 0 /\ value' = 0 /\ multiplier' = 1
    BY <1>1, <1>2, SMT DEF Fresh
  <2>2. Weight(pos' + 1) = 1
    BY <2>1, SMT DEF Weight
  <2>3. L' % 1 = 0
    BY <1>3, <1>7, SMT
  <2>4. Len(bytes') \in 1..3
    BY <1>7, SMT DEF Complete
  <2>5. ASSUME NEW l \in 1..3 PROVE 0 \in 0..(l - 1)
    BY SMT
  <2>6. pos' \in 0..(Len(bytes') - 1)
    BY <2>1, <2>4, <2>5, Zenon
  <2> QED
    BY <2>1, <2>2, <2>3, <2>6, Zenon
<1> QED
  BY <1>1, <1>2, <1>6, <1>7, <1>8, SMT DEF CInv

\* One more byte is decoded.
LEMMA DecodeStep == CInv /\ mqtt_decode_length => CInv'
<1> SUFFICES ASSUME CInv, mqtt_decode_length PROVE CInv'
  OBVIOUS
<1> DEFINE n == Len(bytes)
           q == L \div Weight(pos + 1)
<1>1. /\ pkt \in Packets
      /\ bytes \in Seq(0..255)
      /\ \A i \in 1..n : bytes[i] = digit(L \div Weight(i))
      /\ written = size /\ Complete
      /\ pos \in 0..(n - 1)
      /\ multiplier = Weight(pos + 1)
      /\ value = L % Weight(pos + 1)
  BY SMT DEF CInv, mqtt_decode_length
<1>2. /\ value' = value + (bytes[pos + 1] % 128) * multiplier
      /\ multiplier' = multiplier * 128
      /\ pos' = pos + 1
      /\ pc' = IF bytes[pos + 1] >= 128 THEN "decode" ELSE "unpack"
      /\ UNCHANGED <<pkt, size, written, rest, bytes, got>>
  BY SMT DEF mqtt_decode_length
<1>3. Short(L)
  BY <1>1, LengthBounds, SMT
<1>4. n \in 1..3 /\ pos \in 0..2 /\ pos + 1 \in 1..3 /\ pos + 1 \in 1..n
  BY <1>1, SMT DEF Complete
<1>5. bytes[pos + 1] = digit(q) /\ q \in Nat
  BY <1>1, <1>3, <1>4, NextGroup
<1>6. /\ q \div 128 = L \div Weight(pos + 2)
      /\ (L % Weight(pos + 1)) + (q % 128) * Weight(pos + 1) = L % Weight(pos + 2)
      /\ Weight(pos + 1) * 128 = Weight(pos + 2)
  <2>1. (pos + 1) + 1 = pos + 2
    BY <1>4, SMT
  <2> QED
    <3>1. /\ q \div 128 = L \div Weight((pos + 1) + 1)
          /\ (L % Weight(pos + 1)) + (q % 128) * Weight(pos + 1)
                = L % Weight((pos + 1) + 1)
          /\ Weight(pos + 1) * 128 = Weight((pos + 1) + 1)
      BY <1>3, <1>4, NextGroup
    <3> QED
      BY <2>1, <3>1
<1>7. value' = L % Weight(pos + 2) /\ multiplier' = Weight(pos + 2)
  <2>1. bytes[pos + 1] % 128 = q % 128
    BY <1>5, DigitFacts, SMT
  <2> QED
    BY <1>1, <1>2, <1>6, <2>1, SMT
<1>8. L' = L /\ Complete' /\ written' = size'
  BY <1>1, <1>2, SMT DEF L, Complete
<1>9. CASE pos + 1 = n
  <2>1. q \div 128 = 0
    BY <1>1, <1>4, <1>6, <1>9, SMT DEF Complete
  <2>2. pc' = "unpack"
    BY <1>2, <1>5, <2>1, DigitFacts, SMT
  <2>3. value' = L'
    <3>1. CASE n = 1
      BY <3>1, <1>3, <1>6, <1>7, <1>8, <1>9, <2>1, SMT DEF Weight, Short
    <3>2. CASE n = 2
      BY <3>2, <1>3, <1>6, <1>7, <1>8, <1>9, <2>1, SMT DEF Weight, Short
    <3>3. CASE n = 3
      BY <3>3, <1>3, <1>6, <1>7, <1>8, <1>9, <2>1, SMT DEF Weight, Short
    <3> QED
      BY <1>4, <3>1, <3>2, <3>3, SMT
  <2>4. multiplier' \in Nat /\ multiplier' <= 2097152
    BY <1>7, SMT DEF Weight
  <2> QED
    BY <1>1, <1>2, <1>8, <2>2, <2>3, <2>4, SMT DEF CInv
<1>10. CASE pos + 1 < n
  <2>1. q \div 128 > 0
    <3>1. CASE pos + 2 = n
      BY <3>1, <1>1, <1>4, <1>6, SMT DEF Complete
    <3>2. CASE pos = 0 /\ n = 3
      <4>1. L \div 16384 > 0
        BY <3>2, <1>1, SMT DEF Complete, Weight
      <4> QED
        BY <3>2, <4>1, <1>3, <1>6, SMT DEF Weight, Short
    <3> QED
      <4>0. ASSUME NEW a \in 0..2, NEW b \in 1..3, a + 1 < b
            PROVE  a + 2 = b \/ (a = 0 /\ b = 3)
        BY <4>0, SMT
      <4>1. pos + 2 = n \/ (pos = 0 /\ n = 3)
        BY <1>4, <1>10, <4>0
      <4> QED
        BY <3>1, <3>2, <4>1
  <2>2. pc' = "decode"
    BY <1>2, <1>5, <2>1, DigitFacts, SMT
  <2> QED
    BY <1>1, <1>2, <1>4, <1>7, <1>8, <1>10, <2>2, SMT DEF CInv
<1>11. pos + 1 = n \/ pos + 1 < n
  <2> HIDE DEF n
  <2> QED
    BY <1>4, SMT
<1> QED
  BY <1>9, <1>10, <1>11

\* The unsigned short arithmetic of message_len gives the payload's length.
LEMMA UnpackStep == CInv /\ unpack_mqtt_publish => CInv'
<1> SUFFICES ASSUME CInv, unpack_mqtt_publish PROVE CInv'
  OBVIOUS
<1>1. /\ pkt \in Packets
      /\ bytes \in Seq(0..255)
      /\ \A i \in 1..Len(bytes) : bytes[i] = digit(L \div Weight(i))
      /\ written = size /\ value = L
      /\ multiplier \in Nat /\ multiplier <= 2097152
  BY SMT DEF CInv, unpack_mqtt_publish
<1>2. /\ got' = [topiclen |-> pkt.topiclen, payloadlen |-> message_len(value, pkt),
                 qos |-> pkt.qos]
      /\ pc' = "done"
      /\ UNCHANGED <<pkt, size, written, rest, bytes, pos, value, multiplier>>
  BY SMT DEF unpack_mqtt_publish
<1>3. message_len(value, pkt) = pkt.payloadlen
  <2>1. ASSUME NEW t \in Nat, t < 65536, NEW p \in Nat, p < 65536, NEW i \in {0, 2}
        PROVE  (((2 + t + p + i) % 65536) - i - 2 - t) % 65536 = p
    BY <2>1, SMT
  <2> QED
    <3>1. message_len(value, pkt) =
             (((2 + pkt.topiclen + pkt.payloadlen + IdLen(pkt)) % 65536)
                 - IdLen(pkt) - 2 - pkt.topiclen) % 65536
      BY <1>1, LengthBounds, SMT DEF message_len, U16
    <3>2. /\ pkt.topiclen \in Nat /\ pkt.topiclen < 65536
          /\ pkt.payloadlen \in Nat /\ pkt.payloadlen < 65536
          /\ IdLen(pkt) \in {0, 2}
      BY <1>1, LengthBounds, SMT
    <3> QED
      BY <2>1, <3>1, <3>2, SMT
<1>4. got' = pkt
  BY <1>1, <1>2, <1>3, SMT DEF Packets
<1>5. L' = L
  BY <1>2, SMT DEF L
<1> QED
  BY <1>1, <1>2, <1>4, <1>5, SMT DEF CInv

\* Every step of the codec keeps CInv.
LEMMA CodecStep == CInv /\ [Next]_vars => CInv'
<1>1. CInv /\ UNCHANGED vars => CInv'
  BY SMT DEF vars, CInv, L, Sized, Fresh, Complete
<1> QED
  BY <1>1, PackStep, EncodeStep, BodyStep, DecodeStep, UnpackStep DEF Next

\* CInv is inductive.
LEMMA CodecInductive == Spec => []CInv
  BY CodecInit, CodecStep, PTL DEF Spec

\* Whatever the lengths, pack_mqtt_publish fills the buffer it allocates to
\* the last byte and not beyond.
THEOREM PackFillsBuffer == Spec => []FillsBuffer
<1>1. CInv => FillsBuffer
  BY SMT DEF CInv, FillsBuffer
<1> QED
  BY CodecInductive, <1>1, PTL

\* mqtt_decode_length reads no byte that mqtt_encode_length did not write.
THEOREM DecodeStaysInBounds == Spec => []DecodeInBounds
<1>1. CInv => DecodeInBounds
  BY SMT DEF CInv, DecodeInBounds, Fresh, Weight, Complete
<1> QED
  BY CodecInductive, <1>1, PTL

\* unpack_mqtt_publish returns the lengths that pack_mqtt_publish was given.
THEOREM PublishRoundTrip == Spec => []RoundTrip
<1>1. CInv => RoundTrip
  BY SMT DEF CInv, RoundTrip, L
<1> QED
  BY CodecInductive, <1>1, PTL

-----------------------------------------------------------------------------
(* The requests.                                                            *)

Filter == [len : Nat, shape : Shapes]

\* The bytes of the first i filters of s, for each i.
Sums(t, s) ==
    LET sum[i \in 0..Len(s)] == IF i = 0 THEN 0 ELSE sum[i - 1] + FilterBytes(t, s[i])
    IN  sum

IsFiltered == type \in {SUBSCRIBE, UNSUBSCRIBE}

\* The bytes that remaining_bytes counts and are not left, after n filters.
Ahead(n) == IF type = SUBSCRIBE THEN n ELSE 0

Given ==
    /\ type \in 0..15
    /\ IsFiltered => sent \in FilterSeqs
    /\ tuples \in Seq(Filter)
    /\ Len(tuples) < U16
    /\ IsFiltered /\ OneLengthByte =>
          \A i \in 1..Len(tuples) : i <= Len(sent) => tuples[i] = sent[i]

Reading ==
    IsFiltered =>
        /\ step = "unpack" /\ OneLengthByte =>
              /\ Len(tuples) <= Len(sent)
              /\ left = Sums(type, sent)[Len(sent)] - Sums(type, sent)[Len(tuples)]
              /\ remaining = left + Ahead(Len(tuples))
        /\ step = "unpack" /\ ~OneLengthByte => tuples = << >>
        /\ step \in {"handle", "pack", "done"} /\ OneLengthByte =>
              /\ Len(tuples) >= Len(sent)
              /\ type = UNSUBSCRIBE => Len(tuples) = Len(sent)

\* A filter that needs no slash after one that does.
Again(i) ==
    /\ tuples[i].shape # "plain"
    /\ \E j \in 1..(i - 1) : tuples[j].shape = "plain"

Blocks ==
    type = SUBSCRIBE =>
        /\ step = "unpack" =>
              /\ \A i \in 1..Len(tuples) : <<"topic", i>> \in live
              /\ round = 1 /\ alloced = FALSE
        /\ step = "handle" =>
              /\ round \in 1..(Len(tuples) + 1)
              /\ alloced <=> \E j \in 1..(round - 1) : tuples[j].shape = "plain"
              /\ \A i \in 1..Len(tuples) :
                    <<"topic", i>> \in live <=> ~(i < round /\ Again(i))
        /\ step \in {"pack", "done"} =>
              \A i \in 1..Len(tuples) : <<"topic", i>> \in twice <=> Again(i)

Memory ==
    type \notin {CONNECT, UNSUBSCRIBE} =>
        /\ step \in {"unpack", "handle"} =>
              live \subseteq (IF type = SUBSCRIBE THEN TupleBlocks(tuples)
                              ELSE IF type = PUBLISH THEN {<<"topic", 0>>, <<"payload", 0>>}
                              ELSE {})
        /\ step = "pack" =>
              live \subseteq {<<"packed", 0>>, <<"response", 0>>, <<"suback", 0>>, <<"rcs", 0>>}
        /\ step = "done" => live \subseteq {<<"reply", size>>}

\* The length that the field of a reply says.
ReplyLen == IF type = SUBSCRIBE THEN 2 + Len(tuples) ELSE 2

Answer ==
    /\ step = "pack" =>
          /\ bytes \in Seq(Int)
          /\ written = 1
          /\ size = 2 + ReplyLen
          /\ \/ /\ pc = "encode"
                /\ Len(bytes) \in 0..2
                /\ rest = ReplyLen \div Weight(Len(bytes) + 1)
                /\ Len(bytes) > 0 => rest > 0
             \/ /\ pc = "body"
                /\ Len(bytes) \in 1..3
                /\ ReplyLen \div Weight(Len(bytes) + 1) = 0
                /\ Len(bytes) > 1 => ReplyLen \div Weight(Len(bytes)) > 0
    /\ pc = "packed" => step = "done" /\ ReplyFits

Coded ==
    /\ multiplier \in Nat /\ multiplier <= 2097152
    /\ pc \in {"decode", "unpack", "done"} => CInv
    /\ type = PUBLISH /\ step = "unpack" => CInv
    /\ type # PUBLISH /\ step # "pack" => pc \in {"none", "packed"}

-----------------------------------------------------------------------------
(* The bytes of the filters.                                               *)

\* What the recursion of Sums says.
LEMMA SumsRecursion ==
    ASSUME NEW t, NEW s \in Seq(Filter)
    PROVE  /\ Sums(t, s) \in [0..Len(s) -> Nat]
           /\ Sums(t, s)[0] = 0
           /\ \A i \in 1..Len(s) : Sums(t, s)[i] = Sums(t, s)[i - 1] + FilterBytes(t, s[i])
           /\ SentBytes(t, s) = Sums(t, s)[Len(s)]
  <1> DEFINE sum[i \in 0..Len(s)] ==
                 IF i = 0 THEN 0 ELSE sum[i - 1] + FilterBytes(t, s[i])
  <1>1. Sums(t, s) = sum /\ SentBytes(t, s) = sum[Len(s)]
    BY DEF Sums, SentBytes
  <1> DEFINE Eq(g) == g = [i \in 0..Len(s) |->
                              IF i = 0 THEN 0 ELSE g[i - 1] + FilterBytes(t, s[i])]
             st == [i \in Nat |-> [v \in Nat |->
                      IF i \in 1..Len(s) THEN v + FilterBytes(t, s[i]) ELSE v]]
  <1>2. Len(s) \in Nat
    OBVIOUS
  <1>3. \A i \in 1..Len(s) : FilterBytes(t, s[i]) \in Nat
    <2> SUFFICES ASSUME NEW i \in 1..Len(s) PROVE FilterBytes(t, s[i]) \in Nat
      OBVIOUS
    <2>1. s[i] \in Filter
      BY ElementOfSeq
    <2>2. s[i].len \in Nat
      BY <2>1 DEF Filter
    <2> QED  BY <2>2 DEF FilterBytes
  <1>4. st \in [Nat -> [Nat -> Nat]]
    BY <1>3
  <1>5. PICK g \in [0..Len(s) -> Nat] :
           g[0] = 0 /\ \A i \in 1..Len(s) : g[i] = st[i][g[i - 1]]
    <2> DEFINE n == Len(s)
               b == 0
               V == Nat
    <2>1. n \in Nat /\ b \in V /\ st \in [Nat -> [V -> V]]
      BY <1>2, <1>4
    <2> HIDE DEF st, n, b, V
    <2>2. \E g : ByRecursion(g, n, V, b, st)
      BY <2>1, RecursionExists, Zenon
    <2> QED  BY <2>2 DEF V, b, n, ByRecursion
  <1>6. \A i \in 1..Len(s) : g[i] = g[i - 1] + FilterBytes(t, s[i])
    <2> SUFFICES ASSUME NEW i \in 1..Len(s)
                 PROVE  g[i] = g[i - 1] + FilterBytes(t, s[i])
      OBVIOUS
    <2>1. i \in Nat /\ i - 1 \in 0..Len(s)
      BY <1>2
    <2>2. g[i - 1] \in Nat
      BY <2>1
    <2> QED  BY <1>5, <2>1, <2>2
  <1>7. Eq(g)
    <2>1. \A i \in 0..Len(s) : i = 0 \/ i \in 1..Len(s)
      BY <1>2
    <2>2. \A i \in 0..Len(s) : g[i] = IF i = 0 THEN 0 ELSE g[i - 1] + FilterBytes(t, s[i])
      BY <1>5, <1>6, <2>1
    <2> QED  BY <2>2
  <1>8. Eq(sum)
    <2>1. sum = CHOOSE h : Eq(h)
      OBVIOUS
    <2> HIDE DEF Eq, sum
    <2> QED  BY <1>7, <2>1
  <1> HIDE DEF sum
  <1>9. sum[0] = 0
    BY <1>2, <1>8
  <1>10. \A i \in 1..Len(s) : sum[i] = sum[i - 1] + FilterBytes(t, s[i])
    <2>1. \A i \in 1..Len(s) : i # 0 /\ i \in 0..Len(s)
      BY <1>2
    <2> QED  BY <1>8, <2>1
  <1>11. sum \in [0..Len(s) -> Nat]
    <2> DEFINE S == {i \in 0..Len(s) : sum[i] \in Nat}
    <2>1. 0 \in S
      BY <1>2, <1>9
    <2>2. ASSUME NEW i \in 0..(Len(s) - 1), i \in S PROVE i + 1 \in S
      <3>1. i + 1 \in 1..Len(s) /\ (i + 1) - 1 = i /\ i + 1 \in 0..Len(s)
        BY <1>2
      <3>2. sum[i + 1] = sum[i] + FilterBytes(t, s[i + 1])
        BY <1>10, <3>1
      <3>3. FilterBytes(t, s[i + 1]) \in Nat /\ sum[i] \in Nat
        BY <1>3, <2>2, <3>1
      <3>4. sum[i + 1] \in Nat
        BY <3>2, <3>3
      <3> QED  BY <3>1, <3>4
    <2> HIDE DEF S
    <2>3. 0..Len(s) \subseteq S
      BY <1>2, <2>1, <2>2, IntervalInduction
    <2>4. \A i \in 0..Len(s) : sum[i] \in Nat
      BY <2>3 DEF S
    <2>5. sum = [i \in 0..Len(s) |-> sum[i]]
      BY <1>8
    <2> QED  BY <2>4, <2>5
  <1> QED  BY <1>1, <1>9, <1>10, <1>11

\* Each filter takes a byte and more.
LEMMA SumsGrow ==
    ASSUME NEW t, NEW s \in Seq(Filter)
    PROVE  \A i \in 0..Len(s) : \A j \in 0..i : Sums(t, s)[j] + (i - j) <= Sums(t, s)[i]
  <1> DEFINE g == Sums(t, s)
             S == {i \in 0..Len(s) : \A j \in 0..i : g[j] + (i - j) <= g[i]}
  <1>1. /\ g \in [0..Len(s) -> Nat]
        /\ \A i \in 1..Len(s) : g[i] = g[i - 1] + FilterBytes(t, s[i])
    BY SumsRecursion
  <1> HIDE DEF g
  <1>2. Len(s) \in Nat
    OBVIOUS
  <1>3. 0 \in S
    <2>1. 0 \in 0..Len(s) /\ g[0] \in Nat
      BY <1>1, <1>2
    <2>2. \A j \in 0..0 : j = 0
      OBVIOUS
    <2> QED  BY <2>1, <2>2
  <1>4. ASSUME NEW i \in 0..(Len(s) - 1), i \in S PROVE i + 1 \in S
    <2>1. i + 1 \in 1..Len(s) /\ (i + 1) - 1 = i /\ i + 1 \in 0..Len(s) /\ i \in 0..Len(s)
      BY <1>2
    <2>2. g[i + 1] = g[i] + FilterBytes(t, s[i + 1])
      BY <1>1, <2>1
    <2>3. s[i + 1] \in Filter
      BY <2>1, ElementOfSeq
    <2>4. s[i + 1].len \in Nat
      BY <2>3 DEF Filter
    <2>5. FilterBytes(t, s[i + 1]) \in Nat /\ FilterBytes(t, s[i + 1]) >= 1
      BY <2>4 DEF FilterBytes
    <2>6. \A j \in 0..i : g[j] + (i - j) <= g[i]
      BY <1>4
    <2>7. g[i] \in Nat /\ g[i + 1] \in Nat
      BY <1>1, <2>1
    <2>8. ASSUME NEW j \in 0..(i + 1) PROVE g[j] + ((i + 1) - j) <= g[i + 1]
      <3>1. g[j] \in Nat
        BY <1>1, <2>1
      <3>2. CASE j = i + 1
        BY <3>2, <2>7
      <3>3. CASE j \in 0..i
        <4>1. g[j] + (i - j) <= g[i]
          BY <2>6, <3>3
        <4> DEFINE f == FilterBytes(t, s[i + 1])
                   a == g[j]
                   b == g[i]
        <4>2. f \in Nat /\ f >= 1 /\ a \in Nat /\ b \in Nat /\ a + (i - j) <= b
          BY <2>5, <2>7, <3>1, <4>1
        <4> HIDE DEF f, a, b
        <4>3. a + ((i + 1) - j) <= b + f
          BY <4>2
        <4> QED  BY <2>2, <4>3 DEF a, b, f
      <3> QED  BY <3>2, <3>3
    <2> QED  BY <2>1, <2>8
  <1> HIDE DEF S
  <1>5. 0..Len(s) \subseteq S
    BY <1>2, <1>3, <1>4, IntervalInduction
  <1> QED  BY <1>5 DEF S, g

\* What is read behind a packet are filters.
LEMMA StrayFilters ==
    ASSUME NEW s \in Strays
    PROVE  s \in Seq(Filter) /\ Len(s) \in Nat
  <1>1. s \in Seq(Filter)
    <2>1. Strays \subseteq Seq(Filter)
      BY StraysAssumption DEF Filter
    <2> QED  BY <2>1
  <1> QED  BY <1>1

\* What a packet with filters has: at least one, and bytes that a size_t can count.
LEMMA SentFacts ==
    ASSUME Given, IsFiltered
    PROVE  /\ sent \in Seq(Filter) /\ Len(sent) \in Nat /\ Len(sent) >= 1
           /\ \A s \in Strays \cup {<< >>} : Len(sent) + Len(s) < U16
           /\ Len(sent) < U16
           /\ Sums(type, sent) \in [0..Len(sent) -> Nat]
           /\ Sums(type, sent)[0] = 0
           /\ Sums(type, sent)[Len(sent)] <= SizeMax
  <1>1. sent \in FilterSeqs
    BY DEF Given
  <1>2. sent \in Seq(Filter) /\ sent # << >>
    BY <1>1, FilterSeqsAssumption DEF Filter
  <1>3. Len(sent) \in Nat /\ Len(sent) >= 1
    BY <1>2, EmptySeq
  <1>4. SentBytes(type, sent) <= SizeMax
    BY <1>1, PacketsAssumption DEF IsFiltered
  <1>5. \A s \in Strays \cup {<< >>} : Len(sent) + Len(s) < U16
    BY <1>1, FewFiltersAssumption
  <1>6. Len(sent) < U16
    <2>1. Len(<< >>) = 0
      OBVIOUS
    <2>2. Len(sent) + Len(<< >>) < U16
      BY <1>5
    <2> QED  BY <1>3, <2>1, <2>2
  <1> QED  BY <1>1, <1>2, <1>3, <1>4, <1>5, <1>6, SumsRecursion

-----------------------------------------------------------------------------
(* Reading the filters.                                                    *)

\* Nothing is read at the start.
LEMMA ReadingInit == RequestsInit => Given /\ Reading
  <1> SUFFICES ASSUME RequestsInit PROVE Given /\ Reading
    OBVIOUS
  <1>1. tuples \in Seq(Filter) /\ Len(tuples) = 0
    BY EmptySeq DEF RequestsInit
  <1>2. Given
    BY <1>1, TypesAssumption DEF RequestsInit, Given, IsFiltered, U16
  <1>3. ASSUME IsFiltered PROVE Reading
    <2>1. /\ step = "unpack"
          /\ left = SentBytes(type, sent)
          /\ remaining = left
      BY DEF RequestsInit
    <2>2. /\ sent \in Seq(Filter) /\ Len(sent) \in Nat
          /\ Sums(type, sent) \in [0..Len(sent) -> Nat]
          /\ Sums(type, sent)[0] = 0
      BY <1>2, <1>3, SentFacts
    <2>3. SentBytes(type, sent) = Sums(type, sent)[Len(sent)]
      BY <2>2, SumsRecursion
    <2>4. Sums(type, sent)[Len(sent)] \in Nat
      BY <2>2
    <2>5. tuples = << >>
      BY DEF RequestsInit
    <2> QED  BY <1>1, <2>1, <2>2, <2>3, <2>4, <2>5 DEF Reading, Ahead
  <1> QED  BY <1>2, <1>3 DEF Reading

\* No step changes the packet.
LEMMA PacketKept == [RequestsNext]_allvars => UNCHANGED request
  BY DEF RequestsNext, allvars, unpack_header, unpack_unknown, unpack_mqtt_connect,
         unpack_mqtt_ack, unpack_publish_strings, unpack_filter, unpack_behind,
         unpack_misread, unpack_filters_end, connect_unnamed, connect_double, connect_handler,
         disconnect_handler, unhandled, subscribe_tuple, subscribe_handler,
         unsubscribe_handler, publish_qos0, publish_acked, pack_reply

\* So its length field keeps its length.
LEMMA LengthKept ==
    ASSUME UNCHANGED request, IsFiltered
    PROVE  type' = type /\ sent' = sent /\ IsFiltered' /\ (OneLengthByte' <=> OneLengthByte)
  BY DEF request, IsFiltered, OneLengthByte, SUBSCRIBE, UNSUBSCRIBE, PUBLISH

\* The steps behind the loop of the unpacking functions, and those of other packets,
\* leave the filters alone; none of them leads back to unpacking, or to a handler.
LEMMA FiltersKept ==
    ASSUME [RequestsNext]_allvars, ~unpack_filter, ~unpack_behind, ~unpack_misread,
           ~unpack_filters_end
    PROVE  /\ UNCHANGED filters
           /\ \/ step' = step
              \/ step' = "undefined"
              \/ step = "unpack" /\ ~IsFiltered
              \/ step \in {"handle", "pack"} /\ step' \in {"pack", "done"}
  BY DEF RequestsNext, allvars, unpack_header, unpack_unknown, unpack_mqtt_connect,
         unpack_mqtt_ack, unpack_publish_strings, connect_unnamed, connect_double,
         connect_handler, start_reply, Dispatched,
         disconnect_handler, unhandled, subscribe_tuple, subscribe_handler,
         unsubscribe_handler, publish_qos0, publish_acked, pack_reply, filters,
         IsFiltered, SUBSCRIBE, UNSUBSCRIBE, CONNECT, PUBLISH, ACKS, DISCONNECT,
         PINGREQ, PINGRESP, CONNACK, SUBACK

\* Filters more keep the filters a prefix of what was sent, or the other way round.
LEMMA AddKeepsGiven ==
    ASSUME Given, IsFiltered, NEW s \in Seq(Filter), tuples' = tuples \o s,
           UNCHANGED request, Len(tuples) + Len(s) < U16,
           OneLengthByte => \A i \in 1..Len(s) :
               Len(tuples) + i <= Len(sent) => s[i] = sent[Len(tuples) + i]
    PROVE  Given' /\ Len(tuples') = Len(tuples) + Len(s)
  <1>1. tuples \in Seq(Filter)
    BY DEF Given
  <1>2. /\ tuples' \in Seq(Filter)
        /\ Len(tuples') = Len(tuples) + Len(s)
        /\ \A i \in 1..(Len(tuples) + Len(s)) :
              tuples'[i] = IF i <= Len(tuples) THEN tuples[i] ELSE s[i - Len(tuples)]
    BY <1>1, ConcatProperties
  <1>3. Len(tuples) \in Nat /\ Len(s) \in Nat /\ Len(sent) \in Nat
    BY <1>1, SentFacts
  <1>4. ASSUME OneLengthByte, NEW i \in 1..Len(tuples'), i <= Len(sent)
        PROVE  tuples'[i] = sent[i]
    <2>1. CASE i <= Len(tuples)
      <3>1. i \in 1..Len(tuples)
        BY <1>3, <2>1
      <3> QED  BY <1>2, <1>4, <2>1, <3>1 DEF Given
    <2>2. CASE ~(i <= Len(tuples))
      <3> DEFINE j == i - Len(tuples)
      <3>1. j \in 1..Len(s) /\ Len(tuples) + j = i
        BY <1>2, <1>3, <2>2
      <3>2. tuples'[i] = s[j]
        BY <1>2, <2>2
      <3> HIDE DEF j
      <3> QED  BY <1>4, <3>1, <3>2
    <2> QED  BY <2>1, <2>2
  <1>5. type' = type /\ sent' = sent /\ IsFiltered' /\ (OneLengthByte' <=> OneLengthByte)
    BY LengthKept
  <1> QED  BY <1>2, <1>4, <1>5 DEF Given

\* The count of what is left is right modulo the QoS bytes, and ends the loop there.
LEMMA ReadingStep == Given /\ Reading /\ [RequestsNext]_allvars => Given' /\ Reading'
  <1> SUFFICES ASSUME Given, Reading, [RequestsNext]_allvars PROVE Given' /\ Reading'
    OBVIOUS
  <1>1. type' = type /\ sent' = sent /\ UNCHANGED request
    BY PacketKept DEF request
  <1> DEFINE g == Sums(type, sent)
             k == Len(tuples)
             n == Len(sent)
  <1>2. CASE ~IsFiltered
    <2>1. UNCHANGED filters
      <3>1. CASE unpack_misread
        BY <1>2, <3>1 DEF unpack_misread, IsFiltered, filters
      <3> QED
        BY <1>2, <3>1, FiltersKept
        DEF unpack_filter, unpack_behind, unpack_filters_end, IsFiltered
    <2> QED  BY <1>1, <1>2, <2>1 DEF Given, Reading, IsFiltered, filters
  <1>0. IsFiltered => IsFiltered' /\ (OneLengthByte' <=> OneLengthByte)
    BY <1>1, LengthKept
  <1>3. CASE IsFiltered /\ ~unpack_filter /\ ~unpack_behind /\ ~unpack_misread
              /\ ~unpack_filters_end
    <2>1. UNCHANGED filters
      BY <1>3, FiltersKept
    <2>2. \/ step' = step
          \/ step' = "undefined"
          \/ step \in {"handle", "pack"} /\ step' \in {"pack", "done"}
      BY <1>3, FiltersKept
    <2> QED  BY <1>0, <1>1, <1>3, <2>1, <2>2 DEF Given, Reading, filters, Ahead
  <1>4. ASSUME IsFiltered, OneLengthByte, step = "unpack"
        PROVE  /\ n \in Nat /\ n >= 1 /\ k \in 0..n
               /\ g \in [0..n -> Nat] /\ g[0] = 0 /\ g[n] <= SizeMax
               /\ \A j \in 0..n : g[j] + (n - j) <= g[n]
               /\ left = g[n] - g[k] /\ remaining = left + Ahead(k)
    <2>1. tuples \in Seq(Filter) /\ k \in Nat
      BY DEF Given
    <2>2. n \in 0..n /\ sent \in Seq(Filter) /\ n \in Nat
      BY <1>4, SentFacts
    <2>3. \A j \in 0..n : g[j] + (n - j) <= g[n]
      BY <2>2, SumsGrow
    <2> HIDE DEF g
    <2> QED  BY <1>4, <2>1, <2>2, <2>3, SentFacts DEF Reading, g
  <1>5. CASE unpack_filter
    <2> DEFINE f == sent[k + 1]
               r == counted(remaining, f.len)
               a == g[k]
               b == g[k + 1]
               c == g[n]
    <2>1. /\ IsFiltered /\ OneLengthByte /\ step = "unpack" /\ step' = step /\ k < n
          /\ remaining' = r
          /\ left' = left - FilterBytes(type, f)
          /\ tuples' = tuples \o <<f>>
      BY <1>5 DEF unpack_filter, AddTuples, IsFiltered
    <2>2. k + 1 \in 1..n /\ k + 1 \in 0..n /\ k \in 0..n /\ (k + 1) - 1 = k /\ n \in 0..n
      BY <1>4, <2>1
    <2>3. f \in Filter /\ sent \in Seq(Filter)
      BY <2>1, <2>2, SentFacts, ElementOfSeq
    <2>4. Given' /\ Len(tuples') = k + 1
      <3>1. <<f>> \in Seq(Filter) /\ Len(<<f>>) = 1 /\ <<f>>[1] = f
        BY <2>3
      <3>2. k + Len(<<f>>) < U16
        <4>1. n < U16 /\ n \in Nat /\ k \in Nat /\ k < n
          BY <2>1, SentFacts, <1>4
        <4> HIDE DEF n, k
        <4> QED  BY <3>1, <4>1 DEF U16
      <3>3. \A i \in 1..Len(<<f>>) : k + i <= n => <<f>>[i] = sent[k + i]
        <4>1. \A i \in 1..Len(<<f>>) : i = 1
          BY <3>1
        <4> QED  BY <3>1, <4>1
      <3>4. Given' /\ Len(tuples') = Len(tuples) + Len(<<f>>)
        BY <1>1, <2>1, <3>1, <3>2, <3>3, AddKeepsGiven
      <3> QED  BY <3>1, <3>4
    <2>5. g[k + 1] = g[k] + FilterBytes(type, f)
      BY <2>2, <2>3, SumsRecursion
    <2>6. f.len \in Nat
      BY <2>3 DEF Filter
    <2>7. a \in Nat /\ b \in Nat /\ c \in Nat /\ a + (n - k) <= c /\ b + (n - (k + 1)) <= c
      BY <1>4, <2>1, <2>2
    <2>8. 0 <= a - k
      <3>1. 0 \in 0..k /\ g[0] = 0
        BY <1>4, <2>1
      <3>2. g[0] + (k - 0) <= g[k]
        BY <2>2, <2>3, <3>1, SumsGrow
      <3> QED  BY <1>4, <2>1, <2>7, <3>1, <3>2
    <2>9. c <= SizeMax /\ SizeMax \in Nat /\ k \in Nat /\ n \in Nat /\ k < n
      BY <1>4, <2>1, SizeMaxAssumption
    <2>10. left = c - a /\ remaining = left + Ahead(k)
      BY <1>4, <2>1
    <2> DEFINE l == f.len
    <2>11. b = a + FilterBytes(type, f)
      BY <2>5
    <2> HIDE DEF a, b, c, f, l, n, k
    <2>12. CASE type = SUBSCRIBE
      <3>1. b = a + (2 + l + 1) /\ FilterBytes(type, f) = 2 + l + 1
        BY <2>11, <2>12 DEF FilterBytes, l
      <3>2. Ahead(k) = k /\ Ahead(k + 1) = k + 1
        BY <2>12 DEF Ahead
      <3>3. remaining - 2 - l = (c - b) + (k + 1)
        BY <2>6, <2>7, <2>9, <2>10, <3>1, <3>2 DEF l
      <3>4. (c - b) + (k + 1) \in 0..SizeMax
        BY <2>7, <2>8, <2>9, <2>6, <3>1 DEF l
      <3>5. ASSUME NEW m \in 0..SizeMax PROVE m % (SizeMax + 1) = m
        BY <2>9
      <3>6. r = (c - b) + (k + 1)
        BY <3>3, <3>4, <3>5 DEF counted, l
      <3>7. left' = c - b
        BY <2>1, <2>6, <2>7, <2>10, <3>1 DEF l
      <3>8. remaining' = left' + Ahead(k + 1)
        BY <2>1, <3>2, <3>6, <3>7
      <3> QED  BY <1>0, <1>1, <2>1, <2>4, <2>9, <3>7, <3>8 DEF Reading, Ahead, b, c, n
    <2>13. CASE type # SUBSCRIBE
      <3>1. b = a + (2 + l) /\ FilterBytes(type, f) = 2 + l
        BY <2>6, <2>11, <2>13 DEF FilterBytes, l
      <3>2. Ahead(k) = 0 /\ Ahead(k + 1) = 0
        BY <2>13 DEF Ahead
      <3>3. remaining - 2 - l = c - b
        BY <2>6, <2>7, <2>9, <2>10, <3>1, <3>2 DEF l
      <3>4. c - b \in 0..SizeMax
        BY <2>7, <2>8, <2>9, <2>6, <3>1 DEF l
      <3>5. ASSUME NEW m \in 0..SizeMax PROVE m % (SizeMax + 1) = m
        BY <2>9
      <3>6. r = c - b
        BY <3>3, <3>4, <3>5 DEF counted, l
      <3>7. left' = c - b
        BY <2>1, <2>6, <2>7, <2>10, <3>1 DEF l
      <3>8. remaining' = left' + Ahead(k + 1)
        BY <2>1, <2>7, <3>2, <3>6, <3>7
      <3> QED  BY <1>0, <1>1, <2>1, <2>4, <2>9, <3>7, <3>8 DEF Reading, Ahead, b, c, n
    <2> QED  BY <2>12, <2>13
  <1>6. CASE unpack_behind
    <2>1. /\ IsFiltered /\ OneLengthByte /\ step = "unpack" /\ k = n
          /\ remaining > 0
      BY <1>6 DEF unpack_behind, IsFiltered, more
    <2>2. remaining = Ahead(n) /\ n \in Nat
      <3>1. g[n] \in Nat
        BY <1>4, <2>1
      <3>2. remaining = (g[n] - g[k]) + Ahead(k) /\ n \in Nat
        BY <1>4, <2>1
      <3> HIDE DEF g, n
      <3>3. g[n] - g[k] = 0
        BY <2>1, <3>1
      <3>4. Ahead(n) = n \/ Ahead(n) = 0
        BY DEF Ahead
      <3> QED  BY <2>1, <3>2, <3>3, <3>4
    <2>3. type = SUBSCRIBE
      BY <2>1, <2>2 DEF Ahead
    <2>4. CASE step' = "undefined" /\ UNCHANGED tuples
      BY <1>0, <1>1, <2>1, <2>4 DEF Given, Reading
    <2>5. CASE ~(step' = "undefined" /\ UNCHANGED tuples)
      <3>1. PICK s \in Strays : AddTuples(s) /\ step' = "handle"
        BY <1>6, <2>5 DEF unpack_behind
      <3>2. s \in Seq(Filter) /\ Len(s) \in Nat
        BY StrayFilters
      <3>3. n + Len(s) < U16
        BY <2>1, SentFacts
      <3>4. \A i \in 1..Len(s) : ~(k + i <= n)
        BY <2>1, <2>2, <3>2
      <3>5. tuples' = tuples \o s
        BY <3>1 DEF AddTuples
      <3>6. Given' /\ Len(tuples') = Len(tuples) + Len(s)
        <4>1. Len(tuples) + Len(s) < U16
          BY <2>1, <3>3
        <4> QED  BY <1>1, <2>1, <3>2, <3>4, <3>5, <4>1, AddKeepsGiven
      <3>7. Len(tuples') >= n
        BY <2>1, <2>2, <3>2, <3>6
      <3> QED
        BY <1>0, <1>1, <2>3, <3>1, <3>6, <3>7 DEF Reading, SUBSCRIBE, UNSUBSCRIBE
    <2> QED  BY <2>4, <2>5
  <1>8. CASE unpack_misread /\ IsFiltered
    <2>1. tuples = << >> /\ ~OneLengthByte
      BY <1>8 DEF unpack_misread, Reading
    <2>2. CASE UNCHANGED tuples /\ step' = "undefined"
      BY <1>0, <1>1, <1>8, <2>2 DEF Given, Reading
    <2>3. CASE \E s \in Strays : AddTuples(s)
      <3>1. PICK s \in Strays : AddTuples(s)
        BY <2>3
      <3>2. s \in Seq(Filter) /\ Len(s) \in Nat /\ Len(tuples) = 0
        BY <2>1, StrayFilters
      <3>3. Len(tuples) + Len(s) < U16
        <4>1. Len(sent) + Len(s) < U16 /\ Len(sent) \in Nat
          BY <1>8, SentFacts
        <4> QED  BY <3>2, <4>1 DEF U16
      <3>4. Given'
        BY <1>1, <1>8, <2>1, <3>1, <3>2, <3>3, AddKeepsGiven DEF AddTuples
      <3>5. step' \in {"handle", "undefined"}
        BY <1>8 DEF unpack_misread
      <3> QED  BY <1>0, <1>8, <2>1, <3>4, <3>5 DEF Reading
    <2> QED
      BY <1>8, <2>2, <2>3
      DEF unpack_misread, IsFiltered, filters, PUBLISH, SUBSCRIBE, UNSUBSCRIBE
  <1>7. CASE unpack_filters_end
    <2>1. /\ IsFiltered /\ OneLengthByte /\ step = "unpack" /\ step' = "handle"
          /\ ~(remaining > 0) /\ UNCHANGED filters
      BY <1>7 DEF unpack_filters_end, IsFiltered, more
    <2> DEFINE a == g[k]
               c == g[n]
    <2>2. a \in Nat /\ c \in Nat /\ n \in Nat /\ n >= 1 /\ k \in 0..n /\ a + (n - k) <= c
      BY <1>4, <2>1
    <2>3. g[0] = 0 /\ remaining = (c - a) + Ahead(k)
      BY <1>4, <2>1
    <2> HIDE DEF a, c, n, k
    <2>4. k = n
      BY <2>1, <2>2, <2>3 DEF Ahead
    <2>5. Ahead(k) = 0
      BY <2>1, <2>2, <2>3 DEF Ahead
    <2>6. type # SUBSCRIBE
      BY <2>2, <2>4, <2>5 DEF Ahead
    <2> QED
      BY <1>0, <1>1, <2>1, <2>2, <2>4 DEF Given, Reading, filters, n, k
  <1> QED  BY <1>2, <1>3, <1>5, <1>6, <1>7, <1>8

\* Whatever filters were sent, and whatever lies behind the packet: if the length field
\* has one byte, a handler gets all that were sent, in their order and before anything
\* else, and that of UNSUBSCRIBE nothing else.  remaining_bytes is the bytes of the
\* filters to come plus the QoS bytes passed; it never wraps before the packet's end,
\* and is 0 only there.
THEOREM ReadsEveryFilter == RequestsSpec => []ReadsAll
  <1>1. ASSUME Given, Reading, IsFiltered, OneLengthByte, step = "unpack"
        PROVE  remaining >= left /\ (type = UNSUBSCRIBE => remaining = left)
    <2> DEFINE n == Len(tuples)
               a == Sums(type, sent)[Len(sent)]
               b == Sums(type, sent)[n]
    <2>1. n \in Nat /\ n <= Len(sent) /\ left = a - b /\ remaining = left + Ahead(n)
      BY <1>1 DEF Given, Reading
    <2>2. Len(sent) \in Nat /\ Sums(type, sent) \in [0..Len(sent) -> Nat]
      BY <1>1, SentFacts
    <2>3. a \in Nat /\ b \in Nat
      BY <2>1, <2>2
    <2> HIDE DEF n, a, b
    <2>4. Ahead(n) \in Nat /\ (type = UNSUBSCRIBE => Ahead(n) = 0)
      BY <2>1 DEF Ahead, SUBSCRIBE, UNSUBSCRIBE
    <2> QED  BY <2>1, <2>3, <2>4
  <1>2. Given /\ Reading => ReadsAll
    <2> SUFFICES ASSUME Given, Reading, IsFiltered, OneLengthByte,
                        step \in {"handle", "pack", "done"}
                 PROVE  /\ IsPrefix(sent, tuples)
                        /\ type = UNSUBSCRIBE => tuples = sent
      BY <1>1 DEF ReadsAll, IsFiltered
    <2>1. Len(tuples) >= Len(sent) /\ (type = UNSUBSCRIBE => Len(tuples) = Len(sent))
      BY DEF Reading
    <2>2. /\ sent \in Seq(Filter) /\ tuples \in Seq(Filter)
          /\ Len(sent) \in Nat /\ Len(tuples) \in Nat
      BY SentFacts DEF Given
    <2>3. Len(sent) <= Len(tuples)
      BY <2>1, <2>2
    <2>4. \A i \in 1..Len(sent) : tuples[i] = sent[i]
      BY <2>2, <2>3 DEF Given
    <2>5. SubSeq(sent, 1, Len(sent)) = SubSeq(tuples, 1, Len(sent))
      BY <2>2, <2>3, <2>4
    <2>6. type = UNSUBSCRIBE => tuples = sent
      BY <2>1, <2>2, <2>4, SeqEqual
    <2> QED  BY <2>3, <2>5, <2>6 DEF IsPrefix
  <1> QED  BY ReadingInit, ReadingStep, <1>2, PTL DEF RequestsSpec

-----------------------------------------------------------------------------
(* What subscribe_handler frees.                                           *)

\* Nothing is allocated at the start.
LEMMA BlocksInit == RequestsInit => Blocks
  <1> SUFFICES ASSUME RequestsInit PROVE Blocks
    OBVIOUS
  <1>1. Len(tuples) = 0
    BY EmptySeq DEF RequestsInit
  <1> QED  BY <1>1 DEF RequestsInit, Blocks

\* A string is freed by the loop just when a filter before it was copied.
LEMMA BlocksStep ==
    Given /\ Reading /\ Blocks /\ [RequestsNext]_allvars => Blocks'
  <1> SUFFICES ASSUME Given, Reading, Blocks, [RequestsNext]_allvars, type = SUBSCRIBE
               PROVE  Blocks'
    BY PacketKept DEF Blocks, request
  <1>1. type' = type /\ IsFiltered
    BY PacketKept DEF request, IsFiltered
  <1>2. tuples \in Seq(Filter) /\ Len(tuples) \in Nat
    BY DEF Given
  <1> USE DEF Blocks
  <1>3. CASE UNCHANGED <<step, filters, loop, live, twice>>
    BY <1>1, <1>3 DEF filters, loop, Again
  <1>4. ASSUME NEW s, AddTuples(s), step = "unpack", UNCHANGED <<loop, twice>>,
               step' \in {"unpack", "handle"}
        PROVE  Blocks'
    <2>1. live' = TupleBlocks(tuples')
      BY <1>4 DEF AddTuples
    <2>2. tuples' \in Seq(Filter) /\ Len(tuples') \in Nat /\ DOMAIN tuples' = 1..Len(tuples')
      BY ReadingStep DEF Given
    <2>3. \A i \in 1..Len(tuples') : <<"topic", i>> \in live'
      BY <2>1, <2>2 DEF TupleBlocks
    <2>4. round' = 1 /\ alloced' = FALSE
      BY <1>4 DEF loop
    <2> QED  BY <1>1, <1>4, <2>2, <2>3, <2>4
  <1>5. CASE unpack_filter
    BY <1>4, <1>5 DEF unpack_filter
  <1>6. CASE unpack_behind \/ unpack_misread
    <2>1. CASE step' = "undefined"
      BY <2>1
    <2>2. CASE step' # "undefined"
      <3>1. PICK s \in Strays : AddTuples(s)
        BY <1>6, <2>2 DEF unpack_behind, unpack_misread, SUBSCRIBE, PUBLISH
      <3> QED  BY <1>4, <1>6, <2>2, <3>1 DEF unpack_behind, unpack_misread
    <2> QED  BY <2>1, <2>2
  <1>7. CASE unpack_filters_end
    BY <1>1, <1>2, <1>7 DEF unpack_filters_end, filters, loop
  <1>8. CASE subscribe_tuple
    <2> DEFINE own == tuples[round].shape # "plain"
               P(i) == tuples[i].shape = "plain"
    <2>1. /\ step = "handle" /\ step' = step
          /\ round \in 1..Len(tuples) /\ round' = round + 1
          /\ tuples' = tuples
          /\ alloced <=> \E j \in 1..(round - 1) : P(j)
          /\ \A i \in 1..Len(tuples) : <<"topic", i>> \in live <=> ~(i < round /\ Again(i))
      BY <1>1, <1>2, <1>8 DEF subscribe_tuple, Dispatched, filters
    <2>2. alloced' = (alloced \/ ~own)
      BY <1>8 DEF subscribe_tuple
    <2>3. live' = IF alloced /\ own THEN live \ {<<"topic", round>>} ELSE live
      BY <1>8 DEF subscribe_tuple, frees_topic
    <2>4. (alloced /\ own) <=> Again(round)
      BY <2>1 DEF Again
    <2>5. alloced' <=> \E j \in 1..(round' - 1) : P(j)
      <3>1. \A j \in 1..(round' - 1) : j \in 1..(round - 1) \/ j = round
        BY <2>1
      <3>2. round \in 1..(round' - 1) /\ \A j \in 1..(round - 1) : j \in 1..(round' - 1)
        BY <2>1
      <3>3. ~own <=> P(round)
        OBVIOUS
      <3> HIDE DEF own, P
      <3> QED  BY <2>1, <2>2, <3>1, <3>2, <3>3, Zenon
    <2>6. ASSUME NEW i \in 1..Len(tuples)
          PROVE  <<"topic", i>> \in live' <=> ~(i < round' /\ Again(i))
      <3>1. CASE i = round
        BY <2>1, <2>3, <2>4, <3>1
      <3>2. CASE i # round
        <4>1. i < round' <=> i < round
          BY <2>1, <3>2
        <4>2. <<"topic", i>> \in live' <=> <<"topic", i>> \in live
          BY <2>3, <3>2
        <4> QED  BY <2>1, <4>1, <4>2
      <3> QED  BY <3>1, <3>2
    <2>7. round' \in 1..(Len(tuples') + 1)
      BY <1>2, <2>1
    <2>8. \A i : Again(i)' <=> Again(i)
      BY <2>1 DEF Again
    <2> QED  BY <1>1, <2>1, <2>5, <2>6, <2>7, <2>8
  <1>9. CASE subscribe_handler
    <2>1. /\ step = "handle" /\ step' = "pack" /\ tuples' = tuples
          /\ round > Len(tuples)
          /\ twice' = mqtt_packet_release(SUBSCRIBE) \ live
      BY <1>9 DEF subscribe_handler, Dispatched, start_reply, filters
    <2>2. round = Len(tuples) + 1
      BY <1>2, <2>1
    <2>3. \A i \in 1..Len(tuples) : <<"topic", i>> \in live <=> ~Again(i)
      <3>1. \A i \in 1..Len(tuples) : i < round
        BY <1>2, <2>2
      <3> QED  BY <2>1, <3>1
    <2>4. \A i \in 1..Len(tuples) : <<"topic", i>> \in mqtt_packet_release(SUBSCRIBE)
      <3>1. DOMAIN tuples = 1..Len(tuples)
        BY <1>2
      <3> QED  BY <3>1 DEF mqtt_packet_release, TupleBlocks, SUBSCRIBE, PUBLISH
    <2>5. \A i : Again(i)' <=> Again(i)
      BY <2>1 DEF Again
    <2> QED  BY <1>1, <2>1, <2>3, <2>4, <2>5
  <1>10. CASE pack_reply
    <2>1. step = "pack" /\ step' = "done" /\ tuples' = tuples /\ twice' = twice
      BY <1>10 DEF pack_reply, filters
    <2> QED  BY <1>1, <2>1 DEF Again
  <1>11. CASE step = "pack" /\ mqtt_encode_length
              /\ UNCHANGED <<request, step, filters, loop, live, twice>>
    BY <1>3, <1>11
  <1> QED
    <2>1. type \notin {CONNECT, PUBLISH, UNSUBSCRIBE, DISCONNECT, PINGREQ, PINGRESP}
          /\ type \notin {0, CONNACK, SUBACK, 11, 15} /\ type \notin ACKS
      BY DEF SUBSCRIBE, CONNECT, PUBLISH, UNSUBSCRIBE, DISCONNECT, PINGREQ, PINGRESP,
             CONNACK, SUBACK, ACKS
    <2>2. ~disconnect_handler
      BY <2>1, TableAssumption DEF disconnect_handler, Given
    <2> QED
      BY <1>3, <1>5, <1>6, <1>7, <1>8, <1>9, <1>10, <1>11, <2>1, <2>2
      DEF RequestsNext, allvars, unpack_header, unpack_unknown, unpack_mqtt_connect,
          unpack_mqtt_ack, unpack_publish_strings, connect_unnamed, connect_double,
          connect_handler, unhandled, unsubscribe_handler,
          publish_qos0, publish_acked, Dispatched

\* subscribe_handler frees a string twice just when its filter needs no slash and one
\* before it in the packet does.
THEOREM FreesTwiceJustAfterCopy == RequestsSpec => []FreedOnce
  <1>1. Given /\ Blocks => FreedOnce
    <2> SUFFICES ASSUME Given, Blocks PROVE FreedOnce
      OBVIOUS
    <2>1. DOMAIN tuples = 1..Len(tuples)
      BY DEF Given
    <2> QED  BY <2>1 DEF Blocks, FreedOnce, Again
  <1> QED
    BY ReadingInit, ReadingStep, BlocksInit, BlocksStep, <1>1, PTL DEF RequestsSpec

-----------------------------------------------------------------------------
(* What is left in memory.                                                 *)

\* What a packet that is released has allocated is released with it, or with its reply.
LEMMA MemoryStep ==
    Given /\ Reading /\ Memory /\ [RequestsNext]_allvars => Memory'
  <1> SUFFICES ASSUME Given, Reading, Memory, [RequestsNext]_allvars,
                      type \notin {CONNECT, UNSUBSCRIBE}
               PROVE  Memory'
    BY PacketKept DEF Memory, request
  <1>1. type' = type
    BY PacketKept DEF request
  <1>2. tuples \in Seq(Filter) /\ Len(tuples) \in Nat /\ DOMAIN tuples = 1..Len(tuples)
    BY DEF Given
  <1> USE DEF Memory
  <1>3. CASE UNCHANGED <<step, tuples, live>> /\ (step = "done" => size' = size)
    BY <1>1, <1>3
  <1>4. CASE step' = "undefined"
    BY <1>4
  <1>5. ASSUME NEW s, AddTuples(s), step = "unpack", step' \in {"unpack", "handle"},
               type = SUBSCRIBE
        PROVE  Memory'
    BY <1>1, <1>5 DEF AddTuples
  <1>6. CASE unpack_header \/ unpack_mqtt_ack \/ unpack_filters_end
    BY <1>1, <1>6
    DEF unpack_header, unpack_mqtt_ack, unpack_filters_end, filters
  <1>7. CASE unpack_publish_strings
    BY <1>1, <1>7 DEF unpack_publish_strings, PUBLISH, SUBSCRIBE
  <1>8. CASE unpack_filter \/ unpack_behind
    BY <1>4, <1>5, <1>8 DEF unpack_filter, unpack_behind
  <1>16. CASE unpack_misread
    <2>1. CASE type = PUBLISH
      BY <1>1, <1>4, <1>16, <2>1 DEF unpack_misread, PUBLISH, SUBSCRIBE
    <2>2. CASE type # PUBLISH
      BY <1>4, <1>5, <1>16, <2>2 DEF unpack_misread
    <2> QED  BY <2>1, <2>2
  <1>9. CASE disconnect_handler
    <2>1. type \in {PINGREQ, PINGRESP, DISCONNECT}
      BY <1>9, TableAssumption DEF disconnect_handler, Given
    <2> QED
      BY <1>1, <1>9, <2>1
      DEF disconnect_handler, DISCONNECT, PINGREQ, PINGRESP, SUBSCRIBE, PUBLISH
  <1>10. CASE subscribe_tuple
    BY <1>1, <1>10 DEF subscribe_tuple, Dispatched, filters
  <1>11. CASE subscribe_handler
    <2>1. /\ step = "handle" /\ step' = "pack" /\ type = SUBSCRIBE
          /\ live' = (live \ mqtt_packet_release(SUBSCRIBE))
                        \cup {<<"suback", 0>>, <<"rcs", 0>>, <<"packed", 0>>}
      BY <1>11 DEF subscribe_handler, Dispatched, start_reply
    <2>2. mqtt_packet_release(SUBSCRIBE) = TupleBlocks(tuples)
      BY DEF mqtt_packet_release, SUBSCRIBE, PUBLISH
    <2>3. live \subseteq TupleBlocks(tuples)
      BY <2>1
    <2> QED  BY <1>1, <2>1, <2>2, <2>3
  <1>12. CASE publish_qos0 \/ publish_acked
    <2>1. /\ step = "handle" /\ type = PUBLISH
          /\ \/ step' = "done" /\ live' = live \ mqtt_packet_release(PUBLISH)
             \/ step' = "pack" /\ live' = (live \ mqtt_packet_release(PUBLISH))
                                               \cup {<<"packed", 0>>}
      BY <1>12 DEF publish_qos0, publish_acked, Dispatched, start_reply
    <2>2. live \subseteq {<<"topic", 0>>, <<"payload", 0>>}
      BY <2>1 DEF PUBLISH, SUBSCRIBE
    <2>3. live \ mqtt_packet_release(PUBLISH) = {}
      BY <2>2 DEF mqtt_packet_release
    <2> QED  BY <1>1, <2>1, <2>3
  <1>13. CASE pack_reply
    BY <1>1, <1>13 DEF pack_reply
  <1>14. CASE UNCHANGED allvars
    BY <1>3, <1>14 DEF allvars, filters, vars
  <1>15. CASE step \in {"unpack", "pack"} /\ UNCHANGED <<step, filters, live>>
    BY <1>3, <1>15 DEF filters
  <1> QED
    BY <1>4, <1>6, <1>7, <1>8, <1>9, <1>10, <1>11, <1>12, <1>13, <1>14, <1>15, <1>16
    DEF RequestsNext, unpack_unknown, unpack_mqtt_connect, connect_unnamed,
        connect_double, connect_handler, unhandled, unsubscribe_handler, Dispatched

\* A PUBLISH, a SUBSCRIBE or a DISCONNECT leaves nothing allocated but its reply.
THEOREM NothingLeft == RequestsSpec => []Released
  <1>1. RequestsInit => Memory
    BY DEF RequestsInit, Memory
  <1>2. Memory => Released
    BY DEF Memory, Released
  <1> QED
    BY ReadingInit, ReadingStep, <1>1, MemoryStep, <1>2, PTL DEF RequestsSpec

-----------------------------------------------------------------------------
(* The length of a reply.                                                  *)

\* A reply's length takes at most three bytes of the length field.
LEMMA ReplyShort ==
    ASSUME Given
    PROVE  Short(ReplyLen) /\ ReplyLen >= 2 /\ ReplyLen < 2 + U16
  <1>1. CASE type = SUBSCRIBE
    <2>1. Len(tuples) \in Nat /\ Len(tuples) < U16
      BY DEF Given
    <2> QED  BY <1>1, <2>1 DEF ReplyLen, Short, U16
  <1>2. CASE type # SUBSCRIBE
    BY <1>2 DEF ReplyLen, Short, U16
  <1> QED  BY <1>1, <1>2

\* A reply is packed into a buffer that has room for one byte of length field.
LEMMA StartStep ==
    ASSUME Given, step = "handle", start_reply(2 + ReplyLen, ReplyLen),
           UNCHANGED <<type, tuples>>
    PROVE  Answer'
  <1>1. Short(ReplyLen) /\ ReplyLen' = ReplyLen
    BY ReplyShort DEF ReplyLen
  <1>2. ReplyLen \div Weight(1) = ReplyLen
    BY <1>1 DEF Short, Weight
  <1>3. bytes' \in Seq(Int) /\ Len(bytes') = 0
    BY EmptySeq DEF start_reply
  <1>4. /\ step' = "pack" /\ written' = 1 /\ size' = 2 + ReplyLen
        /\ pc' = "encode" /\ rest' = ReplyLen
    BY DEF start_reply
  <1> QED  BY <1>1, <1>2, <1>3, <1>4 DEF Answer

\* Bytes are added to the length field until it says the whole length, and the reply
\* is then as long as its length needs.
LEMMA AnswerStep ==
    Given /\ Answer /\ [RequestsNext]_allvars => Answer'
  <1> SUFFICES ASSUME Given, Answer, [RequestsNext]_allvars PROVE Answer'
    OBVIOUS
  <1>1. type' = type
    BY PacketKept DEF request
  <1> DEFINE M == ReplyLen
             n == Len(bytes)
  <1>2. CASE UNCHANGED <<vars, step, tuples>>
    BY <1>1, <1>2 DEF vars, Answer, ReplyLen, ReplyFits
  <1>3. CASE step # "pack" /\ step' # "pack" /\ pc # "packed" /\ pc' # "packed"
    BY <1>3 DEF Answer
  <1>4. CASE step = "pack" /\ mqtt_encode_length
              /\ UNCHANGED <<request, step, filters, loop, live, twice>>
    <2>1. /\ bytes \in Seq(Int) /\ written = 1 /\ size = 2 + M /\ pc = "encode"
          /\ n \in 0..2 /\ rest = M \div Weight(n + 1)
          /\ n > 0 => rest > 0
      BY <1>4 DEF Answer, mqtt_encode_length
    <2>0. /\ n \in 0..2 /\ ~(n + 1 > 4)
          /\ n + 1 \in 1..3 /\ (n + 1) + 1 = n + 2
          /\ n = 2 \/ n + 1 \in 0..2
      <3>1. n \in 0..2
        BY <2>1
      <3> HIDE DEF n
      <3> QED  BY <3>1
    <2>2. /\ bytes' = Append(bytes, digit(rest))
          /\ rest' = rest \div 128
          /\ pc' = IF rest' > 0 THEN "encode" ELSE "body"
          /\ UNCHANGED <<size, written>>
      BY <1>4, <2>0 DEF mqtt_encode_length, MAX_LEN_BYTES
    <2>3. Short(M) /\ M' = M
      BY <1>1, <1>4, ReplyShort DEF filters, ReplyLen
    <2>4. rest \in Nat /\ rest' = M \div Weight(n + 2)
      <3>1. n + 1 \in 1..3 /\ (n + 1) + 1 = n + 2
        BY <2>0
      <3>2. /\ M \div Weight(n + 1) \in Nat
            /\ (M \div Weight(n + 1)) \div 128 = M \div Weight((n + 1) + 1)
        BY <2>3, <3>1, NextGroup
      <3> QED  BY <2>1, <2>2, <3>1, <3>2
    <2>5. digit(rest) \in Int
      <3>1. digit(rest) \in 0..255
        BY <2>4, DigitFacts
      <3> QED  BY <3>1
    <2>6. bytes' \in Seq(Int) /\ Len(bytes') = n + 1
      BY <2>1, <2>2, <2>5
    <2>7. CASE rest' > 0
      <3>1. n + 1 \in 0..2
        <4>1. CASE n = 2
          BY <4>1, <2>3, <2>4, <2>7 DEF Weight, Short
        <4> QED  BY <2>0, <4>1
      <3> QED  BY <1>4, <2>1, <2>2, <2>3, <2>4, <2>6, <2>7, <3>1 DEF Answer
    <2>8. CASE ~(rest' > 0)
      <3>1. rest' = 0 /\ pc' = "body"
        BY <2>2, <2>4, <2>8
      <3>2. Len(bytes') \in 1..3 /\ M' \div Weight(Len(bytes') + 1) = 0
        BY <2>0, <2>3, <2>4, <2>6, <3>1
      <3>3. Len(bytes') > 1 => M \div Weight(Len(bytes')) > 0
        BY <2>1, <2>6
      <3> QED  BY <1>4, <2>1, <2>2, <2>3, <2>6, <3>1, <3>2, <3>3 DEF Answer
    <2> QED  BY <2>7, <2>8
  <1>5. CASE connect_handler \/ unsubscribe_handler \/ publish_acked
    <2>1. ReplyLen = 2
      BY <1>5 DEF connect_handler, unsubscribe_handler, publish_acked, ReplyLen, Dispatched,
                  CONNECT, UNSUBSCRIBE, PUBLISH, SUBSCRIBE
    <2>2. start_reply(4, 2) /\ step = "handle" /\ UNCHANGED <<type, tuples>>
      BY <1>1, <1>5 DEF connect_handler, unsubscribe_handler, publish_acked, filters,
                        Dispatched, MQTT_ACK_LEN, MQTT_HEADER_LEN
    <2> QED  BY <2>1, <2>2, StartStep
  <1>6. CASE subscribe_handler
    <2>1. /\ step = "handle" /\ ReplyLen = 2 + Len(tuples)
          /\ UNCHANGED <<type, tuples>>
          /\ start_reply(suback_len(Len(tuples)), 2 + Len(tuples))
      BY <1>1, <1>6 DEF subscribe_handler, Dispatched, ReplyLen, filters
    <2>2. Len(tuples) \in Nat
      BY DEF Given
    <2>3. suback_len(Len(tuples)) = 2 + ReplyLen
      BY <2>1, <2>2 DEF suback_len, MQTT_HEADER_LEN
    <2> QED  BY <2>1, <2>3, StartStep
  <1>7. CASE pack_reply
    <2>1. /\ step = "pack" /\ step' = "done" /\ pc = "body" /\ pc' = "packed"
          /\ written = 1 /\ size = 2 + M /\ size' = size /\ tuples' = tuples
          /\ n \in 1..3
          /\ M \div Weight(n + 1) = 0
          /\ n > 1 => M \div Weight(n) > 0
      BY <1>7 DEF pack_reply, Answer, filters
    <2>2. written' = written + n + M
      BY <1>7 DEF pack_reply, ReplyLen
    <2>3. Short(M) /\ M < 65538 /\ M >= 2
      BY <2>1, ReplyShort DEF U16
    <2>4. n = IF M < 128 THEN 1 ELSE IF M < 16384 THEN 2 ELSE 3
      <3>1. CASE n = 1
        BY <2>1, <2>3, <3>1 DEF Weight, Short
      <3>2. CASE n = 2
        BY <2>1, <2>3, <3>2 DEF Weight, Short
      <3>3. CASE n = 3
        BY <2>1, <2>3, <3>3 DEF Weight, Short
      <3> QED  BY <2>1, <3>1, <3>2, <3>3
    <2>5. CASE type = SUBSCRIBE
      <3>1. M = 2 + Len(tuples) /\ Len(tuples) \in Nat
        BY <2>5 DEF ReplyLen, Given
      <3>2. n = 1 + MoreLengthBytes(Len(tuples))
        BY <2>4, <3>1 DEF MoreLengthBytes
      <3>3. MoreLengthBytes(Len(tuples)) \in Nat
        BY DEF MoreLengthBytes
      <3>4. written' = size' + MoreLengthBytes(Len(tuples))
        BY <2>1, <2>2, <3>1, <3>2, <3>3
      <3> QED  BY <1>1, <2>1, <2>5, <3>4 DEF Answer, ReplyFits
    <2>6. CASE type # SUBSCRIBE
      <3>1. M = 2 /\ n = 1
        BY <2>4, <2>6 DEF ReplyLen
      <3> QED  BY <1>1, <2>1, <2>2, <2>6, <3>1 DEF Answer, ReplyFits
    <2> QED  BY <2>5, <2>6
  <1>8. CASE UNCHANGED <<vars, tuples>> /\ step \in {"unpack", "handle"}
              /\ step' \notin {"pack"}
    BY <1>3, <1>8 DEF vars, Answer
  <1>9. CASE type = PUBLISH /\ step = "unpack" /\ Next
              /\ UNCHANGED <<request, step, filters, loop, live, twice>>
    <2>1. pc # "packed"
      BY <1>9 DEF Answer
    <2>2. pc' # "packed"
      BY <1>9, <2>1 DEF Next, pack_mqtt_publish, mqtt_encode_length, pack_body,
                       mqtt_decode_length, unpack_mqtt_publish
    <2> QED  BY <1>3, <1>9, <2>1, <2>2
  <1>10. CASE unpack_filter \/ unpack_behind \/ unpack_misread
    <2>1. UNCHANGED vars /\ step = "unpack" /\ step' # "pack"
      BY <1>10 DEF unpack_filter, unpack_behind, unpack_misread
    <2> QED  BY <1>3, <2>1 DEF vars, Answer
  <1> QED
    BY <1>2, <1>4, <1>5, <1>6, <1>7, <1>8, <1>9, <1>10
    DEF RequestsNext, allvars, filters, unpack_header, unpack_unknown,
        unpack_mqtt_connect, unpack_mqtt_ack, unpack_publish_strings,
        unpack_filters_end, connect_unnamed, connect_double, disconnect_handler,
        unhandled, subscribe_tuple, publish_qos0, Dispatched

\* A reply fills the buffer that is allocated for it and sent; for a SUBACK with more
\* than 125 codes it is one byte longer, with more than 16381 two.
THEOREM RepliesFit == RequestsSpec => []ReplyFits
  <1>1. RequestsInit => Answer
    BY DEF RequestsInit, Init, Answer
  <1>2. Answer => ReplyFits
    BY DEF Answer, ReplyFits
  <1> QED
    BY ReadingInit, ReadingStep, <1>1, AnswerStep, <1>2, PTL DEF RequestsSpec

-----------------------------------------------------------------------------
(* The PUBLISH codec as part of a request.                                 *)

\* The decoder's multiplier is the weight of a byte.
LEMMA CodecMultiplier == CInv => multiplier \in Nat /\ multiplier <= 2097152
  BY DEF CInv, Fresh, Weight

\* The codec works as on its own until a reply takes its variables.
LEMMA CodedStep == Coded /\ Answer /\ [RequestsNext]_allvars => Coded'
  <1> SUFFICES ASSUME Coded, Answer, [RequestsNext]_allvars PROVE Coded'
    OBVIOUS
  <1>1. type' = type
    BY PacketKept DEF request
  <1>2. CASE UNCHANGED vars /\ (step' = "unpack" => step = "unpack")
              /\ (step = "pack" => step' = "pack")
    <2>1. CInv => CInv'
      BY <1>2, CodecStep
    <2> QED  BY <1>1, <1>2, <2>1 DEF Coded, vars
  <1>3. CASE type = PUBLISH /\ step = "unpack" /\ Next /\ step' = step
    <2>1. CInv'
      BY <1>3, CodecStep DEF Coded
    <2>2. multiplier' \in Nat /\ multiplier' <= 2097152
      BY <2>1 DEF CInv, Fresh, Weight
    <2> QED  BY <1>1, <1>3, <2>1, <2>2 DEF Coded
  <1>4. CASE pc' \in {"encode", "body"} /\ step' = "pack" /\ multiplier' = multiplier
    BY <1>1, <1>4 DEF Coded
  <1>5. CASE pack_reply
    BY <1>1, <1>5 DEF pack_reply, Coded
  <1>6. CASE step = "pack" /\ mqtt_encode_length
              /\ UNCHANGED <<request, step, filters, loop, live, twice>>
    <2>1. pc' \in {"encode", "body"} /\ multiplier' = multiplier
      BY <1>6 DEF mqtt_encode_length
    <2> QED  BY <1>4, <1>6, <2>1
  <1>7. CASE connect_handler \/ subscribe_handler \/ unsubscribe_handler \/ publish_acked
    BY <1>4, <1>7
    DEF connect_handler, subscribe_handler, unsubscribe_handler, publish_acked, start_reply
  <1> QED
    BY <1>2, <1>3, <1>5, <1>6, <1>7
    DEF RequestsNext, allvars, unpack_header, unpack_unknown,
        unpack_mqtt_connect, unpack_mqtt_ack, unpack_publish_strings, unpack_filter,
        unpack_behind, unpack_misread, unpack_filters_end, connect_unnamed,
        connect_double, disconnect_handler, unhandled, subscribe_tuple, publish_qos0,
        Dispatched

\* What is said of the PUBLISH codec alone holds of it within a request, whose reply
\* takes the same loop for its length: the buffer is filled, the decoder stays within
\* the bytes that were written, and the lengths come out as they went in.
THEOREM RequestsCodec == RequestsSpec => [](FillsBuffer /\ DecodeInBounds /\ RoundTrip)
  <1>1. RequestsInit => Answer /\ Coded
    <2> SUFFICES ASSUME RequestsInit PROVE Answer /\ Coded
      OBVIOUS
    <2>1. Answer
      BY DEF RequestsInit, Init, Answer
    <2>2. CASE type = PUBLISH
      <3>1. CInv
        BY <2>2, CodecInit DEF RequestsInit
      <3> QED  BY <2>1, <2>2, <3>1, CodecMultiplier DEF Coded
    <2>3. CASE type # PUBLISH
      BY <2>1, <2>3 DEF RequestsInit, Coded
    <2> QED  BY <2>2, <2>3
  <1>2. Coded => FillsBuffer /\ DecodeInBounds /\ RoundTrip
    <2> SUFFICES ASSUME Coded PROVE FillsBuffer /\ DecodeInBounds /\ RoundTrip
      OBVIOUS
    <2>1. CInv => FillsBuffer /\ RoundTrip /\ (pc = "decode" => pos < Len(bytes))
      BY DEF CInv, FillsBuffer, RoundTrip, L, Complete
    <2>2. multiplier < 268435456 * 2
      BY DEF Coded
    <2> QED  BY <2>1, <2>2 DEF Coded, FillsBuffer, RoundTrip, DecodeInBounds
  <1> QED
    BY ReadingInit, ReadingStep, AnswerStep, <1>1, CodedStep, <1>2, PTL DEF RequestsSpec

=============================================================================
