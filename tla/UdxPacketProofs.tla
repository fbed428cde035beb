--------------------------- MODULE UdxPacketProofs ---------------------------
(***************************************************************************)
(* Theorems about src/packet.rs.  Its headers and packets (UdxHeader):     *)
(* what is encoded is decoded.  Its packet sets and their way through the  *)
(* send path (UdxBatch): every datagram on the wire is one packet, whole,  *)
(* in the order of the queue, and none is lost on the way, for any sizes   *)
(* of packets, limits of segments, numbers of packets and retransmissions. *)
(***************************************************************************)
EXTENDS UdxHeader, UdxBatch, SequenceTheorems, TLAPS

-----------------------------------------------------------------------------
(* Lemmas about bytes *)

\* A number is its lowest byte and the rest.
LEMMA Split ==
  ASSUME NEW n \in Nat
  PROVE  /\ n \div BYTE \in Nat /\ n % BYTE \in U8
         /\ (n % BYTE) + BYTE * (n \div BYTE) = n
BY SMT DEF U8, BYTE

\* A byte and the rest make a number with that lowest byte and that rest.
LEMMA Join ==
  ASSUME NEW a \in U8, NEW m \in Nat
  PROVE  /\ a + BYTE * m \in Nat
         /\ (a + BYTE * m) % BYTE = a /\ (a + BYTE * m) \div BYTE = m
BY SMT DEF U8, BYTE

\* The limits of numbers with one byte more.
LEMMA Limit ==
  ASSUME NEW a \in U8, NEW m \in Nat, NEW k \in Nat
  PROVE  m < k <=> a + BYTE * m < BYTE * k
BY SMT DEF U8, BYTE

\* A number below 256 is a byte, and `as u8` keeps it.
LEMMA Small ==
  ASSUME NEW m \in Nat, m < BYTE
  PROVE  m % BYTE = m /\ m \in U8
BY SMT DEF U8, BYTE

\* A byte fits wherever a field does.
LEMMA ByteFits ==
  ASSUME NEW a \in U8
  PROVE  a % BYTE = a /\ a \in U32 /\ a \in Nat
<1>1. a % BYTE = a /\ a \in Nat
  BY SMT DEF U8, BYTE
<1>2. a < BYTE * (BYTE * (BYTE * BYTE))
  BY SMT DEF U8, BYTE
<1> QED BY Zenon, <1>1, <1>2 DEF U32

\* to_le_bytes gives bytes, and from_le_bytes undoes it.
LEMMA LeBytes ==
  ASSUME NEW n \in U32
  PROVE  /\ Le0(n) \in U8 /\ Le1(n) \in U8 /\ Le2(n) \in U8 /\ Le3(n) \in U8
         /\ FromLe(Le0(n), Le1(n), Le2(n), Le3(n)) = n
<1> DEFINE x == n \div BYTE
           y == x \div BYTE
           z == y \div BYTE
           B2 == BYTE * BYTE
           B3 == BYTE * B2
<1>0. BYTE \in Nat /\ B2 \in Nat /\ B3 \in Nat
  BY SMT DEF BYTE
<1>1. n \in Nat /\ n < BYTE * B3
  BY Zenon DEF U32
<1> HIDE DEF x, y, z, B2, B3
<1>2. (n % BYTE) + BYTE * x = n /\ n % BYTE \in U8 /\ x \in Nat
  BY Zenon, <1>1, Split DEF x
<1>3. (x % BYTE) + BYTE * y = x /\ x % BYTE \in U8 /\ y \in Nat
  BY Zenon, <1>2, Split DEF y
<1>4. (y % BYTE) + BYTE * z = y /\ y % BYTE \in U8 /\ z \in Nat
  BY Zenon, <1>3, Split DEF z
<1>5. x < B3
  BY Zenon, <1>0, <1>1, <1>2, Limit
<1>6. y < B2
  <2>1. x < BYTE * B2
    BY Zenon, <1>5 DEF B3
  <2> QED BY Zenon, <1>0, <1>3, <2>1, Limit
<1>7. z < BYTE
  <2>1. y < BYTE * BYTE
    BY Zenon, <1>6 DEF B2
  <2> QED BY Zenon, <1>0, <1>4, <2>1, Limit
<1>8. z % BYTE = z /\ z \in U8
  BY Zenon, <1>4, <1>7, Small
<1>9. Le0(n) = n % BYTE /\ Le1(n) = x % BYTE /\ Le2(n) = y % BYTE /\ Le3(n) = z % BYTE
  BY Zenon DEF Le0, Le1, Le2, Le3, x, y, z
<1>10. FromLe(n % BYTE, x % BYTE, y % BYTE, z) = n
  BY Zenon, <1>2, <1>3, <1>4 DEF FromLe
<1> QED BY Zenon, <1>2, <1>3, <1>4, <1>8, <1>9, <1>10

\* a, b, c and d are the little-endian bytes of the u32 n.
LittleEndian(n, a, b, c, d) ==
  n \in U32 /\ Le0(n) = a /\ Le1(n) = b /\ Le2(n) = c /\ Le3(n) = d

\* Four bytes are the little-endian bytes of a u32, and of one only.
LEMMA BytesLe ==
  ASSUME NEW a \in U8, NEW b \in U8, NEW c \in U8, NEW d \in U8
  PROVE  LittleEndian(FromLe(a, b, c, d), a, b, c, d)
<1> DEFINE y == c + BYTE * d
           x == b + BYTE * y
           n == a + BYTE * x
           B2 == BYTE * BYTE
           B3 == BYTE * B2
<1>0. BYTE \in Nat /\ B2 \in Nat /\ B3 \in Nat
  BY SMT DEF BYTE
<1>1. d \in Nat /\ d % BYTE = d /\ d < BYTE
  BY SMT DEF U8, BYTE
<1> HIDE DEF x, y, n, B2, B3
<1>2. y \in Nat /\ y % BYTE = c /\ y \div BYTE = d
  BY Zenon, <1>1, Join DEF y
<1>3. x \in Nat /\ x % BYTE = b /\ x \div BYTE = y
  BY Zenon, <1>2, Join DEF x
<1>4. n \in Nat /\ n % BYTE = a /\ n \div BYTE = x
  BY Zenon, <1>3, Join DEF n
<1>5. y < B2
  BY Zenon, <1>0, <1>1, Limit DEF y, B2
<1>6. x < B3
  BY Zenon, <1>0, <1>2, <1>5, Limit DEF x, B3
<1>7. n < BYTE * B3
  BY Zenon, <1>0, <1>3, <1>6, Limit DEF n
<1>8. n \in U32
  BY Zenon, <1>4, <1>7 DEF U32, B3, B2
<1>9. Le0(n) = a /\ Le1(n) = b /\ Le2(n) = c /\ Le3(n) = d
  BY Zenon, <1>1, <1>2, <1>3, <1>4 DEF Le0, Le1, Le2, Le3
<1>10. FromLe(a, b, c, d) = n
  BY Zenon DEF FromLe, n, x, y
<1> QED BY Zenon, <1>8, <1>9, <1>10 DEF LittleEndian

\* A buffer in numbers: its length, its bytes and what it is.
LEMMA Buffer ==
  ASSUME NEW S, NEW buf \in Seq(S)
  PROVE  /\ Len(buf) \in Nat /\ \A i \in 1 .. Len(buf) : buf[i] \in S
         /\ buf = [i \in 1 .. Len(buf) |-> buf[i]]
BY SMT

\* The twenty bytes of a header.
LEMMA TwentyBytes ==
  ASSUME NEW h, NEW b, b = HeaderBytes(h)
  PROVE  /\ b[1] = UDX_MAGIC_BYTE /\ b[2] = UDX_VERSION
         /\ b[3] = h.typ % BYTE /\ b[4] = h.data_offset % BYTE
         /\ b[5] = Le0(h.stream_id) /\ b[6] = Le1(h.stream_id)
         /\ b[7] = Le2(h.stream_id) /\ b[8] = Le3(h.stream_id)
         /\ b[9] = Le0(h.recv_win) /\ b[10] = Le1(h.recv_win)
         /\ b[11] = Le2(h.recv_win) /\ b[12] = Le3(h.recv_win)
         /\ b[13] = Le0(h.seq) /\ b[14] = Le1(h.seq)
         /\ b[15] = Le2(h.seq) /\ b[16] = Le3(h.seq)
         /\ b[17] = Le0(h.ack) /\ b[18] = Le1(h.ack)
         /\ b[19] = Le2(h.ack) /\ b[20] = Le3(h.ack)
BY SMT DEF HeaderBytes

\* read_u32_le of bytes that to_le_bytes wrote.
LEMMA ReadBack ==
  ASSUME NEW d, NEW k \in Nat, NEW n \in U32,
         d[k] = Le0(n), d[k + 1] = Le1(n), d[k + 2] = Le2(n), d[k + 3] = Le3(n)
  PROVE  ReadU32(d, k) = n
BY Zenon, LeBytes DEF ReadU32

\* from_bytes finds the header whose bytes a buffer begins with.
LEMMA Decoded ==
  ASSUME NEW d, NEW h \in Created,
         \A i \in 1 .. UDX_HEADER_SIZE : d[i] = HeaderBytes(h)[i]
  PROVE  /\ d[1] = UDX_MAGIC_BYTE /\ d[2] = UDX_VERSION
         /\ FromBytes(d) = h
<1> DEFINE b == HeaderBytes(h)
<1>1. /\ d[1] = b[1] /\ d[2] = b[2] /\ d[3] = b[3] /\ d[4] = b[4]
      /\ d[5] = b[5] /\ d[6] = b[6] /\ d[7] = b[7] /\ d[8] = b[8]
      /\ d[9] = b[9] /\ d[10] = b[10] /\ d[11] = b[11] /\ d[12] = b[12]
      /\ d[13] = b[13] /\ d[14] = b[14] /\ d[15] = b[15] /\ d[16] = b[16]
      /\ d[17] = b[17] /\ d[18] = b[18] /\ d[19] = b[19] /\ d[20] = b[20]
  BY SMT DEF UDX_HEADER_SIZE
<1>2. /\ h.stream_id \in U32 /\ h.recv_win \in U32 /\ h.seq \in U32 /\ h.ack \in U32
      /\ h.typ \in U8 /\ h.data_offset \in U8
  BY Zenon DEF Created, Header
<1>3. h.typ % BYTE = h.typ /\ h.data_offset % BYTE = h.data_offset
  BY SMTT(30), <1>2 DEF U8, BYTE
<1>4. ReadU32(d, 5) = h.stream_id
  BY SMT, <1>1, <1>2, TwentyBytes, ReadBack
<1>5. ReadU32(d, 9) = h.recv_win
  BY SMT, <1>1, <1>2, TwentyBytes, ReadBack
<1>6. ReadU32(d, 13) = h.seq
  BY SMT, <1>1, <1>2, TwentyBytes, ReadBack
<1>7. ReadU32(d, 17) = h.ack
  BY SMT, <1>1, <1>2, TwentyBytes, ReadBack
<1>8. d[1] = UDX_MAGIC_BYTE /\ d[2] = UDX_VERSION /\ d[3] = h.typ /\ d[4] = h.data_offset
  BY SMT, <1>1, <1>3, TwentyBytes
<1>9. h = [typ |-> h.typ, data_offset |-> h.data_offset, stream_id |-> h.stream_id,
           recv_win |-> h.recv_win, seq |-> h.seq, ack |-> h.ack]
  BY SMT DEF Created, Header
<1> QED BY Zenon, <1>4, <1>5, <1>6, <1>7, <1>8, <1>9 DEF FromBytes

\* d is buf with the bytes of the header h written over its first twenty.
Written(h, buf, d) ==
  /\ d = [i \in 1 .. Len(buf) |-> d[i]]
  /\ \A i \in 1 .. UDX_HEADER_SIZE : d[i] = HeaderBytes(h)[i]
  /\ \A i \in 1 .. Len(buf) : i > UDX_HEADER_SIZE => d[i] = buf[i]

\* What encode writes: the twenty bytes of the header, and nothing after them.
LEMMA Encoded ==
  ASSUME NEW h, NEW S, NEW buf \in Seq(S), Len(buf) >= UDX_HEADER_SIZE
  PROVE  Written(h, buf, Encode(h, buf))
<1> DEFINE b == HeaderBytes(h)
           d == Encode(h, buf)
           m == Len(buf)
<1>1. m \in Nat /\ ~(m < UDX_HEADER_SIZE)
  BY SMT DEF UDX_HEADER_SIZE
<1>2. d = [i \in 1 .. m |-> IF i <= UDX_HEADER_SIZE THEN b[i] ELSE buf[i]]
  BY Zenon, <1>1 DEF Encode
<1> HIDE DEF b, d, m
<1>3. \A i \in 1 .. m : d[i] = IF i <= UDX_HEADER_SIZE THEN b[i] ELSE buf[i]
  BY Zenon, <1>2
<1>4. d = [i \in 1 .. m |-> d[i]]
  BY SMT, <1>2
<1>5. \A i \in 1 .. UDX_HEADER_SIZE : i \in 1 .. m /\ i <= UDX_HEADER_SIZE
  BY SMT, <1>1 DEF UDX_HEADER_SIZE
<1>6. \A i \in 1 .. m : i > UDX_HEADER_SIZE => ~(i <= UDX_HEADER_SIZE)
  BY SMT, <1>1 DEF UDX_HEADER_SIZE
<1> QED BY Zenon, <1>3, <1>4, <1>5, <1>6 DEF Written, b, d, m

-----------------------------------------------------------------------------
(* Theorems *)

\* Header::from_bytes gives back every header create_header makes that
\* Header::encode wrote, whatever the buffer held before and holds after it.
THEOREM HeaderRoundTrip ==
  ASSUME NEW h \in Created, NEW buf \in Seq(U8), Len(buf) >= UDX_HEADER_SIZE
  PROVE  IsUdx(Encode(h, buf)) /\ FromBytes(Encode(h, buf)) = h
<1> DEFINE d == Encode(h, buf)
<1> HIDE DEF d
<1>1. /\ d = [i \in 1 .. Len(buf) |-> d[i]]
      /\ \A i \in 1 .. UDX_HEADER_SIZE : d[i] = HeaderBytes(h)[i]
  BY Zenon, Encoded DEF Written, d
<1>2. d[1] = UDX_MAGIC_BYTE /\ d[2] = UDX_VERSION /\ FromBytes(d) = h
  BY Zenon, <1>1, Decoded
<1>3. Len(buf) \in Nat
  BY Zenon, Buffer
<1>4. Len(d) = Len(buf)
  BY SMT, <1>1, <1>3
<1>5. IsUdx(d)
  BY Zenon, <1>2, <1>4 DEF IsUdx
<1> QED BY Zenon, <1>2, <1>5 DEF d

\* A datagram Packet::new makes is a packet to process_packet at the other
\* end, which finds in it the header and, behind it, the body.
THEOREM PacketRoundTrip ==
  ASSUME NEW h \in Created, NEW body \in Seq(U8)
  PROVE  LET data == NewPacket(h, body)
         IN  IsUdx(data) /\ FromBytes(data) = h /\ Body(data) = body
<1> DEFINE n == UDX_HEADER_SIZE + Len(body)
           zeroed == [i \in 1 .. n |-> 0]
           e == Encode(h, zeroed)
           data == NewPacket(h, body)
<1>1. n \in Nat /\ n >= UDX_HEADER_SIZE /\ Len(body) \in Nat
  BY SMT DEF UDX_HEADER_SIZE
<1>2. data = [i \in 1 .. n |-> IF i <= UDX_HEADER_SIZE THEN e[i] ELSE body[i - UDX_HEADER_SIZE]]
  BY Zenon DEF NewPacket
<1>3. zeroed \in Seq(Nat) /\ Len(zeroed) = n
  <2> HIDE DEF n
  <2> QED BY SMT, <1>1
<1> HIDE DEF zeroed
<1>0. Len(zeroed) >= UDX_HEADER_SIZE
  BY Zenon, <1>1, <1>3
<1> HIDE DEF e, data
<1>4. \A i \in 1 .. UDX_HEADER_SIZE : e[i] = HeaderBytes(h)[i]
  BY Zenon, <1>0, <1>3, Encoded DEF Written, e
<1>5. \A i \in 1 .. UDX_HEADER_SIZE : data[i] = HeaderBytes(h)[i]
  <2>1. \A i \in 1 .. UDX_HEADER_SIZE : i \in 1 .. n /\ i <= UDX_HEADER_SIZE
    <3> HIDE DEF n
    <3> QED BY SMT, <1>1 DEF UDX_HEADER_SIZE
  <2> HIDE DEF n
  <2> QED BY Zenon, <1>2, <1>4, <2>1
<1>6. data[1] = UDX_MAGIC_BYTE /\ data[2] = UDX_VERSION /\ FromBytes(data) = h
  BY Zenon, <1>5, Decoded
<1>7. Len(data) = n
  BY SMT, <1>1, <1>2
<1>8. IsUdx(data)
  BY Zenon, <1>1, <1>6, <1>7 DEF IsUdx
<1>9. Body(data) = [i \in 1 .. Len(body) |-> body[i]]
  BY SMT, <1>1, <1>2, <1>7 DEF Body, UDX_HEADER_SIZE
<1>10. Body(data) = body
  BY Zenon, <1>9, Buffer
<1> QED BY Zenon, <1>6, <1>8, <1>10 DEF data

\* The header from_bytes accepts holds every byte it read: encoding it again
\* over the same buffer changes nothing, so no two buffers that differ in
\* their first twenty bytes give the same header.
THEOREM NothingLost ==
  ASSUME NEW buf \in Seq(U8), IsUdx(buf)
  PROVE  FromBytes(buf) \in Created /\ Encode(FromBytes(buf), buf) = buf
<1> DEFINE h == FromBytes(buf)
           d == Encode(h, buf)
<1>1. /\ Len(buf) \in Nat /\ Len(buf) >= UDX_HEADER_SIZE
      /\ buf[1] = UDX_MAGIC_BYTE /\ buf[2] = UDX_VERSION
  BY Buffer DEF IsUdx
<1>2. \A i \in 1 .. 20 : buf[i] \in U8
  <2>1. \A i \in 1 .. 20 : i \in 1 .. Len(buf)
    BY SMT, <1>1 DEF UDX_HEADER_SIZE
  <2> QED BY Zenon, <2>1, Buffer
<1>3. /\ h.typ = buf[3] /\ h.data_offset = buf[4]
      /\ h.stream_id = FromLe(buf[5], buf[6], buf[7], buf[8])
      /\ h.recv_win = FromLe(buf[9], buf[10], buf[11], buf[12])
      /\ h.seq = FromLe(buf[13], buf[14], buf[15], buf[16])
      /\ h.ack = FromLe(buf[17], buf[18], buf[19], buf[20])
  BY SMT DEF FromBytes, ReadU32
<1>4. h = [typ |-> h.typ, data_offset |-> h.data_offset, stream_id |-> h.stream_id,
           recv_win |-> h.recv_win, seq |-> h.seq, ack |-> h.ack]
  BY Zenon DEF FromBytes
<1> HIDE DEF h
<1>5. /\ h.stream_id \in U32
      /\ Le0(h.stream_id) = buf[5] /\ Le1(h.stream_id) = buf[6]
      /\ Le2(h.stream_id) = buf[7] /\ Le3(h.stream_id) = buf[8]
  <2>1. buf[5] \in U8 /\ buf[6] \in U8 /\ buf[7] \in U8 /\ buf[8] \in U8
    BY SMT, <1>2
  <2>2. h.stream_id = FromLe(buf[5], buf[6], buf[7], buf[8])
    BY Zenon, <1>3
  <2>3. LittleEndian(FromLe(buf[5], buf[6], buf[7], buf[8]),
                     buf[5], buf[6], buf[7], buf[8])
    BY Zenon, <2>1, BytesLe
  <2> QED BY Zenon, <2>2, <2>3 DEF LittleEndian
<1>6. /\ h.recv_win \in U32
      /\ Le0(h.recv_win) = buf[9] /\ Le1(h.recv_win) = buf[10]
      /\ Le2(h.recv_win) = buf[11] /\ Le3(h.recv_win) = buf[12]
  <2>1. buf[9] \in U8 /\ buf[10] \in U8 /\ buf[11] \in U8 /\ buf[12] \in U8
    BY SMT, <1>2
  <2>2. h.recv_win = FromLe(buf[9], buf[10], buf[11], buf[12])
    BY Zenon, <1>3
  <2>3. LittleEndian(FromLe(buf[9], buf[10], buf[11], buf[12]),
                     buf[9], buf[10], buf[11], buf[12])
    BY Zenon, <2>1, BytesLe
  <2> QED BY Zenon, <2>2, <2>3 DEF LittleEndian
<1>7. /\ h.seq \in U32
      /\ Le0(h.seq) = buf[13] /\ Le1(h.seq) = buf[14]
      /\ Le2(h.seq) = buf[15] /\ Le3(h.seq) = buf[16]
  <2>1. buf[13] \in U8 /\ buf[14] \in U8 /\ buf[15] \in U8 /\ buf[16] \in U8
    BY SMT, <1>2
  <2>2. h.seq = FromLe(buf[13], buf[14], buf[15], buf[16])
    BY Zenon, <1>3
  <2>3. LittleEndian(FromLe(buf[13], buf[14], buf[15], buf[16]),
                     buf[13], buf[14], buf[15], buf[16])
    BY Zenon, <2>1, BytesLe
  <2> QED BY Zenon, <2>2, <2>3 DEF LittleEndian
<1>8. /\ h.ack \in U32
      /\ Le0(h.ack) = buf[17] /\ Le1(h.ack) = buf[18]
      /\ Le2(h.ack) = buf[19] /\ Le3(h.ack) = buf[20]
  <2>1. buf[17] \in U8 /\ buf[18] \in U8 /\ buf[19] \in U8 /\ buf[20] \in U8
    BY SMT, <1>2
  <2>2. h.ack = FromLe(buf[17], buf[18], buf[19], buf[20])
    BY Zenon, <1>3
  <2>3. LittleEndian(FromLe(buf[17], buf[18], buf[19], buf[20]),
                     buf[17], buf[18], buf[19], buf[20])
    BY Zenon, <2>1, BytesLe
  <2> QED BY Zenon, <2>2, <2>3 DEF LittleEndian
<1>9. /\ h.typ \in U8 /\ h.typ \in U32 /\ h.typ % BYTE = buf[3]
      /\ h.data_offset \in U8 /\ h.data_offset \in Nat /\ h.data_offset % BYTE = buf[4]
  <2>1. buf[3] \in U8 /\ buf[4] \in U8
    BY SMT, <1>2
  <2> QED BY Zenon, <1>3, <2>1, ByteFits
<1>10. h \in Created
  <2>1. h \in Header
    BY SMT, <1>4, <1>5, <1>6, <1>7, <1>8, <1>9 DEF Header
  <2> QED BY Zenon, <1>9, <2>1 DEF Created
<1>11. /\ d = [i \in 1 .. Len(buf) |-> d[i]]
       /\ \A i \in 1 .. UDX_HEADER_SIZE : d[i] = HeaderBytes(h)[i]
       /\ \A i \in 1 .. Len(buf) : i > UDX_HEADER_SIZE => d[i] = buf[i]
  <2>1. Written(h, buf, d)
    BY Zenon, <1>1, Encoded
  <2> HIDE DEF d
  <2> QED BY Zenon, <2>1 DEF Written
<1> HIDE DEF d
<1> DEFINE b == HeaderBytes(h)
<1>12. /\ b[1] = buf[1] /\ b[2] = buf[2] /\ b[3] = buf[3] /\ b[4] = buf[4]
       /\ b[5] = buf[5] /\ b[6] = buf[6] /\ b[7] = buf[7] /\ b[8] = buf[8]
       /\ b[9] = buf[9] /\ b[10] = buf[10] /\ b[11] = buf[11] /\ b[12] = buf[12]
       /\ b[13] = buf[13] /\ b[14] = buf[14] /\ b[15] = buf[15] /\ b[16] = buf[16]
       /\ b[17] = buf[17] /\ b[18] = buf[18] /\ b[19] = buf[19] /\ b[20] = buf[20]
  BY SMTT(30), <1>1, <1>5, <1>6, <1>7, <1>8, <1>9, TwentyBytes
<1>13. \A i \in 1 .. Len(buf) : d[i] = buf[i]
  <2> SUFFICES ASSUME NEW i \in 1 .. Len(buf) PROVE d[i] = buf[i]
    OBVIOUS
  <2> HIDE DEF b
  <2>1. CASE i > UDX_HEADER_SIZE
    BY Zenon, <1>11, <2>1
  <2>2. CASE ~(i > UDX_HEADER_SIZE)
    <3>1. i \in 1 .. UDX_HEADER_SIZE
      BY SMT, <1>1, <2>2 DEF UDX_HEADER_SIZE
    <3>2. d[i] = b[i]
      BY Zenon, <1>11, <3>1 DEF b
    <3>3. b[i] = buf[i]
      <4>1. \/ i \in {1, 2, 3, 4, 5} \/ i \in {6, 7, 8, 9, 10}
            \/ i \in {11, 12, 13, 14, 15} \/ i \in {16, 17, 18, 19, 20}
        BY SMT, <3>1 DEF UDX_HEADER_SIZE
      <4> QED BY Zenon, <1>12, <4>1
    <3> QED BY <3>2, <3>3
  <2> QED BY <2>1, <2>2
<1>14. d = [i \in 1 .. Len(buf) |-> buf[i]]
  BY SMT, <1>11, <1>13
<1>15. d = buf
  BY Zenon, <1>14, Buffer
<1> QED BY Zenon, <1>10, <1>15 DEF d, h

-----------------------------------------------------------------------------
(* The invariant of the send path *)

Byte == Nat \X Nat
Set == [packets : Seq(Nat), segment_size : Nat]

QueueTypes ==
  /\ size \in Seq(Nat \ {0}) /\ queued \in Seq(Nat) /\ send_queue \in Seq(Nat)
  /\ \A r \in 1 .. Len(queued) : queued[r] \in 1 .. Len(size)

CollectTypes ==
  collect \in [running : BOOLEAN, max_segments : Nat, queue : Seq(Nat), segment_size : Nat]

CopyTypes ==
  copy \in [running : BOOLEAN, packets : Seq(Nat), segment_size : Nat,
            next : Nat \ {0}, buf : Seq(Byte)]

TypeInv ==
  /\ QueueTypes /\ CollectTypes /\ send_rx \in Seq(Set) /\ CopyTypes
  /\ given_up \in BOOLEAN /\ max_gso_segments \in Nat

\* refs are the references after the a-th, up to the b-th, one by one.
Run(refs, a, b) == Len(refs) = b - a /\ \A i \in 1 .. Len(refs) : refs[i] = a + i

\* Their packets have the size n.
Even(refs, n) ==
  \A i \in 1 .. Len(refs) : refs[i] \in 1 .. Len(queued) /\ BufLen(refs[i]) = n

SetOK(set, a, b) ==
  Run(set.packets, a, b) /\ Even(set.packets, set.segment_size) /\ set.packets # <<>>

\* The sets in the channel follow on one another, at the cuts c.
Chain(c) ==
  /\ c \in [0 .. Len(send_rx) -> Nat]
  /\ \A i \in 0 .. Len(send_rx) : c[i] <= Len(queued)
  /\ \A i \in 1 .. Len(send_rx) : SetOK(send_rx[i], c[i - 1], c[i])
  /\ \A r \in (c[0] + 1) .. c[Len(send_rx)] :
       \E i \in 1 .. Len(send_rx) : r \in (c[i - 1] + 1) .. c[i]

\* The references that poll_transmit has popped.
Popped == Len(queued) - Len(send_queue)

\* What is being collected follows on the sets, and send_queue on that.
Collecting(b) ==
  /\ Popped \in Nat /\ Run(send_queue, Popped, Len(queued))
  /\ Run(collect.queue, b, Popped) /\ Even(collect.queue, collect.segment_size)
  /\ ~collect.running => collect.queue = <<>>

\* The buffer holds the packets of kept, which are the references after lo, up to
\* hi, without some whose packet is to be skipped.
Holds(kept, lo, hi) ==
  /\ kept \in Seq(Nat) /\ Len(copy.buf) = Len(kept) * copy.segment_size
  /\ \A i \in 1 .. Len(kept) : kept[i] \in (lo + 1) .. hi
  /\ \A i, j \in 1 .. Len(kept) : i < j => kept[i] < kept[j]
  /\ \A i \in 1 .. Len(kept) : \A j \in 1 .. copy.segment_size :
       copy.buf[(i - 1) * copy.segment_size + j] = <<kept[i], j>>
  /\ \A r \in (lo + 1) .. hi :
       queued[r] \in skip \/ \E i \in 1 .. Len(kept) : kept[i] = r

\* The set that is being copied comes before those in the channel.
Copying(done, a) ==
  /\ Run(copy.packets, done, a) /\ Even(copy.packets, copy.segment_size)
  /\ copy.next <= Len(copy.packets) + 1
  /\ copy.running <=> copy.packets # <<>>
  /\ \E kept : Holds(kept, done, done + copy.next - 1)

\* What is on the wire comes before that.
OnWire(done) ==
  /\ wire \in Seq(Seq(Byte))
  /\ \A i \in 1 .. Len(wire) : wire[i] = <<>> \/ \E r \in 1 .. done : wire[i] = Bytes(r)
  /\ SentInOrder
  /\ ~given_up => \A r \in 1 .. done :
       queued[r] \in skip \/ \E i \in 1 .. Len(wire) : wire[i] = Bytes(r)

Placed(done, c) ==
  Chain(c) /\ Collecting(c[Len(send_rx)]) /\ Copying(done, c[0]) /\ OnWire(done)

BatchInv == TypeInv /\ \E done \in Nat : \E c : Placed(done, c)

-----------------------------------------------------------------------------
(* Arithmetic of segments *)

\* Multiples of a size are ordered as their factors.
LEMMA Multiples ==
  ASSUME NEW a \in Int, NEW b \in Int, NEW n \in Nat, n # 0
  PROVE  /\ a < b <=> a * n < b * n
         /\ (a - 1) * n = a * n - n /\ (a + 1) * n = a * n + n
         /\ a * n \in Int
PROOF
<1>1. (a - 1) * n = a * n - n OBVIOUS
<1>2. (a + 1) * n = a * n + n OBVIOUS
<1>3. a * n \in Int OBVIOUS
<1>4. ASSUME NEW x \in Int, NEW y \in Int, x < y PROVE x * n < y * n
  <2>1. y * n = x * n + (y - x) * n OBVIOUS
  <2>2. (y - x) * n > 0 BY <1>4
  <2> QED BY <2>1, <2>2
<1>5. ASSUME a * n < b * n PROVE a < b
  <2>1. ~ (b < a) BY <1>4, <1>5
  <2>2. a # b BY <1>5
  <2> QED BY <2>1, <2>2
<1> QED BY <1>1, <1>2, <1>3, <1>4, <1>5

\* The k pieces of n bytes that buf consists of.
CutInto(pieces, buf, n, k) ==
  /\ Len(pieces) = k
  /\ \A i \in 1 .. k : /\ Len(pieces[i]) = n
                       /\ \A j \in 1 .. n : pieces[i][j] = buf[(i - 1) * n + j]

\* The kernel cuts k packets of n bytes into k pieces of n bytes.
LEMMA Cutting ==
  ASSUME NEW S, NEW buf \in Seq(S), NEW n \in Nat \ {0}, NEW k \in Nat,
         Len(buf) = k * n, k > 1
  PROVE  Segments(buf, n) \in Seq(Seq(S)) /\ CutInto(Segments(buf, n), buf, n, k)
PROOF
<1> DEFINE Piece(i) == SubSeq(buf, (i - 1) * n + 1, IF i * n < Len(buf) THEN i * n ELSE Len(buf))
<1>1. n < k * n /\ k <= k * n
  <2>1. 1 * n < k * n BY Multiples
  <2>2. k <= k * n OBVIOUS
  <2> QED BY <2>1, <2>2
<1>2. {i \in 1 .. Len(buf) : (i - 1) * n < Len(buf)} = 1 .. k
  <2>1. ASSUME NEW i \in Int PROVE (i - 1) * n < k * n <=> i <= k
    <3>1. i - 1 < k <=> (i - 1) * n < k * n BY Multiples
    <3> QED BY <3>1
  <2> QED BY <1>1, <2>1
<1>3. Segments(buf, n) = [i \in 1 .. k |-> Piece(i)]
  <2>1. ~ (n = 0 \/ Len(buf) <= n) BY <1>1
  <2>2. Segments(buf, n) = [i \in {i \in 1 .. Len(buf) : (i - 1) * n < Len(buf)} |-> Piece(i)]
    BY ZenonT(30), <2>1 DEF Segments
  <2> QED BY ZenonT(30), <1>2, <2>2
<1>4. ASSUME NEW i \in 1 .. k
      PROVE  /\ Piece(i) \in Seq(S) /\ Len(Piece(i)) = n
             /\ \A j \in 1 .. n : Piece(i)[j] = buf[(i - 1) * n + j]
  <2>1. /\ (i - 1) * n = i * n - n /\ i * n \in Int
        /\ i < k <=> i * n < k * n
    BY Multiples
  <2>2. 0 <= (i - 1) * n /\ i * n <= k * n
    <3>1. i < k \/ i = k OBVIOUS
    <3>2. 0 <= (i - 1) * n OBVIOUS
    <3> QED BY <2>1, <3>1, <3>2
  <2>3. Piece(i) = SubSeq(buf, (i - 1) * n + 1, i * n)
    <3>1. i * n < Len(buf) \/ i * n = Len(buf) BY <2>1
    <3> QED BY <3>1
  <2> DEFINE lo == (i - 1) * n
             hi == i * n
  <2>4. lo \in Nat /\ hi \in Nat /\ hi = lo + n /\ hi <= Len(buf)
    BY <2>1, <2>2
  <2> HIDE DEF lo, hi, Piece
  <2>5. \A m \in (lo + 1) .. hi : buf[m] \in S BY <2>4
  <2>6. /\ SubSeq(buf, lo + 1, hi) \in Seq(S) /\ Len(SubSeq(buf, lo + 1, hi)) = hi - (lo + 1) + 1
        /\ \A j \in 1 .. hi - (lo + 1) + 1 : SubSeq(buf, lo + 1, hi)[j] = buf[lo + 1 + j - 1]
    <3>1. lo + 1 \in Int /\ hi \in Int /\ lo + 1 <= hi BY <2>4
    <3> QED BY SMTT(30), <2>5, <3>1, SubSeqProperties
  <2>7. Piece(i) = SubSeq(buf, lo + 1, hi) BY <2>3 DEF lo, hi
  <2>8. hi - (lo + 1) + 1 = n /\ \A j \in 1 .. n : lo + 1 + j - 1 = lo + j BY <2>4
  <2> QED BY <2>6, <2>7, <2>8 DEF lo
<1> HIDE DEF Piece
<1>5. [i \in 1 .. k |-> Piece(i)] \in Seq(Seq(S))
  BY <1>4
<1> QED BY <1>3, <1>4, <1>5 DEF CutInto

-----------------------------------------------------------------------------
(* What a step leaves alone *)

\* What has been pushed keeps its number and its size, and acknowledged packets
\* stay acknowledged.
Grows ==
  /\ Len(queued) <= Len(queued') /\ skip \subseteq skip'
  /\ \A r \in 1 .. Len(queued) :
       queued'[r] = queued[r] /\ size'[queued'[r]] = size[queued[r]]

\* A position that is not the last of a sequence made longer by one was there before.
LEMMA Earlier ==
  \A n \in Nat : \A i \in 1 .. n + 1 : (i \in 1 .. n \/ i = n + 1) /\ (i <= n => i \in 1 .. n)
  OBVIOUS

\* A position of two sequences put together that is not beyond the first is one of it.
LEMMA InFirst ==
  \A n, l \in Nat : \A i \in 1 .. n + l : (i <= n => i \in 1 .. n) /\ (i <= n \/ i > n)
  OBVIOUS

\* What comes after lo, up to hi, comes up to every larger bound.
LEMMA Between ==
  \A lo, hi, n \in Nat : \A x \in (lo + 1) .. hi : hi <= n => x \in 1 .. hi /\ x \in 1 .. n
  OBVIOUS

\* A range may end one later.
LEMMA Wider == \A lo, hi \in Nat : \A x \in (lo + 1) .. hi : x \in (lo + 1) .. (hi + 1)
  OBVIOUS

\* What comes up to d is before what comes after it.
LEMMA Ordered == \A d, a \in Nat : \A x \in 1 .. d : \A y \in (d + 1) .. a : x < y
  OBVIOUS

\* The place of a reference in a run that starts after lo.
LEMMA Offset ==
  \A lo, hi \in Nat : \A y \in (lo + 1) .. hi :
     y - lo \in 1 .. (hi - lo) /\ lo + (y - lo) = y
  OBVIOUS

\* The first reference of a run that is not empty.
LEMMA FirstOfRun ==
  \A lo, hi, n \in Nat : n = hi - lo /\ n # 0 => 1 \in 1 .. n /\ lo + 1 \in 1 .. hi
  OBVIOUS

\* The bounds of a chain with one set more.
LEMMA OneMore ==
  \A m \in Nat :
    /\ 0 \in 0 .. m /\ m \in 0 .. m /\ m + 1 \in 0 .. m + 1 /\ ~ (m + 1 <= m)
    /\ \A i \in 0 .. m : i \in 0 .. m + 1 /\ i <= m
    /\ \A i \in 0 .. m + 1 : i <= m => i \in 0 .. m
    /\ \A i \in 1 .. m : i - 1 \in 0 .. m /\ i \in 0 .. m /\ i \in 1 .. m + 1
  OBVIOUS

\* One packet of a set further.
LEMMA OneFurther ==
  \A d, n, l \in Nat : n <= l => n + 1 <= l + 1 /\ d + (n + 1) - 1 = (d + n - 1) + 1
  OBVIOUS

\* The queues and the locals of the drivers by themselves.
LEMMA Types ==
  ASSUME TypeInv
  PROVE  /\ size \in Seq(Nat \ {0}) /\ queued \in Seq(Nat) /\ send_queue \in Seq(Nat)
         /\ send_rx \in Seq(Set)
         /\ Len(size) \in Nat /\ Len(queued) \in Nat /\ Len(send_queue) \in Nat
         /\ Len(send_rx) \in Nat
         /\ collect.queue \in Seq(Nat) /\ Len(collect.queue) \in Nat /\ collect.segment_size \in Nat
         /\ copy.packets \in Seq(Nat) /\ Len(copy.packets) \in Nat /\ copy.segment_size \in Nat
         /\ copy.next \in Nat /\ copy.next # 0 /\ copy.buf \in Seq(Byte) /\ Len(copy.buf) \in Nat
PROOF
<1>1. /\ size \in Seq(Nat \ {0}) /\ queued \in Seq(Nat) /\ send_queue \in Seq(Nat)
      /\ send_rx \in Seq(Set)
  BY DEF TypeInv, QueueTypes
<1>2. collect.queue \in Seq(Nat) /\ collect.segment_size \in Nat BY DEF TypeInv, CollectTypes
<1>3. /\ copy.packets \in Seq(Nat) /\ copy.segment_size \in Nat
      /\ copy.next \in Nat /\ copy.next # 0 /\ copy.buf \in Seq(Byte)
  BY DEF TypeInv, CopyTypes
<1>4. ASSUME NEW S, NEW q \in Seq(S) PROVE Len(q) \in Nat OBVIOUS
<1>5. /\ Len(size) \in Nat /\ Len(queued) \in Nat /\ Len(send_queue) \in Nat
      /\ Len(send_rx) \in Nat /\ Len(collect.queue) \in Nat /\ Len(copy.packets) \in Nat
      /\ Len(copy.buf) \in Nat
  BY ZenonT(30), <1>1, <1>2, <1>3, <1>4
<1> QED BY ZenonT(30), <1>1, <1>2, <1>3, <1>5

\* Every step of stream and socket only adds packets and acknowledgements.
LEMMA GrowsStep ==
  ASSUME TypeInv, [Next]_vars
  PROVE  Grows
PROOF
<1>0. QueueTypes BY DEF TypeInv
<1>1. ASSUME UNCHANGED <<size, queued>>, skip \subseteq skip' PROVE Grows
  <2>1. Len(queued) \in Nat BY <1>0 DEF QueueTypes
  <2> QED BY <1>1, <2>1 DEF Grows
<1>2. ASSUME NEW n \in Sizes, Queue(n) PROVE Grows
  <2>1. n \in Nat \ {0} BY BatchAssumption
  <2>2. /\ size' = Append(size, n) /\ queued' = Append(queued, Len(size) + 1)
        /\ skip' = skip
    BY <1>2 DEF Queue, PushBack
  <2>3. Len(queued') = Len(queued) + 1 /\ \A r \in 1 .. Len(queued) : queued'[r] = queued[r]
    BY <1>0, <2>2 DEF QueueTypes
  <2>4. \A p \in 1 .. Len(size) : size'[p] = size[p] BY <1>0, <2>1, <2>2 DEF QueueTypes
  <2>5. Len(queued) <= Len(queued') BY <1>0, <2>3 DEF QueueTypes
  <2> QED BY ZenonT(30), <1>0, <2>2, <2>3, <2>4, <2>5 DEF QueueTypes, Grows
<1>3. ASSUME NEW p \in 1 .. Len(size), Retransmit(p) PROVE Grows
  <2>1. size' = size /\ queued' = Append(queued, p) /\ skip' = skip
    BY <1>3 DEF Retransmit, PushBack
  <2>2. Len(queued') = Len(queued) + 1 /\ \A r \in 1 .. Len(queued) : queued'[r] = queued[r]
    BY <1>0, <2>1 DEF QueueTypes
  <2>3. Len(queued) <= Len(queued') BY <1>0, <2>2 DEF QueueTypes
  <2> QED BY ZenonT(30), <1>0, <2>1, <2>2, <2>3 DEF QueueTypes, Grows
<1>4. ASSUME NEW p \in 1 .. Len(size), Acked(p) PROVE Grows
  BY <1>1, <1>4 DEF Acked
<1>5. CASE PollTransmit BY <1>1, <1>5 DEF PollTransmit
<1>6. CASE PopFront BY <1>1, <1>6 DEF PopFront
<1>7. CASE LoopEnds BY <1>1, <1>7 DEF LoopEnds
<1>8. CASE TakeSet BY <1>1, <1>8 DEF TakeSet, streamVars
<1>9. CASE CopyPacket BY <1>1, <1>9 DEF CopyPacket, streamVars
<1>10. CASE Transmit BY <1>1, <1>10 DEF Transmit, streamVars
<1>11. CASE TransmitFails BY <1>1, <1>11 DEF TransmitFails, streamVars
<1>12. CASE UNCHANGED vars BY <1>1, <1>12 DEF vars, streamVars
<1> QED BY <1>2, <1>3, <1>4, <1>5, <1>6, <1>7, <1>8, <1>9, <1>10, <1>11, <1>12 DEF Next

\* A pushed packet has a size, and its bytes start with its reference.
LEMMA BytesFacts ==
  ASSUME TypeInv, NEW r \in 1 .. Len(queued)
  PROVE  /\ BufLen(r) \in Nat \ {0} /\ Bytes(r) \in Seq(Byte) /\ Len(Bytes(r)) = BufLen(r)
         /\ Bytes(r) # <<>> /\ Bytes(r)[1][1] = r
         /\ \A j \in 1 .. BufLen(r) : Bytes(r)[j] = <<r, j>>
         /\ DOMAIN Bytes(r) = 1 .. BufLen(r)
PROOF
<1>0. size \in Seq(Nat \ {0}) /\ queued[r] \in 1 .. Len(size) BY DEF TypeInv, QueueTypes
<1>1. BufLen(r) \in Nat \ {0} BY <1>0 DEF BufLen
<1>2. 1 \in 1 .. BufLen(r) BY <1>1
<1>3. \A j \in 1 .. BufLen(r) : Bytes(r)[j] = <<r, j>> BY ZenonT(30) DEF Bytes
<1>4. DOMAIN Bytes(r) = 1 .. BufLen(r) BY ZenonT(30) DEF Bytes
<1>5. Bytes(r) \in Seq(Byte) /\ Len(Bytes(r)) = BufLen(r) BY <1>1 DEF Bytes, Byte
<1>6. Bytes(r) # <<>> BY <1>1, <1>5
<1>7. Bytes(r)[1][1] = r BY <1>2, <1>3
<1> QED BY ZenonT(30), <1>1, <1>3, <1>4, <1>5, <1>6, <1>7

\* Packets that were pushed keep their sizes.
LEMMA EvenFrame ==
  ASSUME TypeInv, Grows, NEW refs, NEW n, Even(refs, n), Len(queued') \in Nat
  PROVE  \A i \in 1 .. Len(refs) :
           refs[i] \in 1 .. Len(queued') /\ size'[queued'[refs[i]]] = n
PROOF
<1>1. Len(queued) \in Nat /\ Len(queued) <= Len(queued') BY DEF TypeInv, QueueTypes, Grows
<1>2. 1 .. Len(queued) \subseteq 1 .. Len(queued') BY <1>1
<1> QED BY ZenonT(30), <1>2 DEF Even, Grows, BufLen

\* The sets in the channel stay in place while send_rx does not change.
LEMMA ChainFrame ==
  ASSUME TypeInv, NEW c, Chain(c), Grows, UNCHANGED send_rx, Len(queued') \in Nat
  PROVE  Chain(c)'
PROOF
<1>1. ASSUME NEW i \in 1 .. Len(send_rx) PROVE SetOK(send_rx[i], c[i - 1], c[i])'
  <2>1. SetOK(send_rx[i], c[i - 1], c[i]) BY DEF Chain
  <2>2. \A j \in 1 .. Len(send_rx[i].packets) :
          /\ send_rx[i].packets[j] \in 1 .. Len(queued')
          /\ size'[queued'[send_rx[i].packets[j]]] = send_rx[i].segment_size
    BY ZenonT(30), <2>1, EvenFrame DEF SetOK
  <2>3. Even(send_rx[i].packets, send_rx[i].segment_size)'
    BY ZenonT(30), <2>2 DEF Even, BufLen
  <2> QED BY ZenonT(30), <2>1, <2>3 DEF SetOK, Run
<1>2. \A i \in 0 .. Len(send_rx) : c[i] <= Len(queued')
  <2>1. \A i \in 0 .. Len(send_rx) : c[i] \in Nat /\ c[i] <= Len(queued) BY SMTT(30) DEF Chain
  <2>2. Len(queued) \in Nat /\ Len(queued) <= Len(queued') BY DEF Grows, TypeInv, QueueTypes
  <2> QED BY <2>1, <2>2
<1> QED BY ZenonT(30), <1>1, <1>2 DEF Chain

\* The set that is being copied stays in place while to_transmit does not run.
LEMMA CopyFrame ==
  ASSUME TypeInv, NEW done \in Nat, NEW a \in Nat, a <= Len(queued), Copying(done, a), Grows,
         UNCHANGED copy, Len(queued') \in Nat
  PROVE  Copying(done, a)'
PROOF
<1>1. PICK kept : Holds(kept, done, done + copy.next - 1) BY DEF Copying
<1>2. Len(copy.packets) \in Nat /\ copy.next \in Nat \ {0} BY DEF TypeInv, CopyTypes
<1>3. Len(queued) \in Nat BY DEF TypeInv, QueueTypes
<1>4. Even(copy.packets, copy.segment_size)'
  <2>1. \A i \in 1 .. Len(copy.packets) :
          /\ copy.packets[i] \in 1 .. Len(queued')
          /\ size'[queued'[copy.packets[i]]] = copy.segment_size
    BY ZenonT(30), EvenFrame DEF Copying
  <2> QED BY ZenonT(30), <2>1 DEF Even, BufLen
<1>5. done + copy.next - 1 <= Len(queued) BY SMTT(30), <1>2, <1>3 DEF Copying, Run
<1>6. Holds(kept, done, done + copy.next - 1)'
  <2>1. ASSUME NEW r \in (done + 1) .. (done + copy.next - 1)
        PROVE  queued'[r] \in skip' \/ \E i \in 1 .. Len(kept) : kept[i] = r
    <3>1. r \in 1 .. Len(queued) BY SMTT(30), <1>2, <1>3, <1>5
    <3>2. queued'[r] = queued[r] /\ skip \subseteq skip' BY <3>1 DEF Grows
    <3> QED BY ZenonT(30), <1>1, <3>2 DEF Holds
  <2> QED BY ZenonT(30), <1>1, <2>1 DEF Holds
<1> QED BY ZenonT(30), <1>4, <1>6 DEF Copying, Run

\* The wire stays as it is while nothing is sent.
LEMMA WireFrame ==
  ASSUME TypeInv, NEW done \in Nat, done <= Len(queued), OnWire(done), Grows,
         UNCHANGED <<wire, given_up>>
  PROVE  OnWire(done)'
PROOF
<1>1. Len(queued) \in Nat BY DEF TypeInv, QueueTypes
<1>2. ASSUME NEW r \in 1 .. done PROVE Bytes(r)' = Bytes(r) /\ queued'[r] = queued[r]
  <2>1. r \in 1 .. Len(queued) BY <1>1
  <2> QED BY ZenonT(30), <2>1 DEF Grows, Bytes, BufLen
<1>3. \A i \in 1 .. Len(wire) :
        wire[i] = <<>> \/ \E r \in 1 .. done : wire[i] = Bytes(r)'
  BY ZenonT(30), <1>2 DEF OnWire
<1>4. ~given_up => \A r \in 1 .. done :
        queued'[r] \in skip' \/ \E i \in 1 .. Len(wire) : wire[i] = Bytes(r)'
  <2>1. skip \subseteq skip' BY DEF Grows
  <2> QED BY ZenonT(30), <1>2, <2>1 DEF OnWire
<1>5. SentInOrder' BY ZenonT(30) DEF OnWire, SentInOrder, SentRef
<1> QED BY ZenonT(30), <1>3, <1>4, <1>5 DEF OnWire

-----------------------------------------------------------------------------
(* Types *)

\* The references of a queue are to packets that were pushed.
Refs(queue) == \A i \in 1 .. Len(queue) : queue[i] \in 1 .. Len(queued)

\* Every step keeps the types of stream and socket.
LEMMA TypeStep ==
  ASSUME TypeInv, Refs(send_queue), Refs(copy.packets), [Next]_vars
  PROVE  TypeInv'
PROOF
<1>0. QueueTypes /\ CollectTypes /\ CopyTypes /\ send_rx \in Seq(Set) BY DEF TypeInv
<1>1. ASSUME NEW n \in Sizes, Queue(n) PROVE TypeInv'
  <2>1. n \in Nat \ {0} BY BatchAssumption
  <2>2. /\ size' = Append(size, n) /\ queued' = Append(queued, Len(size) + 1)
        /\ send_queue' = Append(send_queue, Len(queued) + 1)
    BY <1>1 DEF Queue, PushBack
  <2>3. size' \in Seq(Nat \ {0}) /\ Len(size') = Len(size) + 1 BY <1>0, <2>1, <2>2 DEF QueueTypes
  <2>4. /\ queued' \in Seq(Nat) /\ Len(queued') = Len(queued) + 1
        /\ queued'[Len(queued) + 1] = Len(size) + 1
        /\ \A r \in 1 .. Len(queued) : queued'[r] = queued[r]
    BY <1>0, <2>2 DEF QueueTypes
  <2>5. send_queue' \in Seq(Nat) BY <1>0, <2>2 DEF QueueTypes
  <2>6. \A r \in 1 .. Len(queued') : queued'[r] \in 1 .. Len(size')
    <3>1. /\ Len(size) \in Nat /\ Len(queued) \in Nat
          /\ \A r \in 1 .. Len(queued) : queued[r] \in 1 .. Len(size)
      BY <1>0 DEF QueueTypes
    <3>2. Len(size') = Len(size) + 1 BY <2>3
    <3>3. ASSUME NEW r \in 1 .. Len(queued') PROVE queued'[r] \in 1 .. Len(size')
      <4>1. CASE r \in 1 .. Len(queued)
        <5>1. queued'[r] = queued[r] /\ queued[r] \in 1 .. Len(size) BY <2>4, <3>1, <4>1
        <5> QED BY <3>1, <3>2, <5>1
      <4>2. CASE r = Len(queued) + 1
        <5>1. queued'[r] = Len(size) + 1 BY <2>4, <4>2
        <5> QED BY <3>1, <3>2, <5>1
      <4>3. Len(queued') = Len(queued) + 1 BY <2>4
      <4> QED BY <3>1, <4>1, <4>2, <4>3
    <3> QED BY <3>3
  <2>7. QueueTypes' BY ZenonT(30), <2>3, <2>4, <2>5, <2>6 DEF QueueTypes
  <2> QED BY ZenonT(30), <1>1, <2>7 DEF Queue, TypeInv, socketVars, CollectTypes, CopyTypes
<1>2. ASSUME NEW p \in 1 .. Len(size), Retransmit(p) PROVE TypeInv'
  <2>1. /\ queued' = Append(queued, p) /\ UNCHANGED size
        /\ send_queue' = Append(send_queue, Len(queued) + 1)
    BY <1>2 DEF Retransmit, PushBack
  <2>2. /\ queued' \in Seq(Nat) /\ Len(queued') = Len(queued) + 1 /\ queued'[Len(queued) + 1] = p
        /\ \A r \in 1 .. Len(queued) : queued'[r] = queued[r]
    BY <1>0, <2>1 DEF QueueTypes
  <2>3. send_queue' \in Seq(Nat) BY <1>0, <2>1 DEF QueueTypes
  <2>4. \A r \in 1 .. Len(queued') : queued'[r] \in 1 .. Len(size)
    <3>1. /\ Len(size) \in Nat /\ Len(queued) \in Nat
          /\ \A r \in 1 .. Len(queued) : queued[r] \in 1 .. Len(size)
      BY <1>0 DEF QueueTypes
    <3>2. \A r \in 1 .. Len(queued') : r \in 1 .. Len(queued) \/ r = Len(queued) + 1
      BY ZenonT(30), <2>2, <3>1, Earlier
    <3> QED BY ZenonT(30), <2>2, <3>1, <3>2
  <2>5. QueueTypes' BY ZenonT(30), <1>0, <2>1, <2>2, <2>3, <2>4 DEF QueueTypes
  <2> QED BY ZenonT(30), <1>2, <2>5 DEF Retransmit, TypeInv, socketVars, CollectTypes, CopyTypes
<1>3. ASSUME NEW p \in 1 .. Len(size), Acked(p) PROVE TypeInv'
  BY ZenonT(30), <1>3 DEF Acked, TypeInv, socketVars, QueueTypes, CollectTypes, CopyTypes
<1>4. CASE PollTransmit
  <2>1. CollectTypes' BY <1>4, BatchAssumption DEF PollTransmit, CollectTypes, TypeInv
  <2> QED BY ZenonT(30), <1>4, <2>1 DEF PollTransmit, TypeInv, socketVars, QueueTypes, CopyTypes
<1>5. ASSUME SendSet PROVE send_rx' \in Seq(Set)
  <2>1. [packets |-> collect.queue, segment_size |-> collect.segment_size] \in Set
    BY <1>0 DEF CollectTypes, Set
  <2> QED BY <1>0, <1>5, <2>1 DEF SendSet
<1>6. CASE PopFront
  <2> DEFINE r == Head(send_queue)
  <2>1. send_queue # <<>> /\ send_queue' = Tail(send_queue) /\ UNCHANGED <<size, queued, socketVars>>
    BY <1>6 DEF PopFront
  <2>2. send_queue \in Seq(Nat) BY <1>0 DEF QueueTypes
  <2>3. send_queue' \in Seq(Nat) /\ r = send_queue[1] /\ Len(send_queue) # 0 /\ Len(send_queue) \in Nat
    BY <2>1, <2>2
  <2>4. r \in 1 .. Len(queued) /\ r \in Nat
    <3>1. 1 \in 1 .. Len(send_queue) BY <2>3
    <3> QED BY <2>3, <3>1 DEF Refs
  <2>5. BufLen(r) \in Nat BY <2>4, BytesFacts
  <2>6. QueueTypes' BY ZenonT(30), <1>0, <2>1, <2>3 DEF QueueTypes
  <2>7. CopyTypes' /\ given_up' \in BOOLEAN /\ max_gso_segments' \in Nat
    BY ZenonT(30), <2>1 DEF socketVars, TypeInv, CopyTypes
  <2> HIDE DEF r
  <2>8. CollectTypes' /\ send_rx' \in Seq(Set)
    <3>1. CASE Cut(r)
      <4>1. SendSet /\ collect' = [collect EXCEPT !.queue = <<r>>, !.segment_size = BufLen(r)]
        BY <1>6, <3>1 DEF PopFront, r
      <4>2. <<r>> \in Seq(Nat) BY <2>4
      <4>3. CollectTypes' BY ZenonT(30), <1>0, <2>5, <4>1, <4>2 DEF CollectTypes
      <4> QED BY <1>5, <4>1, <4>3
    <3>2. CASE ~Cut(r)
      <4>1. UNCHANGED send_rx /\ collect' = [collect EXCEPT !.queue = Append(@, r)]
        BY <1>6, <3>2 DEF PopFront, r
      <4>2. collect.queue \in Seq(Nat) BY <1>0 DEF CollectTypes
      <4>3. Append(collect.queue, r) \in Seq(Nat) BY <2>4, <4>2
      <4>4. CollectTypes' BY ZenonT(30), <1>0, <4>1, <4>3 DEF CollectTypes
      <4> QED BY <1>0, <4>1, <4>4
    <3> QED BY <3>1, <3>2
  <2> QED BY ZenonT(30), <2>6, <2>7, <2>8 DEF TypeInv
<1>7. CASE LoopEnds
  <2>1. CollectTypes' BY <1>7 DEF LoopEnds, CollectTypes, NotCollecting
  <2>2. send_rx' \in Seq(Set) BY <1>5, <1>7 DEF LoopEnds
  <2> QED BY ZenonT(30), <1>7, <2>1, <2>2 DEF LoopEnds, TypeInv, socketVars, QueueTypes, CopyTypes
<1>8. CASE TakeSet
  <2>1. Head(send_rx) \in Set /\ send_rx' \in Seq(Set) BY <1>0, <1>8 DEF TakeSet
  <2>2. Head(send_rx).packets \in Seq(Nat) /\ Head(send_rx).segment_size \in Nat BY <2>1 DEF Set
  <2>3. CopyTypes' BY <1>8, <2>2 DEF TakeSet, CopyTypes
  <2> QED BY ZenonT(30), <1>8, <2>1, <2>3 DEF TakeSet, TypeInv, streamVars, QueueTypes, CollectTypes
<1>9. CASE CopyPacket
  <2> DEFINE r == copy.packets[copy.next]
  <2>1. copy.next \in 1 .. Len(copy.packets) BY <1>0, <1>9 DEF CopyPacket, CopyTypes
  <2>2. r \in 1 .. Len(queued) BY <2>1 DEF Refs
  <2>3. Bytes(r) \in Seq(Byte) BY ZenonT(30), <2>2, BytesFacts
  <2>4. copy.buf \o Bytes(r) \in Seq(Byte) BY <1>0, <2>3 DEF CopyTypes
  <2>5. PICK b \in Seq(Byte) : copy' = [copy EXCEPT !.next = @ + 1, !.buf = b]
    BY ZenonT(30), <1>0, <1>9, <2>4 DEF CopyPacket, CopyTypes
  <2>6. CopyTypes'
    <3>1. copy.next + 1 \in Nat \ {0} BY <1>0 DEF CopyTypes
    <3> QED BY ZenonT(30), <1>0, <2>5, <3>1 DEF CopyTypes
  <2> QED BY ZenonT(30), <1>9, <2>6 DEF CopyPacket, TypeInv, streamVars, QueueTypes, CollectTypes
<1>10. CASE Transmit \/ TransmitFails
  <2>1. CopyTypes'
    <3>1. copy' = NotCopying BY ZenonT(30), <1>10 DEF Transmit, TransmitFails
    <3> QED BY <3>1 DEF CopyTypes, NotCopying
  <2>2. given_up' \in BOOLEAN /\ max_gso_segments' \in Nat
    <3>1. /\ given_up' = given_up \/ given_up' = TRUE
          /\ max_gso_segments' \in {max_gso_segments, 1}
      BY ZenonT(30), <1>10 DEF Transmit, TransmitFails
    <3>2. given_up' \in BOOLEAN BY ZenonT(30), <3>1 DEF TypeInv
    <3>3. max_gso_segments' \in Nat BY <3>1 DEF TypeInv
    <3> QED BY <3>2, <3>3
  <2> QED BY ZenonT(30), <1>10, <2>1, <2>2
        DEF Transmit, TransmitFails, TypeInv, streamVars, QueueTypes, CollectTypes
<1>11. CASE UNCHANGED vars
  BY ZenonT(30), <1>11 DEF vars, TypeInv, streamVars, socketVars, QueueTypes, CollectTypes, CopyTypes
<1> QED BY <1>1, <1>2, <1>3, <1>4, <1>6, <1>7, <1>8, <1>9, <1>10, <1>11 DEF Next

-----------------------------------------------------------------------------
(* The stream's steps *)

\* A packet is pushed to the end of send_queue.
LEMMA PushStep ==
  ASSUME TypeInv, NEW b \in Nat, Collecting(b), Grows, NEW p, PushBack(p), p \in Nat,
         UNCHANGED collect
  PROVE  Collecting(b)'
PROOF
<1>1. /\ send_queue \in Seq(Nat) /\ queued \in Seq(Nat) /\ collect.queue \in Seq(Nat)
      /\ queued' = Append(queued, p) /\ send_queue' = Append(send_queue, Len(queued) + 1)
  BY ZenonT(30), Types DEF PushBack
<1>2. Len(queued') = Len(queued) + 1 /\ Len(send_queue') = Len(send_queue) + 1
  BY <1>1
<1>3. Popped' = Popped BY <1>1, <1>2 DEF Popped
<1>4. Run(send_queue', Popped, Len(queued'))
  <2>1. Len(send_queue) = Len(queued) - Popped BY <1>1 DEF Popped
  <2>2. ASSUME NEW i \in 1 .. Len(send_queue') PROVE send_queue'[i] = Popped + i
    <3>1. CASE i <= Len(send_queue)
      <4>1. send_queue'[i] = send_queue[i] BY <1>1, <3>1
      <4>2. i \in 1 .. Len(send_queue) BY <1>1, <3>1
      <4> QED BY ZenonT(30), <4>1, <4>2 DEF Collecting, Run
    <3>2. CASE i = Len(send_queue) + 1
      <4>1. send_queue'[i] = Len(queued) + 1 BY <1>1, <3>2
      <4> QED BY <1>1, <2>1, <3>2, <4>1 DEF Popped
    <3> QED BY <1>1, <1>2, <3>1, <3>2
  <2> QED BY SMTT(30), <1>1, <1>2, <2>1, <2>2 DEF Run, Popped
<1>5. Even(collect.queue, collect.segment_size)'
  <2>1. \A i \in 1 .. Len(collect.queue) :
          /\ collect.queue[i] \in 1 .. Len(queued')
          /\ size'[queued'[collect.queue[i]]] = collect.segment_size
    <3>1. Len(queued') \in Nat BY <1>1, <1>2
    <3> QED BY ZenonT(30), <3>1, EvenFrame DEF Collecting
  <2> QED BY ZenonT(30), <2>1 DEF Even, BufLen
<1> QED BY ZenonT(30), <1>3, <1>4, <1>5 DEF Collecting, Run

\* The set that poll_transmit sends follows on those in the channel.
LEMMA SendSetStep ==
  ASSUME TypeInv, NEW c, Chain(c), Collecting(c[Len(send_rx)]), SendSet,
         UNCHANGED <<size, queued>>
  PROVE  \E d : Chain(d)' /\ d[0] = c[0] /\ d[Len(send_rx')] = Popped
PROOF
<1> DEFINE m == Len(send_rx)
           q == collect.queue
<1>1. /\ send_rx \in Seq(Set) /\ m \in Nat /\ q \in Seq(Nat) /\ Len(queued) \in Nat
      /\ Len(send_queue) \in Nat /\ Len(q) \in Nat /\ collect.segment_size \in Nat
  BY ZenonT(30), Types
<1>2. c[m] \in Nat /\ Popped \in Nat /\ Len(q) = Popped - c[m] /\ Popped <= Len(queued)
  <2>1. c[m] \in Nat BY ZenonT(30), <1>1, OneMore DEF Chain
  <2>2. /\ Popped \in Nat /\ Len(q) = Popped - c[m]
        /\ Len(send_queue) = Len(queued) - Popped
    BY ZenonT(30) DEF Collecting, Run
  <2>3. Popped <= Len(queued) BY <1>1, <2>2
  <2> QED BY ZenonT(30), <2>1, <2>2, <2>3
<1>3. CASE q = <<>>
  <2>1. UNCHANGED send_rx BY ZenonT(30), <1>3 DEF SendSet
  <2>2. Chain(c)' BY ZenonT(30), <2>1 DEF Chain, SetOK, Run, Even, BufLen
  <2>3. c[m] = Popped BY <1>2, <1>3
  <2> QED BY <2>1, <2>2, <2>3
<1>4. CASE q # <<>>
  <2> DEFINE set == [packets |-> q, segment_size |-> collect.segment_size]
  <2>0. PICK d : d = [i \in 0 .. m + 1 |-> IF i <= m THEN c[i] ELSE Popped] BY ZenonT(30)
  <2>1. set \in Set BY ZenonT(30), <1>1 DEF Set
  <2>2. send_rx' = Append(send_rx, set) BY ZenonT(30), <1>4 DEF SendSet
  <2>3. /\ Len(send_rx') = m + 1 /\ send_rx'[m + 1] = set
        /\ \A i \in 1 .. m : send_rx'[i] = send_rx[i]
    BY <1>1, <2>1, <2>2
  <2>4. /\ d[0] = c[0] /\ d[m + 1] = Popped /\ d[m] = c[m]
        /\ \A i \in 0 .. m : d[i] = c[i]
        /\ d \in [0 .. m + 1 -> Nat]
    <3>1. c \in [0 .. m -> Nat] BY ZenonT(30) DEF Chain
    <3>2. \A i \in 0 .. m : d[i] = c[i] BY ZenonT(30), <1>1, <2>0, OneMore
    <3>3. d[m + 1] = Popped BY ZenonT(30), <1>1, <2>0, OneMore
    <3>4. d \in [0 .. m + 1 -> Nat] BY ZenonT(30), <1>1, <1>2, <2>0, <3>1, OneMore
    <3> QED BY ZenonT(30), <1>1, <3>2, <3>3, <3>4, OneMore
  <2>5. SetOK(set, c[m], Popped) BY ZenonT(30), <1>2, <1>4 DEF Collecting, SetOK
  <2> HIDE DEF set
  <2>6. ASSUME NEW i \in 1 .. m + 1 PROVE SetOK(send_rx'[i], d[i - 1], d[i])
    <3>1. CASE i \in 1 .. m
      <4>0. i - 1 \in 0 .. m /\ i \in 0 .. m BY <1>1, <3>1
      <4>1. d[i - 1] = c[i - 1] /\ d[i] = c[i] BY ZenonT(30), <2>4, <4>0
      <4>2. SetOK(send_rx[i], c[i - 1], c[i]) BY ZenonT(30), <3>1 DEF Chain
      <4> QED BY ZenonT(30), <2>3, <3>1, <4>1, <4>2
    <3>2. CASE i = m + 1
      <4>1. d[i - 1] = c[m] /\ d[i] = Popped BY <1>1, <2>4, <3>2
      <4> QED BY ZenonT(30), <2>3, <2>5, <3>2, <4>1
    <3> QED BY <1>1, <3>1, <3>2
  <2>7. ASSUME NEW i \in 1 .. m + 1 PROVE SetOK(send_rx[i], d[i - 1], d[i])'
    <3>1. SetOK(send_rx'[i], d[i - 1], d[i]) BY <2>6
    <3>2. size' = size /\ queued' = queued OBVIOUS
    <3> QED BY ZenonT(30), <3>1, <3>2 DEF SetOK, Run, Even, BufLen
  <2>8. \A i \in 0 .. m + 1 : d[i] <= Len(queued)
    <3>1. \A i \in 0 .. m : c[i] <= Len(queued) BY DEF Chain
    <3>2. ASSUME NEW i \in 0 .. m + 1 PROVE d[i] <= Len(queued)
      <4>1. CASE i \in 0 .. m BY <2>4, <3>1, <4>1
      <4>2. CASE i = m + 1 BY <1>2, <2>4, <4>2
      <4> QED BY <1>1, <4>1, <4>2
    <3> QED BY <3>2
  <2>9. ASSUME NEW r \in (d[0] + 1) .. d[m + 1]
        PROVE  \E i \in 1 .. m + 1 : r \in (d[i - 1] + 1) .. d[i]
    <3>1. CASE r <= c[m]
      <4>1. c[0] \in Nat BY <1>1 DEF Chain
      <4>2. r \in (c[0] + 1) .. c[m] BY <1>2, <2>4, <3>1, <4>1
      <4>3. PICK i \in 1 .. m : r \in (c[i - 1] + 1) .. c[i] BY ZenonT(30), <4>2 DEF Chain
      <4>4. d[i - 1] = c[i - 1] /\ d[i] = c[i] /\ i \in 1 .. m + 1 BY ZenonT(30), <1>1, <2>4, OneMore
      <4> QED BY <4>3, <4>4
    <3>2. CASE ~ (r <= c[m])
      <4>1. m + 1 \in 1 .. m + 1 /\ (m + 1) - 1 = m BY <1>1
      <4>2. r \in (d[m] + 1) .. d[m + 1] BY <1>2, <2>4, <3>2
      <4> QED BY <4>1, <4>2
    <3> QED BY <3>1, <3>2
  <2>10. Chain(d)'
    <3>1. queued' = queued OBVIOUS
    <3> QED BY ZenonT(30), <2>3, <2>4, <2>7, <2>8, <2>9, <3>1 DEF Chain
  <2> QED BY ZenonT(30), <2>3, <2>4, <2>10
<1> QED BY ZenonT(30), <1>3, <1>4

\* A turn of the loop moves one reference from send_queue to what is collected,
\* and sends what was collected before when the size changes or the set is full.
LEMMA PopStep ==
  ASSUME TypeInv, NEW c, Chain(c), Collecting(c[Len(send_rx)]), PopFront
  PROVE  \E d : Chain(d)' /\ d[0] = c[0] /\ Collecting(d[Len(send_rx)])'
PROOF
<1> DEFINE r == Head(send_queue)
           b == c[Len(send_rx)]
           q == collect.queue
<1>1. /\ collect.running /\ send_queue # <<>> /\ send_queue' = Tail(send_queue)
      /\ UNCHANGED <<size, queued>>
  BY DEF PopFront
<1>2. /\ send_queue \in Seq(Nat) /\ q \in Seq(Nat) /\ Len(queued) \in Nat /\ Len(q) \in Nat
      /\ Len(send_rx) \in Nat /\ Len(send_queue) \in Nat /\ Len(send_queue) # 0
  <2>1. /\ send_queue \in Seq(Nat) /\ q \in Seq(Nat) /\ Len(queued) \in Nat /\ Len(q) \in Nat
        /\ Len(send_rx) \in Nat /\ Len(send_queue) \in Nat
    BY ZenonT(30), Types
  <2>2. Len(send_queue) # 0 BY <1>1, <2>1
  <2> QED BY ZenonT(30), <2>1, <2>2
<1>3. b \in Nat /\ Popped \in Nat /\ Len(q) = Popped - b BY <1>2 DEF Chain, Collecting, Run
<1>4. Popped' = Popped + 1 /\ Len(send_queue') = Len(send_queue) - 1
  BY <1>1, <1>2 DEF Popped
<1>5. Len(send_queue) = Len(queued) - Popped /\ \A i \in 1 .. Len(send_queue) : send_queue[i] = Popped + i
  BY ZenonT(30) DEF Collecting, Run
<1>6. r = Popped + 1 /\ r \in 1 .. Len(queued)
  <2>1. r = send_queue[1] BY <1>1, <1>2
  <2>2. 1 \in 1 .. Len(send_queue) /\ Popped + 1 \in 1 .. Len(queued)
    BY ZenonT(30), <1>2, <1>3, <1>5, FirstOfRun
  <2> QED BY ZenonT(30), <1>5, <2>1, <2>2
<1>7. Run(send_queue', Popped + 1, Len(queued))
  <2>1. \A i \in 1 .. Len(send_queue) - 1 : send_queue'[i] = send_queue[i + 1]
    BY <1>1, <1>2
  <2> QED BY SMTT(30), <1>2, <1>3, <1>4, <1>5, <2>1 DEF Run
<1> HIDE DEF r
<1>8. CASE Cut(r)
  <2>1. SendSet /\ collect' = [collect EXCEPT !.queue = <<r>>, !.segment_size = BufLen(r)]
    BY <1>8 DEF PopFront, r
  <2>2. collect'.queue = <<r>> /\ collect'.segment_size = BufLen(r) /\ collect'.running
    BY <1>1, <2>1 DEF TypeInv, CollectTypes
  <2>3. PICK d : Chain(d)' /\ d[0] = c[0] /\ d[Len(send_rx')] = Popped
    BY <1>1, <2>1, SendSetStep
  <2>4. Run(collect'.queue, Popped, Popped + 1) BY <1>3, <1>6, <2>2 DEF Run
  <2>5. Even(collect.queue, collect.segment_size)'
    BY <1>1, <1>6, <2>2 DEF Even, BufLen
  <2>7. Collecting(d[Len(send_rx)])'
    <3>1. Popped' \in Nat BY <1>3, <1>4
    <3> QED BY ZenonT(30), <1>1, <1>4, <1>7, <2>2, <2>3, <2>4, <2>5, <3>1 DEF Collecting, Run
  <2> QED BY ZenonT(30), <2>3, <2>7
<1>9. CASE ~Cut(r)
  <2>1. UNCHANGED send_rx /\ collect' = [collect EXCEPT !.queue = Append(@, r)]
    BY <1>9 DEF PopFront, r
  <2>2. /\ collect'.queue = Append(q, r) /\ collect'.segment_size = collect.segment_size
        /\ collect'.running
    BY <1>1, <2>1 DEF TypeInv, CollectTypes
  <2>3. Len(collect'.queue) = Len(q) + 1 BY <1>2, <1>6, <2>2
  <2>4. BufLen(r) = collect.segment_size BY <1>9 DEF Cut
  <2>5. ASSUME NEW i \in 1 .. Len(q) + 1
        PROVE  (i <= Len(q) /\ collect'.queue[i] = q[i]) \/ (i = Len(q) + 1 /\ collect'.queue[i] = r)
    BY SMTT(30), <1>2, <1>6, <2>2
  <2>6. Run(collect'.queue, b, Popped + 1)
    <3>0. Len(q) + 1 = (Popped + 1) - b /\ Popped + 1 = b + (Len(q) + 1)
      <4> HIDE DEF b, q
      <4> QED BY <1>3
    <3>1. \A i \in 1 .. Len(q) : q[i] = b + i BY ZenonT(30) DEF Collecting, Run
    <3>2. ASSUME NEW i \in 1 .. Len(q) + 1 PROVE collect'.queue[i] = b + i
      <4>1. CASE i <= Len(q) /\ collect'.queue[i] = q[i]
        <5>1. i \in 1 .. Len(q) BY ZenonT(30), <1>2, <4>1, Earlier
        <5> QED BY ZenonT(30), <3>1, <4>1, <5>1
      <4>2. CASE i = Len(q) + 1 /\ collect'.queue[i] = r BY ZenonT(30), <1>6, <3>0, <4>2
      <4> QED BY ZenonT(30), <2>5, <4>1, <4>2
    <3> QED BY ZenonT(30), <2>3, <3>0, <3>2 DEF Run
  <2>7. Even(collect'.queue, collect.segment_size)
    <3>1. \A i \in 1 .. Len(q) : q[i] \in 1 .. Len(queued) /\ BufLen(q[i]) = collect.segment_size
      BY ZenonT(30) DEF Collecting, Even
    <3>2. ASSUME NEW i \in 1 .. Len(q) + 1
          PROVE  /\ collect'.queue[i] \in 1 .. Len(queued)
                 /\ BufLen(collect'.queue[i]) = collect.segment_size
      <4>1. CASE i <= Len(q) /\ collect'.queue[i] = q[i]
        <5>1. i \in 1 .. Len(q) BY ZenonT(30), <1>2, <4>1, Earlier
        <5> QED BY ZenonT(30), <3>1, <4>1, <5>1
      <4>2. CASE collect'.queue[i] = r BY ZenonT(30), <1>6, <2>4, <4>2
      <4> QED BY ZenonT(30), <2>5, <4>1, <4>2
    <3> QED BY ZenonT(30), <2>3, <3>2 DEF Even
  <2>8. Even(collect.queue, collect.segment_size)'
    BY ZenonT(30), <1>1, <2>2, <2>7 DEF Even, BufLen
  <2>9. Chain(c)' BY ZenonT(30), <1>1, <2>1 DEF Chain, SetOK, Run, Even, BufLen
  <2>10. Collecting(c[Len(send_rx)])'
    <3>1. Popped' \in Nat BY <1>3, <1>4
    <3> QED BY ZenonT(30), <1>1, <1>4, <1>7, <2>1, <2>2, <2>6, <2>8, <3>1 DEF Collecting, Run
  <2> QED BY <2>9, <2>10
<1> QED BY ZenonT(30), <1>8, <1>9

\* After the loop nothing is left of what was collected.
LEMMA LoopEndsStep ==
  ASSUME TypeInv, NEW c, Chain(c), Collecting(c[Len(send_rx)]), LoopEnds
  PROVE  \E d : Chain(d)' /\ d[0] = c[0] /\ Collecting(d[Len(send_rx)])'
PROOF
<1>1. SendSet /\ UNCHANGED <<size, queued, send_queue>> /\ collect' = NotCollecting
  BY DEF LoopEnds
<1>2. PICK d : Chain(d)' /\ d[0] = c[0] /\ d[Len(send_rx')] = Popped
  BY ZenonT(30), <1>1, SendSetStep
<1>3. Popped' = Popped /\ Popped \in Nat BY ZenonT(30), <1>1 DEF Popped, Collecting
<1>4. collect'.queue = <<>> BY ZenonT(30), <1>1 DEF NotCollecting
<1>5. Run(collect'.queue, Popped, Popped) BY <1>3, <1>4 DEF Run
<1>6. Even(collect.queue, collect.segment_size)' BY <1>4 DEF Even
<1>7. Collecting(d[Len(send_rx)])'
  BY ZenonT(30), <1>1, <1>2, <1>3, <1>4, <1>5, <1>6 DEF Collecting, Run
<1> QED BY <1>2, <1>7

-----------------------------------------------------------------------------
(* The socket's steps *)

\* While no set is being copied, everything before the channel is done.
LEMMA NoCopy ==
  ASSUME TypeInv, NEW done \in Nat, NEW a \in Nat, Copying(done, a), ~copy.running
  PROVE  done = a
PROOF
<1>1. copy.packets = <<>> BY ZenonT(30) DEF Copying
<1>2. Len(copy.packets) = 0 BY <1>1
<1> QED BY <1>2 DEF Copying, Run

\* to_transmit starts with the first set of the channel.
LEMMA TakeStep ==
  ASSUME TypeInv, NEW done \in Nat, NEW c, Chain(c), Copying(done, c[0]), TakeSet
  PROVE  \E d : /\ Chain(d)' /\ Copying(done, d[0])'
                /\ d[Len(send_rx')] = c[Len(send_rx)] /\ Len(send_rx) \in Nat
PROOF
<1> DEFINE m == Len(send_rx)
<1>0. PICK d : d = [i \in 0 .. m - 1 |-> c[i + 1]] BY ZenonT(30)
<1>1. /\ ~copy.running /\ send_rx # <<>> /\ send_rx' = Tail(send_rx)
      /\ UNCHANGED <<size, queued, skip>>
      /\ copy' = [running |-> TRUE, packets |-> Head(send_rx).packets,
                  segment_size |-> Head(send_rx).segment_size, next |-> 1, buf |-> <<>>]
  BY ZenonT(30) DEF TakeSet, streamVars
<1>2. send_rx \in Seq(Set) /\ m \in Nat /\ m # 0 /\ Len(queued) \in Nat
  <2>1. send_rx \in Seq(Set) /\ m \in Nat /\ Len(queued) \in Nat BY ZenonT(30), Types
  <2>2. m # 0 BY <1>1, <2>1
  <2> QED BY <2>1, <2>2
<1>3. /\ Len(send_rx') = m - 1 /\ Head(send_rx) = send_rx[1]
      /\ \A i \in 1 .. m - 1 : send_rx'[i] = send_rx[i + 1]
  BY <1>1, <1>2
<1>4. c[0] \in Nat /\ c[1] \in Nat /\ done = c[0]
  <2>1. c[0] \in Nat /\ c[1] \in Nat BY <1>2 DEF Chain
  <2> QED BY ZenonT(30), <1>1, <2>1, NoCopy
<1>5. /\ d \in [0 .. m - 1 -> Nat] /\ d[0] = c[1] /\ d[m - 1] = c[m]
      /\ \A i \in 0 .. m - 1 : d[i] = c[i + 1]
  BY SMTT(30), <1>0, <1>2 DEF Chain
<1>6. SetOK(send_rx[1], c[0], c[1])
  <2>1. 1 \in 1 .. m /\ 1 - 1 = 0 BY <1>2
  <2> QED BY ZenonT(30), <2>1 DEF Chain
<1>7. Chain(d)'
  <2>1. ASSUME NEW i \in 1 .. m - 1 PROVE SetOK(send_rx[i], d[i - 1], d[i])'
    <3>1. i + 1 \in 1 .. m /\ (i + 1) - 1 = i /\ i - 1 \in 0 .. m - 1 /\ (i - 1) + 1 = i
      BY <1>2
    <3>2. SetOK(send_rx[i + 1], c[i], c[i + 1]) BY ZenonT(30), <3>1 DEF Chain
    <3>3. d[i - 1] = c[i] /\ d[i] = c[i + 1] /\ send_rx'[i] = send_rx[i + 1]
      BY SMTT(30), <1>3, <1>5, <3>1
    <3>4. SetOK(send_rx'[i], d[i - 1], d[i]) BY ZenonT(30), <3>2, <3>3
    <3>5. size' = size /\ queued' = queued BY ZenonT(30), <1>1
    <3> QED BY ZenonT(30), <3>4, <3>5 DEF SetOK, Run, Even, BufLen
  <2>2. \A i \in 0 .. m - 1 : d[i] <= Len(queued')
    BY <1>1, <1>2, <1>5 DEF Chain
  <2>3. ASSUME NEW r \in (d[0] + 1) .. d[m - 1]
        PROVE  \E i \in 1 .. m - 1 : r \in (d[i - 1] + 1) .. d[i]
    <3>1. c[0] <= c[1] /\ c[m] \in Nat
      <4>0. send_rx[1].packets \in Seq(Nat)
        <5>1. 1 \in 1 .. m BY <1>2
        <5>2. send_rx[1] \in Set BY ZenonT(30), <1>2, <5>1, ElementOfSeq
        <5> QED BY <5>2 DEF Set
      <4>1. Len(send_rx[1].packets) \in Nat BY ZenonT(30), <4>0, LenProperties
      <4> QED BY SMTT(30), <1>2, <1>4, <1>6, <4>1 DEF SetOK, Run, Chain
    <3>2. r \in (c[0] + 1) .. c[m] BY SMTT(30), <1>4, <1>5, <3>1
    <3>3. PICK i \in 1 .. m : r \in (c[i - 1] + 1) .. c[i] BY ZenonT(30), <3>2 DEF Chain
    <3>4. i # 1 BY <1>4, <1>5, <3>3
    <3>5. i - 1 \in 1 .. m - 1 /\ (i - 1) - 1 \in 0 .. m - 1 /\ ((i - 1) - 1) + 1 = i - 1 /\ (i - 1) + 1 = i
      BY <1>2, <3>4
    <3>6. d[(i - 1) - 1] = c[i - 1] /\ d[i - 1] = c[i]
      BY SMTT(30), <1>5, <3>5
    <3> QED BY ZenonT(30), <3>3, <3>5, <3>6
  <2> QED BY ZenonT(30), <1>3, <1>5, <2>1, <2>2, <2>3 DEF Chain
<1>8. Copying(done, d[0])'
  <2>1. /\ copy'.packets = send_rx[1].packets /\ copy'.segment_size = send_rx[1].segment_size
        /\ copy'.running /\ copy'.next = 1 /\ copy'.buf = <<>>
    BY ZenonT(30), <1>1, <1>3
  <2>2. send_rx[1].packets \in Seq(Nat) /\ send_rx[1].segment_size \in Nat
    <3>1. send_rx[1] \in Set BY <1>2
    <3> QED BY ZenonT(30), <3>1 DEF Set
  <2>3. Even(copy.packets, copy.segment_size)'
    <3>1. size' = size /\ queued' = queued BY ZenonT(30), <1>1
    <3> QED BY ZenonT(30), <1>6, <2>1, <3>1 DEF SetOK, Even, BufLen
  <2>4. Run(copy'.packets, done, d[0]) /\ copy'.packets # <<>>
    BY ZenonT(30), <1>4, <1>5, <1>6, <2>1 DEF SetOK
  <2>5. done + copy'.next - 1 = done BY <2>1
  <2>6. Holds(<<>>, done, done)'
    <3>1. Len(copy'.buf) = 0 /\ 0 * copy'.segment_size = 0 BY <2>1, <2>2
    <3>2. <<>> \in Seq(Nat) /\ Len(<<>>) = 0 OBVIOUS
    <3>3. (done + 1) .. done = {} /\ 1 .. 0 = {} OBVIOUS
    <3> QED BY ZenonT(30), <3>1, <3>2, <3>3 DEF Holds
  <2>7. copy'.next <= Len(copy'.packets) + 1 BY <2>1, <2>2
  <2> QED BY ZenonT(30), <2>1, <2>3, <2>4, <2>5, <2>6, <2>7 DEF Copying, Run
<1> QED BY ZenonT(30), <1>2, <1>3, <1>5, <1>7, <1>8

\* to_transmit copies a packet whole, at the next multiple of the size, or
\* leaves it out.
LEMMA CopyStep ==
  ASSUME TypeInv, NEW done \in Nat, NEW a \in Nat, Copying(done, a), CopyPacket
  PROVE  Copying(done, a)'
PROOF
<1> DEFINE n == copy.segment_size
           r == copy.packets[copy.next]
           hi == done + copy.next - 1
<1>1. /\ copy.running /\ copy.next <= Len(copy.packets)
      /\ copy' = [copy EXCEPT !.next = @ + 1,
                              !.buf = IF queued[r] \in skip THEN @ ELSE @ \o Bytes(r)]
      /\ UNCHANGED <<size, queued, skip>>
  BY DEF CopyPacket, streamVars
<1>2. /\ copy.packets \in Seq(Nat) /\ Len(copy.packets) \in Nat /\ copy.next \in Nat
      /\ copy.next # 0 /\ copy.buf \in Seq(Byte) /\ n \in Nat /\ Len(copy.buf) \in Nat
  BY ZenonT(30), Types
<1>3. /\ copy'.running = copy.running /\ copy'.packets = copy.packets
      /\ copy'.segment_size = n /\ copy'.next = copy.next + 1
      /\ copy'.buf = IF queued[r] \in skip THEN copy.buf ELSE copy.buf \o Bytes(r)
  BY ZenonT(30), <1>1 DEF TypeInv, CopyTypes
<1>4. r = hi + 1 /\ r \in 1 .. Len(queued) /\ BufLen(r) = n /\ hi \in Nat
  <2>1. copy.next \in 1 .. Len(copy.packets) BY <1>1, <1>2
  <2>2. r = done + copy.next BY ZenonT(30), <2>1 DEF Copying, Run
  <2>3. r \in 1 .. Len(queued) /\ BufLen(r) = n BY ZenonT(30), <2>1 DEF Copying, Even
  <2>4. hi + 1 = done + copy.next /\ hi \in Nat BY SMTT(30), <1>2
  <2> QED BY ZenonT(30), <2>2, <2>3, <2>4
<1>5. n # 0 /\ Bytes(r) \in Seq(Byte) /\ Len(Bytes(r)) = n
      /\ \A j \in 1 .. n : Bytes(r)[j] = <<r, j>>
  BY ZenonT(30), <1>4, BytesFacts
<1>6. Run(copy.packets, done, a)' /\ Even(copy.packets, n)'
  <2>1. size' = size /\ queued' = queued BY <1>1
  <2> QED BY ZenonT(30), <1>3, <2>1 DEF Copying, Run, Even, BufLen
<1>7. copy'.next <= Len(copy'.packets) + 1 /\ (done + copy.next - 1)' = hi + 1
  <2>1. copy.next + 1 <= Len(copy.packets) + 1 /\ done + (copy.next + 1) - 1 = hi + 1
    BY ZenonT(30), <1>1, <1>2, OneFurther
  <2> QED BY ZenonT(30), <1>3, <2>1
<1>8. PICK kept : Holds(kept, done, hi) BY ZenonT(30) DEF Copying
<1> HIDE DEF n, r, hi
<1>9. /\ kept \in Seq(Nat) /\ Len(kept) \in Nat /\ Len(copy.buf) = Len(kept) * n
      /\ \A i \in 1 .. Len(kept) : kept[i] \in (done + 1) .. hi
      /\ \A i, j \in 1 .. Len(kept) : i < j => kept[i] < kept[j]
      /\ \A i \in 1 .. Len(kept) : \A j \in 1 .. n : copy.buf[(i - 1) * n + j] = <<kept[i], j>>
      /\ \A x \in (done + 1) .. hi : queued[x] \in skip \/ \E i \in 1 .. Len(kept) : kept[i] = x
  <2>1. Len(kept) \in Nat BY <1>8 DEF Holds
  <2> QED BY ZenonT(30), <1>8, <2>1 DEF Holds, n
<1>10. done <= hi BY <1>2 DEF hi
<1>14. n \in Nat /\ n # 0 BY ZenonT(30), <1>2, <1>5 DEF n
<1> DEFINE Keeps(refs, b) ==
             /\ refs \in Seq(Nat) /\ Len(copy'.buf) = Len(refs) * n
             /\ \A i \in 1 .. Len(refs) : refs[i] \in (done + 1) .. b
             /\ \A i, j \in 1 .. Len(refs) : i < j => refs[i] < refs[j]
             /\ \A i \in 1 .. Len(refs) : \A j \in 1 .. n :
                  copy'.buf[(i - 1) * n + j] = <<refs[i], j>>
             /\ \A x \in (done + 1) .. b :
                  queued'[x] \in skip' \/ \E i \in 1 .. Len(refs) : refs[i] = x
<1>13. ASSUME NEW refs, Keeps(refs, hi + 1) PROVE Copying(done, a)'
  <2>1. copy'.segment_size = n /\ (done + copy.next - 1)' = hi + 1 BY <1>3, <1>7
  <2>2. Holds(refs, done, done + copy.next - 1)'
    BY ZenonT(30), <1>13, <2>1 DEF Holds
  <2>3. copy'.running = copy.running /\ copy'.packets = copy.packets BY ZenonT(30), <1>3
  <2>4. Even(copy.packets, copy.segment_size)' BY ZenonT(30), <1>6 DEF n
  <2> QED BY ZenonT(30), <1>6, <1>7, <2>2, <2>3, <2>4 DEF Copying
<1>11. CASE queued[r] \in skip
  <2>1. copy'.buf = copy.buf BY <1>3, <1>11
  <2>2. \A i \in 1 .. Len(kept) : kept[i] \in (done + 1) .. (hi + 1) BY ZenonT(30), <1>4, <1>9, Wider
  <2>3. \A x \in (done + 1) .. (hi + 1) :
          queued[x] \in skip \/ \E i \in 1 .. Len(kept) : kept[i] = x
    <3>1. \A x \in (done + 1) .. (hi + 1) : x \in (done + 1) .. hi \/ x = r BY <1>4
    <3> QED BY ZenonT(30), <1>9, <1>11, <3>1
  <2>4. queued' = queued /\ skip' = skip BY <1>1
  <2>5. Keeps(kept, hi + 1)
    BY ZenonT(30), <1>3, <1>9, <2>1, <2>2, <2>3, <2>4
  <2> QED BY ZenonT(30), <1>13, <2>5
<1>12. CASE queued[r] \notin skip
  <2> DEFINE k == Len(kept)
             more == Append(kept, r)
  <2>1. copy'.buf = copy.buf \o Bytes(r) BY ZenonT(30), <1>3, <1>12
  <2>2. /\ more \in Seq(Nat) /\ Len(more) = k + 1 /\ more[k + 1] = r
        /\ \A i \in 1 .. k : more[i] = kept[i]
    BY <1>4, <1>9
  <2> HIDE DEF more
  <2>3. Len(copy'.buf) = Len(more) * n
    <3>1. Len(copy'.buf) = Len(copy.buf) + Len(Bytes(r))
      BY ZenonT(30), <1>2, <1>5, <2>1, ConcatProperties
    <3>2. (k + 1) * n = k * n + n BY <1>14, <1>9, Multiples
    <3> QED BY ZenonT(30), <1>5, <1>9, <2>2, <3>1, <3>2
  <2>4. ASSUME NEW i \in 1 .. k + 1
        PROVE  (i \in 1 .. k /\ more[i] = kept[i] /\ kept[i] \in (done + 1) .. hi)
                 \/ (i = k + 1 /\ more[i] = r)
    <3>1. CASE i \in 1 .. k BY ZenonT(30), <1>9, <2>2, <3>1
    <3>2. CASE i = k + 1 BY ZenonT(30), <2>2, <3>2
    <3>3. k \in Nat BY ZenonT(30), <1>9
    <3> QED BY <3>1, <3>2, <3>3
  <2>5. ASSUME NEW i \in 1 .. k + 1 PROVE more[i] \in (done + 1) .. (hi + 1)
    <3>1. CASE more[i] = kept[i] /\ kept[i] \in (done + 1) .. hi BY <1>4, <3>1
    <3>2. CASE more[i] = r BY <1>4, <1>10, <3>2
    <3> QED BY ZenonT(30), <2>4, <3>1, <3>2
  <2>6. ASSUME NEW i \in 1 .. k + 1, NEW j \in 1 .. k + 1, i < j PROVE more[i] < more[j]
    <3>1. k \in Nat BY ZenonT(30), <1>9
    <3>2. i \in 1 .. k /\ more[i] = kept[i] /\ kept[i] \in (done + 1) .. hi
      <4>1. i # k + 1 BY <2>6, <3>1
      <4> QED BY <2>4, <4>1
    <3>3. CASE j \in 1 .. k /\ more[j] = kept[j] BY ZenonT(30), <1>9, <2>6, <3>2, <3>3
    <3>4. CASE more[j] = r BY SMTT(30), <1>4, <3>2, <3>4
    <3> QED BY ZenonT(30), <2>4, <3>3, <3>4
  <2>7. ASSUME NEW i \in 1 .. k + 1, NEW j \in 1 .. n
        PROVE  copy'.buf[(i - 1) * n + j] = <<more[i], j>>
    <3> DEFINE x == (i - 1) * n + j
    <3>1. k \in Nat /\ Len(copy.buf) = k * n BY ZenonT(30), <1>9
    <3>2. CASE i \in 1 .. k
      <4>1. (i - 1) * n \in Int /\ (i - 1) * n >= 0
        <5>1. i - 1 \in Nat BY <3>1
        <5> QED BY <1>14, <5>1
      <4>2. (i - 1) * n = i * n - n /\ i * n \in Int /\ k * n \in Int BY <1>14, <3>1, Multiples
      <4>3. i * n <= k * n
        <5>1. i < k => i * n < k * n BY <1>14, <3>1, Multiples
        <5>2. i < k \/ i = k BY <3>1, <3>2
        <5> QED BY <4>2, <5>1, <5>2
      <4>4. x \in 1 .. Len(copy.buf) BY SMTT(30), <1>14, <3>1, <4>1, <4>2, <4>3
      <4> HIDE DEF x
      <4>5. copy'.buf[x] = copy.buf[x] BY <1>2, <1>5, <2>1, <4>4
      <4>6. copy.buf[x] = <<kept[i], j>>
        <5>1. \A y \in 1 .. k : \A z \in 1 .. n : copy.buf[(y - 1) * n + z] = <<kept[y], z>>
          BY ZenonT(30), <1>9
        <5> QED BY ZenonT(30), <3>2, <5>1 DEF x
      <4>7. more[i] = kept[i] BY ZenonT(30), <2>2, <3>2
      <4> QED BY ZenonT(30), <4>5, <4>6, <4>7 DEF x
    <3>3. CASE i = k + 1
      <4>1. x = Len(copy.buf) + j
        <5>1. i - 1 = k BY <3>1, <3>3
        <5> QED BY ZenonT(30), <3>1, <5>1
      <4> HIDE DEF x
      <4>2. Len(Bytes(r)) = n /\ j \in 1 .. Len(Bytes(r)) BY ZenonT(30), <1>5
      <4>3. (copy.buf \o Bytes(r))[Len(copy.buf) + j] = Bytes(r)[j]
        BY <1>2, <1>5, <4>2
      <4>4. Bytes(r)[j] = <<r, j>> /\ more[i] = r BY ZenonT(30), <1>5, <2>2, <3>3
      <4> QED BY ZenonT(30), <2>1, <4>1, <4>3, <4>4 DEF x
    <3> QED BY SMTT(30), <3>1, <3>2, <3>3
  <2>8. ASSUME NEW x \in (done + 1) .. (hi + 1)
        PROVE  queued[x] \in skip \/ \E i \in 1 .. k + 1 : more[i] = x
    <3>1. k \in Nat BY ZenonT(30), <1>9
    <3>2. CASE x = r
      <4>1. k + 1 \in 1 .. k + 1 BY <3>1
      <4> QED BY ZenonT(30), <2>2, <3>2, <4>1
    <3>3. CASE x # r
      <4>0. r = hi + 1 /\ hi \in Nat BY <1>4
      <4>1. x \in (done + 1) .. hi BY <3>3, <4>0
      <4>2. queued[x] \in skip \/ \E i \in 1 .. k : kept[i] = x BY ZenonT(30), <1>9, <4>1
      <4>3. \A i \in 1 .. k : i \in 1 .. k + 1 BY <3>1
      <4> QED BY ZenonT(30), <2>2, <4>2, <4>3
    <3> QED BY ZenonT(30), <3>2, <3>3
  <2>9. queued' = queued /\ skip' = skip BY <1>1
  <2>10. Keeps(more, hi + 1)
    BY ZenonT(30), <2>2, <2>3, <2>5, <2>6, <2>7, <2>8, <2>9
  <2> QED BY ZenonT(30), <1>13, <2>10
<1> QED BY <1>11, <1>12

\* After a send, taken or failed, the next set is the first of the channel.
LEMMA CopyOver ==
  ASSUME NEW a \in Nat, copy' = NotCopying
  PROVE  Copying(a, a)'
PROOF
<1>1. /\ copy'.packets = <<>> /\ copy'.next = 1 /\ copy'.buf = <<>> /\ ~copy'.running
      /\ copy'.segment_size = 0
  BY ZenonT(30) DEF NotCopying
<1>2. Holds(<<>>, a, a)'
  <2>1. Len(copy'.buf) = 0 /\ 0 * copy'.segment_size = 0 BY <1>1
  <2>2. <<>> \in Seq(Nat) /\ Len(<<>>) = 0 OBVIOUS
  <2>3. (a + 1) .. a = {} /\ 1 .. 0 = {} OBVIOUS
  <2> QED BY ZenonT(30), <2>1, <2>2, <2>3 DEF Holds
<1>3. (a + copy.next - 1)' = a BY <1>1
<1> QED BY <1>1, <1>2, <1>3 DEF Copying, Run, Even

\* The kernel cuts what to_transmit has copied into the packets it was made of.
LEMMA SegmentsFacts ==
  ASSUME TypeInv, NEW done \in Nat, NEW a \in Nat, a <= Len(queued), Copying(done, a), Copied,
         NEW kept, Holds(kept, done, a)
  PROVE  LET seg == Segments(copy.buf, SegmentSize)
         IN  /\ seg \in Seq(Seq(Byte))
             /\ \/ kept = <<>> /\ seg = << <<>> >>
                \/ Len(seg) = Len(kept) /\ \A i \in 1 .. Len(kept) : seg[i] = Bytes(kept[i])
PROOF
<1> DEFINE n == copy.segment_size
           buf == copy.buf
           seg == Segments(buf, SegmentSize)
           k == Len(kept)
<1>1. buf \in Seq(Byte) /\ n \in Nat /\ Len(queued) \in Nat /\ Len(copy.packets) \in Nat
  BY ZenonT(30), Types
<1>2. /\ kept \in Seq(Nat) /\ k \in Nat /\ Len(buf) = k * n
      /\ \A i \in 1 .. k : kept[i] \in (done + 1) .. a
      /\ \A i, j \in 1 .. k : i < j => kept[i] < kept[j]
      /\ \A i \in 1 .. k : \A j \in 1 .. n : buf[(i - 1) * n + j] = <<kept[i], j>>
  <2>1. kept \in Seq(Nat) BY ZenonT(30) DEF Holds
  <2>2. k \in Nat BY ZenonT(30), <2>1, LenProperties
  <2> QED BY ZenonT(30), <2>1, <2>2 DEF Holds
<1>3. ASSUME NEW i \in 1 .. k
      PROVE  /\ BufLen(kept[i]) = n /\ n \in Nat \ {0} /\ DOMAIN Bytes(kept[i]) = 1 .. n
             /\ \A j \in 1 .. n : Bytes(kept[i])[j] = <<kept[i], j>>
             /\ Bytes(kept[i]) \in Seq(Byte) /\ Len(Bytes(kept[i])) = n
  <2> DEFINE x == kept[i] - done
  <2>1. kept[i] \in (done + 1) .. a /\ Len(copy.packets) = a - done
    BY ZenonT(30), <1>2 DEF Copying, Run
  <2>2. x \in 1 .. Len(copy.packets) /\ done + x = kept[i] BY ZenonT(30), <2>1, Offset
  <2>3. copy.packets[x] = kept[i] BY ZenonT(30), <2>2 DEF Copying, Run
  <2>4. BufLen(kept[i]) = n BY ZenonT(30), <2>2, <2>3 DEF Copying, Even
  <2>5. kept[i] \in 1 .. Len(queued) BY ZenonT(30), <1>1, <2>1, Between
  <2> QED BY ZenonT(30), <2>4, <2>5, BytesFacts
<1>4. SegmentSize = 0 \/ SegmentSize = n BY DEF SegmentSize
<1>5. CASE k = 0
  <2>1. Len(buf) = 0 BY <1>1, <1>2, <1>5
  <2>2. buf = <<>> /\ kept = <<>> BY <1>1, <1>2, <1>5, <2>1
  <2>3. SegmentSize \in Nat BY <1>1, <1>4
  <2>4. seg = <<buf>> BY <2>1, <2>3 DEF Segments
  <2>5. << <<>> >> \in Seq(Seq(Byte)) BY <1>1, <2>2
  <2> QED BY ZenonT(30), <2>2, <2>4, <2>5
<1>6. CASE k = 1
  <2>1. Len(buf) = n BY <1>1, <1>2, <1>6
  <2>2. seg = <<buf>> BY <1>1, <1>4, <2>1 DEF Segments
  <2>3. 1 \in 1 .. k BY <1>6
  <2>4. buf = Bytes(kept[1])
    <3>1. \A j \in 1 .. n : buf[j] = <<kept[1], j>>
      <4>1. \A j \in 1 .. n : (1 - 1) * n + j = j BY <1>1
      <4> QED BY ZenonT(30), <1>2, <2>3, <4>1
    <3>2. Bytes(kept[1]) \in Seq(Byte) /\ Len(Bytes(kept[1])) = n
          /\ \A j \in 1 .. n : Bytes(kept[1])[j] = <<kept[1], j>>
      BY ZenonT(30), <1>3, <2>3
    <3> HIDE DEF buf
    <3> QED BY ZenonT(30), <1>1, <2>1, <3>1, <3>2, SeqEqual
  <2>5. seg \in Seq(Seq(Byte)) /\ Len(seg) = 1 /\ seg[1] = buf BY <1>1, <2>2
  <2> QED BY <1>6, <2>4, <2>5
<1>7. CASE k > 1
  <2>1. 1 \in 1 .. k /\ 2 \in 1 .. k BY <1>2, <1>7
  <2>2. kept[1] < kept[2] /\ kept[1] \in (done + 1) .. a /\ kept[2] \in (done + 1) .. a
    BY <1>2, <2>1
  <2>3. Len(copy.packets) = a - done BY ZenonT(30) DEF Copying, Run
  <2>4. Len(copy.packets) # 1 BY <2>2, <2>3
  <2>5. SegmentSize = n BY <2>4 DEF SegmentSize
  <2>6. n \in Nat \ {0} BY ZenonT(30), <1>3, <2>1
  <2> HIDE DEF n, buf, k
  <2>7. /\ Segments(buf, n) \in Seq(Seq(Byte)) /\ Len(Segments(buf, n)) = k
        /\ \A i \in 1 .. k : /\ Len(Segments(buf, n)[i]) = n
                             /\ \A j \in 1 .. n : Segments(buf, n)[i][j] = buf[(i - 1) * n + j]
    <3>1. buf \in Seq(Byte) /\ k \in Nat /\ Len(buf) = k * n /\ k > 1
      BY ZenonT(30), <1>1, <1>2, <1>7 DEF n, buf, k
    <3>2. Segments(buf, n) \in Seq(Seq(Byte)) /\ CutInto(Segments(buf, n), buf, n, k)
      BY ZenonT(30), <2>6, <3>1, Cutting
    <3> QED BY ZenonT(30), <3>2 DEF CutInto
  <2>8. seg = Segments(buf, n) BY <2>5
  <2> HIDE DEF seg
  <2>9. ASSUME NEW i \in 1 .. k PROVE seg[i] = Bytes(kept[i])
    <3>1. seg[i] \in Seq(Byte) /\ Len(seg[i]) = n BY SMTT(30), <1>2, <2>7, <2>8
    <3>2. \A j \in 1 .. n : seg[i][j] = <<kept[i], j>> BY ZenonT(30), <1>2, <2>7, <2>8
    <3>3. /\ Bytes(kept[i]) \in Seq(Byte) /\ Len(Bytes(kept[i])) = n
          /\ \A j \in 1 .. n : Bytes(kept[i])[j] = <<kept[i], j>>
      BY ZenonT(30), <1>3
    <3> QED BY ZenonT(30), <3>1, <3>2, <3>3, SeqEqual
  <2> QED BY ZenonT(30), <2>7, <2>8, <2>9 DEF seg, k, buf
<1>8. k = 0 \/ k = 1 \/ k > 1
  <2>1. k \in Nat BY ZenonT(30), <1>2
  <2>2. ASSUME NEW x \in Nat PROVE x = 0 \/ x = 1 \/ x > 1 OBVIOUS
  <2> QED BY ZenonT(30), <2>1, <2>2
<1> QED BY ZenonT(30), <1>5, <1>6, <1>7, <1>8

\* When a set has been copied, the buffer holds its packets.
LEMMA CopiedHolds ==
  ASSUME TypeInv, NEW done \in Nat, NEW a \in Nat, Copying(done, a), Copied
  PROVE  done <= a /\ \E kept : Holds(kept, done, a)
PROOF
<1>1. /\ copy.next \in Nat /\ Len(copy.packets) \in Nat /\ copy.next > Len(copy.packets)
      /\ copy.next <= Len(copy.packets) + 1 /\ Len(copy.packets) = a - done
  BY ZenonT(30), Types DEF Copied, Copying, Run
<1>2. done + copy.next - 1 = a /\ done <= a BY <1>1
<1> QED BY ZenonT(30), <1>2 DEF Copying

\* The datagrams of a set go out after those before it, one for each packet that
\* is not skipped, or an empty one.
LEMMA TransmitStep ==
  ASSUME TypeInv, NEW done \in Nat, NEW a \in Nat, a <= Len(queued), Copying(done, a),
         OnWire(done), Transmit
  PROVE  OnWire(a)'
PROOF
<1> DEFINE seg == Segments(copy.buf, SegmentSize)
           w == Len(wire)
<1>1. Copied /\ wire' = wire \o seg /\ UNCHANGED <<size, queued, skip, given_up>>
  BY ZenonT(30) DEF Transmit, streamVars
<1>2. done <= a BY ZenonT(30), <1>1, CopiedHolds
<1>3. PICK kept : Holds(kept, done, a) BY ZenonT(30), <1>1, CopiedHolds
<1>4. /\ seg \in Seq(Seq(Byte))
      /\ \/ kept = <<>> /\ seg = << <<>> >>
         \/ Len(seg) = Len(kept) /\ \A i \in 1 .. Len(kept) : seg[i] = Bytes(kept[i])
  BY <1>1, <1>3, SegmentsFacts
<1>5. /\ kept \in Seq(Nat) /\ Len(kept) \in Nat
      /\ \A i \in 1 .. Len(kept) : kept[i] \in (done + 1) .. a
      /\ \A i, j \in 1 .. Len(kept) : i < j => kept[i] < kept[j]
      /\ \A r \in (done + 1) .. a :
           queued[r] \in skip \/ \E i \in 1 .. Len(kept) : kept[i] = r
  <2>1. kept \in Seq(Nat) BY ZenonT(30), <1>3 DEF Holds
  <2>2. Len(kept) \in Nat BY ZenonT(30), <2>1, LenProperties
  <2> QED BY ZenonT(30), <1>3, <2>1, <2>2 DEF Holds
<1> HIDE DEF seg
<1>6. /\ wire \in Seq(Seq(Byte)) /\ w \in Nat /\ Len(queued) \in Nat /\ Len(seg) \in Nat
      /\ wire' \in Seq(Seq(Byte)) /\ Len(wire') = w + Len(seg)
      /\ \A i \in 1 .. w : wire'[i] = wire[i]
      /\ \A i \in 1 .. Len(seg) : wire'[w + i] = seg[i]
  <2>1. wire \in Seq(Seq(Byte)) /\ Len(queued) \in Nat BY ZenonT(30), Types DEF OnWire
  <2>2. seg \in Seq(Seq(Byte)) /\ wire' = wire \o seg BY <1>1, <1>4
  <2> QED BY <2>1, <2>2
<1>7. \A r \in 1 .. Len(queued) : Bytes(r)' = Bytes(r) BY ZenonT(30), <1>1 DEF Bytes, BufLen
<1>8. ASSUME NEW i \in 1 .. Len(seg)
      PROVE  seg[i] = <<>> \/ (i \in 1 .. Len(kept) /\ seg[i] = Bytes(kept[i]))
  <2>1. CASE seg = << <<>> >>
    <3>1. i = 1 BY <2>1
    <3> QED BY <2>1, <3>1
  <2>2. CASE Len(seg) = Len(kept) /\ \A x \in 1 .. Len(kept) : seg[x] = Bytes(kept[x])
    BY ZenonT(30), <2>2
  <2> QED BY ZenonT(30), <1>4, <2>1, <2>2
<1>9. ASSUME NEW i \in 1 .. Len(wire')
      PROVE  \/ i \in 1 .. w /\ wire'[i] = wire[i]
             \/ \E x \in 1 .. Len(seg) : i = w + x /\ wire'[i] = seg[x]
  <2>1. CASE i <= w
    <3>1. i \in 1 .. w BY ZenonT(30), <1>6, <2>1, InFirst
    <3> QED BY ZenonT(30), <1>6, <3>1
  <2>2. CASE i > w
    <3>1. i - w \in 1 .. Len(seg) /\ i = w + (i - w) BY <1>6, <2>2
    <3> QED BY ZenonT(30), <1>6, <3>1
  <2>3. i <= w \/ i > w BY ZenonT(30), <1>6, InFirst
  <2> QED BY ZenonT(30), <2>1, <2>2, <2>3
<1>10. ASSUME NEW i \in 1 .. w
       PROVE  wire[i] = <<>> \/ \E r \in 1 .. done : wire[i] = Bytes(r)
  BY ZenonT(30) DEF OnWire
<1>11. \A i \in 1 .. Len(wire') :
         wire'[i] = <<>> \/ \E r \in 1 .. a : wire'[i] = Bytes(r)'
  <2> TAKE i \in 1 .. Len(wire')
  <2>1. CASE i \in 1 .. w /\ wire'[i] = wire[i]
    <3>1. CASE wire[i] = <<>> BY ZenonT(30), <2>1, <3>1
    <3>2. ASSUME NEW r \in 1 .. done, wire[i] = Bytes(r) PROVE \E y \in 1 .. a : wire'[i] = Bytes(y)'
      <4>1. r \in 1 .. a /\ r \in 1 .. Len(queued) BY <1>2, <1>6
      <4> QED BY ZenonT(30), <1>7, <2>1, <3>2, <4>1
    <3> QED BY ZenonT(30), <1>10, <2>1, <3>1, <3>2
  <2>2. ASSUME NEW x \in 1 .. Len(seg), wire'[i] = seg[x]
        PROVE  wire'[i] = <<>> \/ \E r \in 1 .. a : wire'[i] = Bytes(r)'
    <3>1. CASE seg[x] = <<>> BY ZenonT(30), <2>2, <3>1
    <3>2. CASE x \in 1 .. Len(kept) /\ seg[x] = Bytes(kept[x])
      <4>1. kept[x] \in (done + 1) .. a BY ZenonT(30), <1>5, <3>2
      <4>2. kept[x] \in 1 .. a /\ kept[x] \in 1 .. Len(queued) BY ZenonT(30), <1>6, <4>1, Between
      <4> QED BY ZenonT(30), <1>7, <2>2, <3>2, <4>2
    <3> QED BY ZenonT(30), <1>8, <3>1, <3>2
  <2> QED BY ZenonT(30), <1>9, <2>1, <2>2
<1>12. ASSUME NEW i \in 1 .. Len(wire'), NEW j \in 1 .. Len(wire'), i < j,
              wire'[i] # <<>>, wire'[j] # <<>>
       PROVE  wire'[i][1][1] < wire'[j][1][1]
  <2>1. ASSUME NEW x \in 1 .. Len(seg), seg[x] # <<>>
        PROVE  x \in 1 .. Len(kept) /\ seg[x][1][1] = kept[x] /\ kept[x] \in (done + 1) .. a
    <3>1. x \in 1 .. Len(kept) /\ seg[x] = Bytes(kept[x]) BY ZenonT(30), <1>8, <2>1
    <3>2. kept[x] \in (done + 1) .. a BY ZenonT(30), <1>5, <3>1
    <3>0. Len(queued) \in Nat BY ZenonT(30), <1>6
    <3>3. kept[x] \in 1 .. Len(queued) BY ZenonT(30), <3>0, <3>2, Between
    <3>4. Bytes(kept[x])[1][1] = kept[x] BY ZenonT(30), <3>3, BytesFacts
    <3> QED BY ZenonT(30), <3>1, <3>2, <3>4
  <2>2. ASSUME NEW x \in 1 .. w, wire[x] # <<>> PROVE wire[x][1][1] \in 1 .. done
    <3>1. PICK r \in 1 .. done : wire[x] = Bytes(r) BY ZenonT(30), <1>10, <2>2
    <3>2. r \in 1 .. Len(queued) BY <1>2, <1>6
    <3>3. Bytes(r)[1][1] = r BY ZenonT(30), <3>2, BytesFacts
    <3> QED BY ZenonT(30), <3>1, <3>3
  <2>3. CASE i \in 1 .. w /\ j \in 1 .. w
    <3>1. wire'[i] = wire[i] /\ wire'[j] = wire[j] BY ZenonT(30), <1>6, <2>3
    <3> QED BY ZenonT(30), <1>12, <2>3, <3>1 DEF OnWire, SentInOrder, SentRef
  <2>4. ASSUME i \in 1 .. w, NEW y \in 1 .. Len(seg), wire'[j] = seg[y]
        PROVE  wire'[i][1][1] < wire'[j][1][1]
    <3>1. wire'[i] = wire[i] BY ZenonT(30), <1>6, <2>4
    <3>2. wire[i][1][1] \in 1 .. done BY ZenonT(30), <1>12, <2>2, <2>4, <3>1
    <3>3. seg[y][1][1] \in (done + 1) .. a BY ZenonT(30), <1>12, <2>1, <2>4
    <3>4. wire[i][1][1] < seg[y][1][1] BY ZenonT(30), <3>2, <3>3, Ordered
    <3> QED BY ZenonT(30), <2>4, <3>1, <3>4
  <2>5. ASSUME NEW x \in 1 .. Len(seg), NEW y \in 1 .. Len(seg), i = w + x, j = w + y,
               wire'[i] = seg[x], wire'[j] = seg[y]
        PROVE  wire'[i][1][1] < wire'[j][1][1]
    <3>1. x < y BY <1>6, <1>12, <2>5
    <3>2. x \in 1 .. Len(kept) /\ seg[x][1][1] = kept[x] BY ZenonT(30), <1>12, <2>1, <2>5
    <3>3. y \in 1 .. Len(kept) /\ seg[y][1][1] = kept[y] BY ZenonT(30), <1>12, <2>1, <2>5
    <3>4. kept[x] < kept[y] BY ZenonT(30), <1>5, <3>1, <3>2, <3>3
    <3> QED BY ZenonT(30), <2>5, <3>2, <3>3, <3>4
  <2>6. i \in 1 .. w \/ \E x \in 1 .. Len(seg) : i = w + x /\ wire'[i] = seg[x] BY ZenonT(30), <1>9
  <2>7. j \in 1 .. w \/ \E y \in 1 .. Len(seg) : j = w + y /\ wire'[j] = seg[y] BY ZenonT(30), <1>9
  <2>8. ~ (j \in 1 .. w /\ i \notin 1 .. w) BY <1>6, <1>12
  <2> QED BY ZenonT(30), <2>3, <2>4, <2>5, <2>6, <2>7, <2>8
<1>13. SentInOrder' BY ZenonT(30), <1>12 DEF SentInOrder, SentRef
<1>14. ASSUME ~given_up, NEW r \in 1 .. a
       PROVE  queued[r] \in skip \/ \E i \in 1 .. Len(wire') : wire'[i] = Bytes(r)'
  <2>1. r \in 1 .. Len(queued) BY <1>6
  <2>2. CASE r <= done
    <3>1. queued[r] \in skip \/ \E i \in 1 .. w : wire[i] = Bytes(r) BY <1>14, <2>2 DEF OnWire
    <3>2. 1 .. w \subseteq 1 .. Len(wire') BY <1>6
    <3> QED BY ZenonT(30), <1>6, <1>7, <2>1, <3>1, <3>2
  <2>3. CASE r > done
    <3>1. r \in (done + 1) .. a BY <2>3
    <3>2. CASE queued[r] \in skip BY ZenonT(30), <3>2
    <3>3. ASSUME NEW i \in 1 .. Len(kept), kept[i] = r
          PROVE  \E x \in 1 .. Len(wire') : wire'[x] = Bytes(r)'
      <4>1. Len(seg) = Len(kept) /\ seg[i] = Bytes(r)
        <5>1. kept # <<>> BY <3>3
        <5> QED BY ZenonT(30), <1>4, <3>3, <5>1
      <4>0. i \in 1 .. Len(seg) BY ZenonT(30), <4>1
      <4>2. w + i \in 1 .. Len(wire')
        <5>1. w \in Nat /\ Len(seg) \in Nat /\ Len(wire') = w + Len(seg) BY ZenonT(30), <1>6
        <5> QED BY <4>0, <5>1
      <4>3. wire'[w + i] = seg[i] BY ZenonT(30), <1>6, <4>0
      <4> QED BY ZenonT(30), <1>7, <2>1, <4>1, <4>2, <4>3
    <3> QED BY ZenonT(30), <1>5, <3>1, <3>2, <3>3
  <2> QED BY <2>2, <2>3
<1> QED BY ZenonT(30), <1>1, <1>6, <1>11, <1>13, <1>14 DEF OnWire

\* A set whose send failed is given up, and the wire stays as it is.
LEMMA FailStep ==
  ASSUME TypeInv, NEW done \in Nat, NEW a \in Nat, a <= Len(queued), Copying(done, a),
         OnWire(done), TransmitFails
  PROVE  OnWire(a)'
PROOF
<1>1. Copied /\ given_up' /\ UNCHANGED <<size, queued, skip, wire>>
  BY ZenonT(30) DEF TransmitFails, streamVars
<1>2. done <= a BY ZenonT(30), <1>1, CopiedHolds
<1>3. \A r : Bytes(r)' = Bytes(r) BY ZenonT(30), <1>1 DEF Bytes, BufLen
<1>4. \A i \in 1 .. Len(wire) : wire[i] = <<>> \/ \E r \in 1 .. a : wire[i] = Bytes(r)
  BY <1>2 DEF OnWire
<1>5. \A i \in 1 .. Len(wire') : wire'[i] = <<>> \/ \E r \in 1 .. a : wire'[i] = Bytes(r)'
  BY ZenonT(30), <1>1, <1>3, <1>4
<1>6. SentInOrder' BY ZenonT(30), <1>1 DEF OnWire, SentInOrder, SentRef
<1> QED BY ZenonT(30), <1>1, <1>5, <1>6 DEF OnWire

-----------------------------------------------------------------------------
(* The invariant holds *)

\* Before anything is queued, everything is in place.
LEMMA BatchInit == Init => BatchInv
PROOF
<1> SUFFICES ASSUME Init PROVE BatchInv OBVIOUS
<1>1. TypeInv
  <2>1. QueueTypes BY DEF Init, QueueTypes
  <2>2. CollectTypes BY DEF Init, CollectTypes, NotCollecting
  <2>3. CopyTypes BY DEF Init, CopyTypes, NotCopying
  <2>4. send_rx \in Seq(Set) /\ max_gso_segments \in Nat BY BatchAssumption DEF Init
  <2>5. given_up \in BOOLEAN BY ZenonT(30) DEF Init
  <2> QED BY ZenonT(30), <2>1, <2>2, <2>3, <2>4, <2>5 DEF TypeInv
<1> DEFINE c == [i \in {0} |-> 0]
<1>2. /\ Len(send_rx) = 0 /\ Len(queued) = 0 /\ Len(send_queue) = 0 /\ Len(wire) = 0
      /\ send_queue = <<>> /\ wire = <<>> /\ send_rx = <<>>
  BY DEF Init
<1>3. 0 .. 0 = {0} /\ 1 .. 0 = {} /\ c[0] = 0 OBVIOUS
<1>4. Chain(c) BY <1>2, <1>3 DEF Chain
<1>5. Popped = 0 BY <1>2 DEF Popped
<1>6. collect.queue = <<>> /\ ~collect.running BY ZenonT(30) DEF Init, NotCollecting
<1>7. Collecting(0) BY <1>2, <1>3, <1>5, <1>6 DEF Collecting, Run, Even
<1>8. /\ copy.packets = <<>> /\ copy.next = 1 /\ copy.buf = <<>> /\ ~copy.running
      /\ copy.segment_size = 0
  BY ZenonT(30) DEF Init, NotCopying
<1>9. Holds(<<>>, 0, 0)
  <2>1. Len(copy.buf) = 0 /\ 0 * copy.segment_size = 0 BY <1>8
  <2>2. <<>> \in Seq(Nat) /\ Len(<<>>) = 0 OBVIOUS
  <2>3. (0 + 1) .. 0 = {} OBVIOUS
  <2> QED BY ZenonT(30), <1>3, <2>1, <2>2, <2>3 DEF Holds
<1>10. Copying(0, 0)
  <2>1. 0 + copy.next - 1 = 0 /\ copy.next <= Len(copy.packets) + 1 BY <1>8
  <2> QED BY <1>3, <1>8, <1>9, <2>1 DEF Copying, Run, Even
<1>11. OnWire(0) BY <1>2, <1>3 DEF OnWire, SentInOrder
<1>12. Placed(0, c) BY ZenonT(30), <1>2, <1>3, <1>4, <1>7, <1>10, <1>11 DEF Placed
<1> QED BY <1>1, <1>12 DEF BatchInv

\* How the parts of the way of a packet follow on one another.
LEMMA PlacedFacts ==
  ASSUME TypeInv, NEW done \in Nat, NEW c, Placed(done, c)
  PROVE  /\ Len(send_rx) \in Nat /\ c[0] \in Nat /\ c[Len(send_rx)] \in Nat
         /\ done <= c[0] /\ c[0] <= Len(queued) /\ c[Len(send_rx)] <= Popped
         /\ Popped \in Nat /\ Refs(send_queue) /\ Refs(copy.packets)
PROOF
<1>1. /\ Len(send_rx) \in Nat /\ Len(copy.packets) \in Nat /\ Len(collect.queue) \in Nat
      /\ Len(queued) \in Nat /\ Len(send_queue) \in Nat
  BY ZenonT(30), Types
<1>2. Chain(c) /\ Collecting(c[Len(send_rx)]) /\ Copying(done, c[0]) BY ZenonT(30) DEF Placed
<1>3. c[0] \in Nat /\ c[Len(send_rx)] \in Nat /\ c[0] <= Len(queued) BY <1>1, <1>2 DEF Chain
<1>4. done <= c[0] BY <1>1, <1>2, <1>3 DEF Copying, Run
<1>5. c[Len(send_rx)] <= Popped /\ Popped \in Nat BY <1>1, <1>2, <1>3 DEF Collecting, Run
<1>6. Refs(send_queue)
  <2>1. /\ Popped \in Nat /\ Len(send_queue) = Len(queued) - Popped
        /\ \A i \in 1 .. Len(send_queue) : send_queue[i] = Popped + i
    BY ZenonT(30), <1>2 DEF Collecting, Run
  <2> QED BY <1>1, <2>1 DEF Refs
<1>7. Refs(copy.packets) BY ZenonT(30), <1>2 DEF Copying, Even, Refs
<1> QED BY ZenonT(30), <1>1, <1>3, <1>4, <1>5, <1>6, <1>7

\* While poll_transmit does not run and nothing is pushed, send_queue and what
\* is collected stay in place.
LEMMA CollectFrame ==
  ASSUME NEW b, Collecting(b), UNCHANGED <<size, queued, send_queue, collect>>
  PROVE  Collecting(b)'
  BY ZenonT(30) DEF Collecting, Popped, Run, Even, BufLen

\* Every step of the stream, the socket and the kernel keeps the packets in place.
LEMMA BatchStep == BatchInv /\ [Next]_vars => BatchInv'
PROOF
<1> SUFFICES ASSUME BatchInv, [Next]_vars PROVE BatchInv' OBVIOUS
<1>1. TypeInv BY DEF BatchInv
<1>2. PICK done \in Nat : \E c : Placed(done, c) BY DEF BatchInv
<1>3. PICK c : Placed(done, c) BY <1>2
<1>4. /\ Chain(c) /\ Collecting(c[Len(send_rx)]) /\ Copying(done, c[0]) /\ OnWire(done)
  BY <1>3 DEF Placed
<1>5. /\ Len(send_rx) \in Nat /\ c[0] \in Nat /\ c[Len(send_rx)] \in Nat
      /\ done <= c[0] /\ c[0] <= Len(queued) /\ Popped \in Nat
      /\ Refs(send_queue) /\ Refs(copy.packets) /\ Len(queued) \in Nat
  BY ZenonT(30), <1>1, <1>3, PlacedFacts, Types
<1>6. TypeInv' BY ZenonT(30), <1>1, <1>5, TypeStep
<1>7. Grows /\ Len(queued') \in Nat /\ done <= Len(queued)
  <2>1. Grows BY <1>1, GrowsStep
  <2>2. Len(queued') \in Nat BY <1>6 DEF TypeInv, QueueTypes
  <2> QED BY <1>5, <2>1, <2>2
<1>8. ASSUME UNCHANGED copy PROVE Copying(done, c[0])'
  BY ZenonT(30), <1>1, <1>4, <1>5, <1>7, <1>8, CopyFrame
<1>9. ASSUME UNCHANGED <<wire, given_up>> PROVE OnWire(done)'
  BY ZenonT(30), <1>1, <1>4, <1>7, <1>9, WireFrame
<1>10. ASSUME UNCHANGED send_rx PROVE Chain(c)'
  BY ZenonT(30), <1>1, <1>4, <1>7, <1>10, ChainFrame
<1>11. ASSUME NEW e \in Nat, NEW d, Placed(e, d)' PROVE BatchInv'
  BY ZenonT(30), <1>6, <1>11 DEF BatchInv
<1>12. ASSUME UNCHANGED <<send_rx, copy, wire, given_up>>, Collecting(c[Len(send_rx)])'
       PROVE  BatchInv'
  <2>1. Chain(c)' BY ZenonT(30), <1>10, <1>12
  <2>2. Copying(done, c[0])' BY ZenonT(30), <1>8, <1>12
  <2>3. OnWire(done)' BY ZenonT(30), <1>9, <1>12
  <2>4. Placed(done, c)' BY ZenonT(30), <1>12, <2>1, <2>2, <2>3 DEF Placed
  <2> QED BY <1>11, <2>4
<1>13. ASSUME NEW n \in Sizes, Queue(n) PROVE BatchInv'
  <2>1. /\ PushBack(Len(size) + 1) /\ UNCHANGED <<collect, send_rx, copy, wire, given_up>>
    BY ZenonT(30), <1>13 DEF Queue, socketVars
  <2>2. Len(size) + 1 \in Nat
    <3>1. Len(size) \in Nat BY ZenonT(30), <1>1, Types
    <3> QED BY <3>1
  <2>3. Collecting(c[Len(send_rx)])' BY ZenonT(30), <1>1, <1>4, <1>5, <1>7, <2>1, <2>2, PushStep
  <2> QED BY ZenonT(30), <1>12, <2>1, <2>3
<1>14. ASSUME NEW p \in 1 .. Len(size), Retransmit(p) PROVE BatchInv'
  <2>1. PushBack(p) /\ UNCHANGED <<collect, send_rx, copy, wire, given_up>>
    BY ZenonT(30), <1>14 DEF Retransmit, socketVars
  <2>2. p \in Nat
    <3>1. Len(size) \in Nat BY ZenonT(30), <1>1, Types
    <3> QED BY <3>1
  <2>3. Collecting(c[Len(send_rx)])' BY ZenonT(30), <1>1, <1>4, <1>5, <1>7, <2>1, <2>2, PushStep
  <2> QED BY ZenonT(30), <1>12, <2>1, <2>3
<1>15. ASSUME NEW p \in 1 .. Len(size), Acked(p) PROVE BatchInv'
  <2>1. UNCHANGED <<size, queued, send_queue, collect, send_rx, copy, wire, given_up>>
    BY ZenonT(30), <1>15 DEF Acked, socketVars
  <2>2. Collecting(c[Len(send_rx)])' BY ZenonT(30), <1>4, <2>1, CollectFrame
  <2> QED BY ZenonT(30), <1>12, <2>1, <2>2
<1>16. CASE PollTransmit
  <2>1. /\ UNCHANGED <<size, queued, send_queue, send_rx, copy, wire, given_up>>
        /\ ~collect.running /\ collect'.queue = <<>>
    BY ZenonT(30), <1>16 DEF PollTransmit, socketVars
  <2>2. collect.queue = <<>> /\ Popped' = Popped BY ZenonT(30), <1>4, <2>1 DEF Collecting, Popped
  <2>3. Collecting(c[Len(send_rx)])'
    BY <1>4, <2>1, <2>2 DEF Collecting, Run, Even
  <2> QED BY ZenonT(30), <1>12, <2>1, <2>3
<1>17. ASSUME UNCHANGED <<copy, wire, given_up>>,
              NEW d, Chain(d)', d[0] = c[0], Collecting(d[Len(send_rx)])'
       PROVE  BatchInv'
  <2>1. Copying(done, d[0])' BY ZenonT(30), <1>8, <1>17
  <2>2. OnWire(done)' BY ZenonT(30), <1>9, <1>17
  <2>3. Placed(done, d)' BY ZenonT(30), <1>17, <2>1, <2>2 DEF Placed
  <2> QED BY <1>11, <2>3
<1>18. CASE PopFront
  <2>1. PICK d : Chain(d)' /\ d[0] = c[0] /\ Collecting(d[Len(send_rx)])'
    BY ZenonT(30), <1>1, <1>4, <1>18, PopStep
  <2>2. UNCHANGED <<copy, wire, given_up>> BY <1>18 DEF PopFront, socketVars
  <2> QED BY ZenonT(30), <1>17, <2>1, <2>2
<1>19. CASE LoopEnds
  <2>1. PICK d : Chain(d)' /\ d[0] = c[0] /\ Collecting(d[Len(send_rx)])'
    BY <1>1, <1>4, <1>19, LoopEndsStep
  <2>2. UNCHANGED <<copy, wire, given_up>> BY ZenonT(30), <1>19 DEF LoopEnds, socketVars
  <2> QED BY <1>17, <2>1, <2>2
<1>20. CASE TakeSet
  <2>1. PICK d : Chain(d)' /\ Copying(done, d[0])' /\ d[Len(send_rx')] = c[Len(send_rx)]
    BY ZenonT(30), <1>1, <1>4, <1>20, TakeStep
  <2>2. UNCHANGED <<size, queued, send_queue, collect, wire, given_up>>
    BY ZenonT(30), <1>20 DEF TakeSet, streamVars
  <2>3. Collecting(c[Len(send_rx)]) BY ZenonT(30), <1>4
  <2>4. Collecting(d[Len(send_rx)])'
    BY ZenonT(30), <2>1, <2>2, <2>3 DEF Collecting, Popped, Run, Even, BufLen
  <2>5. OnWire(done)' BY ZenonT(30), <1>9, <2>2
  <2>6. Placed(done, d)' BY ZenonT(30), <2>1, <2>4, <2>5 DEF Placed
  <2> QED BY <1>11, <2>6
<1>21. CASE CopyPacket
  <2>1. UNCHANGED <<size, queued, send_queue, collect, send_rx, wire, given_up>>
    BY <1>21 DEF CopyPacket, streamVars
  <2>2. Copying(done, c[0])' BY ZenonT(30), <1>1, <1>4, <1>5, <1>21, CopyStep
  <2>3. Collecting(c[Len(send_rx)])' BY ZenonT(30), <1>4, <2>1, CollectFrame
  <2>4. Chain(c)' /\ OnWire(done)' BY ZenonT(30), <1>9, <1>10, <2>1
  <2>5. Placed(done, c)' BY ZenonT(30), <2>2, <2>3, <2>4 DEF Placed
  <2> QED BY <1>11, <2>5
<1>22. ASSUME copy' = NotCopying, OnWire(c[0])', UNCHANGED <<streamVars, send_rx>>
       PROVE  BatchInv'
  <2>1. UNCHANGED <<size, queued, send_queue, collect, send_rx>> BY ZenonT(30), <1>22 DEF streamVars
  <2>2. Copying(c[0], c[0])' BY ZenonT(30), <1>5, <1>22, CopyOver
  <2>3. Collecting(c[Len(send_rx)])' BY ZenonT(30), <1>4, <2>1, CollectFrame
  <2>4. Chain(c)' BY <1>10, <2>1
  <2>5. Placed(c[0], c)' BY ZenonT(30), <1>22, <2>2, <2>3, <2>4 DEF Placed
  <2> QED BY ZenonT(30), <1>5, <1>11, <2>5
<1>23. CASE Transmit
  <2>1. OnWire(c[0])' BY ZenonT(30), <1>1, <1>4, <1>5, <1>23, TransmitStep
  <2> QED BY ZenonT(30), <1>22, <1>23, <2>1 DEF Transmit
<1>24. CASE TransmitFails
  <2>1. OnWire(c[0])' BY <1>1, <1>4, <1>5, <1>24, FailStep
  <2> QED BY ZenonT(30), <1>22, <1>24, <2>1 DEF TransmitFails
<1>25. CASE UNCHANGED vars
  <2>1. UNCHANGED <<size, queued, send_queue, collect, send_rx, copy, wire, given_up>>
    BY ZenonT(30), <1>25 DEF vars, streamVars, socketVars
  <2>2. Collecting(c[Len(send_rx)])' BY ZenonT(30), <1>4, <2>1, CollectFrame
  <2> QED BY ZenonT(30), <1>12, <2>1, <2>2
<1> QED
  BY ZenonT(30), <1>13, <1>14, <1>15, <1>16, <1>18, <1>19, <1>20, <1>21, <1>23, <1>24, <1>25 DEF Next

\* Packets keep their places on the way from send_queue to the wire: the inductive
\* invariant holds in every state.
THEOREM BatchInvariance == Spec => []BatchInv
PROOF
<1> QED BY BatchInit, BatchStep, PTL DEF Spec

\* For any sizes, limits and numbers of packets: what the kernel makes of the
\* buffers of to_transmit are the packets of the stream, whole, one by one.
THEOREM DatagramsIntact == Spec => []WireIntact
PROOF
<1>1. BatchInv => WireIntact
  <2> SUFFICES ASSUME BatchInv PROVE WireIntact OBVIOUS
  <2>1. TypeInv BY DEF BatchInv
  <2>2. PICK done \in Nat : \E c : Placed(done, c) BY DEF BatchInv
  <2>3. PICK c : Placed(done, c) BY <2>2
  <2>4. done <= Len(queued) /\ Len(queued) \in Nat
    <3>1. done <= c[0] /\ c[0] <= Len(queued) /\ c[0] \in Nat BY ZenonT(30), <2>1, <2>3, PlacedFacts
    <3>2. Len(queued) \in Nat BY ZenonT(30), <2>1, Types
    <3> QED BY <3>1, <3>2
  <2>5. 1 .. done \subseteq 1 .. Len(queued) BY <2>4
  <2> QED BY ZenonT(30), <2>3, <2>5 DEF Placed, OnWire, WireIntact
<1> QED BY <1>1, BatchInvariance, PTL

\* For any sizes, limits and numbers of packets: datagrams leave in the order in
\* which the packets were pushed to send_queue, and at most once for each push.
THEOREM DatagramsInOrder == Spec => []SentInOrder
PROOF
<1>1. BatchInv => SentInOrder
  <2> SUFFICES ASSUME BatchInv PROVE SentInOrder OBVIOUS
  <2>1. PICK done \in Nat : \E c : Placed(done, c) BY DEF BatchInv
  <2> QED BY ZenonT(30), <2>1 DEF Placed, OnWire
<1> QED BY <1>1, BatchInvariance, PTL

\* A push is at one of the five stages between send_queue and the wire.
LEMMA Placing ==
  \A d, a, b, p \in Nat : \A n \in Nat : \A r \in 1 .. n :
     r <= d \/ (d < r /\ r <= a) \/ (a < r /\ r <= b) \/ (b < r /\ r <= p) \/ p < r
  OBVIOUS

\* For any sizes, limits and numbers of packets: as long as no send fails, a
\* packet that was pushed to send_queue is on its way, on the wire or acknowledged.
THEOREM PacketsConserved == Spec => []Conserved
PROOF
<1>1. BatchInv => Conserved
  <2> SUFFICES ASSUME BatchInv, ~given_up, NEW r \in 1 .. Len(queued)
               PROVE  \/ queued[r] \in skip \/ Waiting(r)
                      \/ \E i \in 1 .. Len(copy.buf) : copy.buf[i][1] = r
                      \/ \E i \in 1 .. Len(wire) : wire[i] # <<>> /\ SentRef(i) = r
    BY ZenonT(30) DEF Conserved
  <2>1. TypeInv BY DEF BatchInv
  <2>2. PICK done \in Nat : \E c : Placed(done, c) BY DEF BatchInv
  <2>3. PICK c : Placed(done, c) BY <2>2
  <2> DEFINE a == c[0]
             b == c[Len(send_rx)]
  <2>4. /\ Len(send_rx) \in Nat /\ a \in Nat /\ b \in Nat /\ Popped \in Nat
        /\ done <= a /\ b <= Popped
    BY ZenonT(30), <2>1, <2>3, PlacedFacts
  <2>5. /\ Chain(c) /\ Collecting(b) /\ Copying(done, a) /\ OnWire(done)
    BY <2>3 DEF Placed
  <2>6. /\ Len(copy.packets) \in Nat /\ copy.next \in Nat /\ copy.segment_size \in Nat
        /\ Len(collect.queue) \in Nat /\ Len(send_queue) \in Nat /\ Len(queued) \in Nat
    BY ZenonT(30), <2>1, Types
  <2> HIDE DEF a, b
  <2>7. CASE r <= done
    <3>1. r \in 1 .. done BY <2>7
    <3>2. queued[r] \in skip \/ \E i \in 1 .. Len(wire) : wire[i] = Bytes(r)
      BY ZenonT(30), <2>5, <3>1 DEF OnWire
    <3>3. Bytes(r) # <<>> /\ Bytes(r)[1][1] = r BY ZenonT(30), <2>1, BytesFacts
    <3> QED BY ZenonT(30), <3>2, <3>3 DEF SentRef
  <2>8. CASE done < r /\ r <= a
    <3> DEFINE x == r - done
    <3>1. Len(copy.packets) = a - done /\ \A i \in 1 .. Len(copy.packets) : copy.packets[i] = done + i
      BY ZenonT(30), <2>5 DEF Copying, Run
    <3>2. x \in 1 .. Len(copy.packets) /\ copy.packets[x] = r
      <4>1. x \in 1 .. Len(copy.packets) /\ done + x = r BY SMTT(30), <2>4, <2>8, <3>1
      <4> QED BY ZenonT(30), <3>1, <4>1
    <3>3. CASE x >= copy.next
      <4>1. x \in copy.next .. Len(copy.packets) BY <2>6, <3>2, <3>3
      <4> QED BY ZenonT(30), <3>2, <4>1 DEF Waiting
    <3>4. CASE x < copy.next
      <4>1. PICK kept : Holds(kept, done, done + copy.next - 1) BY ZenonT(30), <2>5 DEF Copying
      <4>2. r \in (done + 1) .. (done + copy.next - 1) BY <2>6, <2>8, <3>4
      <4>3. queued[r] \in skip \/ \E i \in 1 .. Len(kept) : kept[i] = r BY ZenonT(30), <4>1, <4>2 DEF Holds
      <4>4. ASSUME NEW i \in 1 .. Len(kept), kept[i] = r
            PROVE  \E y \in 1 .. Len(copy.buf) : copy.buf[y][1] = r
        <5> DEFINE n == copy.segment_size
                   y == (i - 1) * n + 1
        <5>1. BufLen(r) = n BY ZenonT(30), <2>5, <3>2 DEF Copying, Even
        <5>2. n \in Nat \ {0} BY <2>1, <5>1, BytesFacts
        <5>3. Len(kept) \in Nat /\ Len(copy.buf) = Len(kept) * n BY <4>1 DEF Holds
        <5> HIDE DEF n
        <5>4. (i - 1) * n \in Int /\ (i - 1) * n >= 0 BY <5>2
        <5>5. (i - 1) * n < Len(kept) * n
          <6>1. i - 1 < Len(kept) BY <5>3
          <6> QED BY <5>2, <5>3, <6>1, Multiples
        <5>6. y \in 1 .. Len(copy.buf) BY <5>2, <5>3, <5>4, <5>5
        <5>7. 1 \in 1 .. n BY <5>2
        <5>8. copy.buf[y] = <<r, 1>> BY ZenonT(30), <4>1, <4>4, <5>7 DEF Holds, n
        <5> QED BY <5>6, <5>8
      <4> QED BY ZenonT(30), <4>3, <4>4
    <3> QED BY SMTT(30), <2>6, <3>2, <3>3, <3>4
  <2>9. CASE a < r /\ r <= b
    <3>1. r \in (a + 1) .. b BY <2>4, <2>9
    <3>2. PICK i \in 1 .. Len(send_rx) : r \in (c[i - 1] + 1) .. c[i]
      BY ZenonT(30), <2>5, <3>1 DEF Chain, a, b
    <3>3. c[i - 1] \in Nat /\ c[i] \in Nat
      <4>1. i - 1 \in 0 .. Len(send_rx) /\ i \in 0 .. Len(send_rx) BY <2>4
      <4> QED BY ZenonT(30), <2>5, <4>1 DEF Chain
    <3>4. Run(send_rx[i].packets, c[i - 1], c[i]) BY ZenonT(30), <2>5 DEF Chain, SetOK
    <3>5. r - c[i - 1] \in 1 .. Len(send_rx[i].packets) /\ c[i - 1] + (r - c[i - 1]) = r
      BY ZenonT(30), <3>2, <3>3, <3>4, Offset DEF Run
    <3>6. In(r, send_rx[i].packets) BY ZenonT(30), <3>4, <3>5 DEF Run, In
    <3> QED BY ZenonT(30), <3>6 DEF Waiting
  <2>10. CASE b < r /\ r <= Popped
    <3>1. r - b \in 1 .. Len(collect.queue) /\ b + (r - b) = r
      BY <2>4, <2>5, <2>10 DEF Collecting, Run
    <3>2. In(r, collect.queue) BY ZenonT(30), <2>5, <3>1 DEF Collecting, Run, In
    <3> QED BY ZenonT(30), <3>2 DEF Waiting
  <2>11. CASE Popped < r
    <3>1. r - Popped \in 1 .. Len(send_queue) /\ Popped + (r - Popped) = r
      BY <2>4, <2>5, <2>6, <2>11 DEF Collecting, Run
    <3>2. In(r, send_queue) BY ZenonT(30), <2>5, <3>1 DEF Collecting, Run, In
    <3> QED BY ZenonT(30), <3>2 DEF Waiting
  <2> QED BY ZenonT(30), <2>4, <2>7, <2>8, <2>9, <2>10, <2>11, <2>6, Placing
<1> QED BY <1>1, BatchInvariance, PTL

====
