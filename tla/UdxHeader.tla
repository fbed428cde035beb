------------------------------ MODULE UdxHeader ------------------------------
(***************************************************************************)
(* The bytes of a packet: Header::encode, Header::from_bytes and           *)
(* Packet::new of src/packet.rs, and what process_packet of src/socket.rs  *)
(* makes of a datagram.  A buffer is a sequence of bytes, counted from 1.  *)
(***************************************************************************)
EXTENDS Integers, Sequences

UDX_HEADER_SIZE == 20
UDX_MAGIC_BYTE == 255
UDX_VERSION == 1

\* The values of a byte, and their number.
BYTE == 256
U8 == 0 .. (BYTE - 1)
U32 == {n \in Nat : n < BYTE * (BYTE * (BYTE * BYTE))}

\* data_offset is a usize, and 0 in every header the code creates.
Header == [typ : U32, data_offset : Nat, stream_id : U32, recv_win : U32,
           seq : U32, ack : U32]

\* The headers create_header makes: typ is a union of the flags 1 .. 16.
Created == {h \in Header : h.typ \in U8 /\ h.data_offset \in U8}

-----------------------------------------------------------------------------
(* Encoding *)

\* Bytes 0 to 3 of n.to_le_bytes().
Le0(n) == n % BYTE
Le1(n) == (n \div BYTE) % BYTE
Le2(n) == ((n \div BYTE) \div BYTE) % BYTE
Le3(n) == (((n \div BYTE) \div BYTE) \div BYTE) % BYTE

HeaderBytes(h) ==
  <<UDX_MAGIC_BYTE, UDX_VERSION, h.typ % BYTE, h.data_offset % BYTE,
    Le0(h.stream_id), Le1(h.stream_id), Le2(h.stream_id), Le3(h.stream_id),
    Le0(h.recv_win), Le1(h.recv_win), Le2(h.recv_win), Le3(h.recv_win),
    Le0(h.seq), Le1(h.seq), Le2(h.seq), Le3(h.seq),
    Le0(h.ack), Le1(h.ack), Le2(h.ack), Le3(h.ack)>>

\* encode leaves a buffer that is too short as it is.
Encode(h, buf) ==
  IF Len(buf) < UDX_HEADER_SIZE THEN buf
  ELSE [i \in 1 .. Len(buf) |->
          IF i <= UDX_HEADER_SIZE THEN HeaderBytes(h)[i] ELSE buf[i]]

\* Packet::new: the header is encoded into a zeroed buffer, the body follows.
NewPacket(h, body) ==
  LET zeroed == [i \in 1 .. (UDX_HEADER_SIZE + Len(body)) |-> 0]
      encoded == Encode(h, zeroed)
  IN  [i \in 1 .. (UDX_HEADER_SIZE + Len(body)) |->
         IF i <= UDX_HEADER_SIZE THEN encoded[i] ELSE body[i - UDX_HEADER_SIZE]]

-----------------------------------------------------------------------------
(* Decoding *)

FromLe(a, b, c, d) == a + BYTE * (b + BYTE * (c + BYTE * d))

\* u32::from_le_bytes of the four bytes from buf[k] on.
ReadU32(buf, k) ==
  FromLe(buf[k], buf[k + 1], buf[k + 2], buf[k + 3])

IsUdx(buf) ==
  /\ Len(buf) >= UDX_HEADER_SIZE
  /\ buf[1] = UDX_MAGIC_BYTE /\ buf[2] = UDX_VERSION

\* from_bytes, where it does not return an error: where IsUdx holds.
FromBytes(buf) ==
  [typ |-> buf[3], data_offset |-> buf[4], stream_id |-> ReadU32(buf, 5),
   recv_win |-> ReadU32(buf, 9), seq |-> ReadU32(buf, 13), ack |-> ReadU32(buf, 17)]

\* data.split_to(UDX_HEADER_SIZE) in process_packet leaves the body.
Body(data) ==
  [i \in 1 .. (Len(data) - UDX_HEADER_SIZE) |-> data[i + UDX_HEADER_SIZE]]

=============================================================================
