----------------------------- MODULE UdxStream -----------------------------
(***************************************************************************)
(* The state of one udx stream and the methods that change it: struct      *)
(* UdxStreamInner of src/stream.rs.  A stream is a record; a method that   *)
(* takes &mut self is an operator from the stream before the call to the   *)
(* stream after it.  The modules that extend this one say when the methods *)
(* are called, by whom, and what becomes of the packets.                   *)
(*                                                                         *)
(* Abstractions.  A payload byte is identified by its position in the      *)
(* sequence of bytes its writer passed to poll_write, so a payload is an   *)
(* offset and a length.  Durations are not modelled: the retransmission    *)
(* timer is armed or has elapsed.  send_queue is a set: its order and its  *)
(* repetitions are lost on a network that reorders and duplicates.         *)
(***************************************************************************)
EXTENDS Integers, Sequences, FiniteSets, FiniteSetsExt

CONSTANTS
  HEADER_SIZE,     \* UDX_HEADER_SIZE, 20
  MAX_DATA_SIZE,   \* UDX_MAX_DATA_SIZE, 1380
  SSTHRESH,        \* 0xffff
  MAX_TRANSMITS,   \* UDX_MAX_TRANSMITS, 5
  Closers          \* names for the calls of close()

ASSUME ConstantsAssumption ==
  /\ HEADER_SIZE \in Nat
  /\ MAX_DATA_SIZE \in Nat \ {0}
  /\ SSTHRESH \in Nat
  /\ MAX_TRANSMITS \in Nat

\* UDX_MTU: the size of a packet with a full payload (1400 = 20 + 1380).
MTU == HEADER_SIZE + MAX_DATA_SIZE

-----------------------------------------------------------------------------
(* Types *)

Flags == {"DATA", "END", "SACK"}

\* off and len name the payload; sacks are the ranges of a SACK payload.
Packet == [typ : SUBSET Flags, seq : Nat, ack : Nat, off : Nat, len : Nat,
           sacks : Seq(Nat \X Nat)]

OutgoingPacket == [packet : Packet, waiting : BOOLEAN, transmits : Nat]

IncomingPacket == [packet : Packet, read_offset : Nat]

\* The error kinds the stream can end with: close() or drop, END received,
\* retransmissions exhausted, the socket gone.
Errors == {"ConnectionReset", "UnexpectedEof", "TimedOut", "BrokenPipe"}

StreamStates == {"Open", "LocalClosed", "RemoteClosed", "BothClosed"}

\* A map from sequence numbers to values of T, with finitely many keys.
IsMapTo(f, T) ==
  /\ f = [i \in DOMAIN f |-> f[i]]
  /\ DOMAIN f \subseteq Nat
  /\ IsFiniteSet(DOMAIN f)
  /\ \A i \in DOMAIN f : f[i] \in T

NoPackets == [i \in {} |-> 0]

\* rx_closed: the sender of the channel recv_rx has been dropped.  scheduled:
\* the runtime has been told to poll the driver.
InitialStream ==
  [incoming |-> NoPackets, outgoing |-> NoPackets, send_queue |-> {},
   rx_closed |-> FALSE,
   seq |-> 0, ack |-> 0, remote_acked |-> 0, read_cursor |-> 0,
   inflight |-> 0, cwnd |-> 2 * MTU, rto_timeout |-> "armed",
   read_waker |-> FALSE, write_waker |-> FALSE, drive_waker |-> FALSE,
   scheduled |-> TRUE, error |-> "none", state |-> "Open", on_close |-> {},
   inflight_packets |-> 0, inflight_bytes |-> 0, tx_bytes |-> 0]

StreamFields ==
  {"incoming", "outgoing", "send_queue", "seq", "ack", "remote_acked",
   "read_cursor", "inflight", "cwnd", "rto_timeout", "read_waker",
   "write_waker", "drive_waker", "scheduled", "error", "state", "on_close",
   "inflight_packets", "inflight_bytes", "tx_bytes", "rx_closed"}

StreamOK(s) ==
  /\ DOMAIN s = StreamFields
  /\ IsMapTo(s.incoming, IncomingPacket)
  /\ IsMapTo(s.outgoing, OutgoingPacket)
  /\ s.send_queue \subseteq Packet
  /\ s.seq \in Nat /\ s.ack \in Nat
  /\ s.remote_acked \in Nat /\ s.read_cursor \in Nat
  /\ s.inflight \in Nat /\ s.inflight_packets \in Nat
  /\ s.inflight_bytes \in Nat /\ s.tx_bytes \in Nat
  /\ s.cwnd \in Nat \ {0}
  /\ s.rto_timeout \in {"armed", "elapsed"}
  /\ s.read_waker \in BOOLEAN /\ s.write_waker \in BOOLEAN
  /\ s.drive_waker \in BOOLEAN /\ s.scheduled \in BOOLEAN
  /\ s.rx_closed \in BOOLEAN
  /\ s.error \in Errors \cup {"none"}
  /\ s.state \in StreamStates
  /\ s.on_close \subseteq Closers

-----------------------------------------------------------------------------
(* Helpers *)

Larger(a, b) == IF a >= b THEN a ELSE b

Smaller(a, b) == IF a <= b THEN a ELSE b

Insert(f, k, v) == [i \in DOMAIN f \cup {k} |-> IF i = k THEN v ELSE f[i]]

\* The bytes of the packets S, where size[i] <= MTU is the size of packet i.
Bytes(S, size) == {b \in S \X (1 .. MTU) : b[2] <= size[b[1]]}

\* The sum of size[i] over i in S, as the number of bytes it counts.
Total(S, size) == Cardinality(Bytes(S, size))

PacketLen(out) == [i \in DOMAIN out |-> HEADER_SIZE + out[i].packet.len]

DataLen(out) == [i \in DOMAIN out |-> out[i].packet.len]

Unread(inc) == [i \in DOMAIN inc |-> inc[i].packet.len - inc[i].read_offset]

\* The first number from a on that is not in the finite set D.
NextGap(D, a) == Min((a .. (a + Cardinality(D))) \ D)

NotWaiting(s) == {i \in DOMAIN s.outgoing : ~ s.outgoing[i].waiting}

-----------------------------------------------------------------------------
(* StreamState *)

CloseLocal(st) ==
  IF st \in {"RemoteClosed", "BothClosed"} THEN "BothClosed" ELSE "LocalClosed"

CloseRemote(st) ==
  IF st \in {"LocalClosed", "BothClosed"} THEN "BothClosed" ELSE "RemoteClosed"

LocalClosed(st) == st \in {"LocalClosed", "BothClosed"}

-----------------------------------------------------------------------------
(* Packets out *)

\* Mutant: the ack of a packet counts the packet that is expected next.
AcksExpected(s, typ, off, len) ==
  [typ |-> IF LocalClosed(s.state) THEN typ \cap {"END"} ELSE typ,
   seq |-> s.seq, ack |-> s.ack + 1, off |-> off, len |-> len, sacks |-> <<>>]

\* create_header and create_packet.
CreatePacket(s, typ, off, len) ==
  [typ |-> IF LocalClosed(s.state) THEN typ \cap {"END"} ELSE typ,
   seq |-> s.seq, ack |-> s.ack, off |-> off, len |-> len, sacks |-> <<>>]

WakeDriver(s) ==
  IF s.drive_waker THEN [s EXCEPT !.drive_waker = FALSE, !.scheduled = TRUE]
                   ELSE s

SendStatePacket(s) ==
  LET typ == IF s.error # "none" THEN {"END"} ELSE {}
  IN  WakeDriver([s EXCEPT !.send_queue = @ \cup {CreatePacket(s, typ, 0, 0)}])

\* send_data_packet returns 0 and does nothing when the window is full.
ChunkLen(n) == Smaller(n, MAX_DATA_SIZE)

\* Mutant: only the new packet is compared with the window.
WindowFullForOne(s, n) == ChunkLen(n) > s.cwnd

WindowFull(s, n) == s.inflight + ChunkLen(n) > s.cwnd

\* The next ChunkLen(n) bytes of the writer become the packet number s.seq.
QueueData(s, n) ==
  LET len == ChunkLen(n)
      packet == CreatePacket(s, {"DATA"}, s.tx_bytes, len)
  IN  [s EXCEPT
         !.seq = @ + 1,
         !.tx_bytes = @ + len,
         !.inflight_bytes = @ + len,
         !.inflight_packets = @ + 1,
         !.outgoing = Insert(@, s.seq, [packet |-> packet, waiting |-> FALSE,
                                        transmits |-> 0]),
         !.inflight = @ + HEADER_SIZE + len,
         !.send_queue = @ \cup {packet}]

\* Mutant: the driver is not woken.
QueueDataSilently(s, n) == QueueData(s, n)

SendDataPacket(s, n) == WakeDriver(QueueData(s, n))

\* Mutant: the reader is not told.
TerminateQuietly(s, err) ==
  LET s1 == SendStatePacket([s EXCEPT !.error = err, !.state = CloseLocal(@)])
  IN  WakeDriver([s1 EXCEPT !.write_waker = FALSE])

Terminate(s, err) ==
  LET s1 == SendStatePacket([s EXCEPT !.error = err, !.state = CloseLocal(@)])
  IN  WakeDriver([s1 EXCEPT !.read_waker = FALSE, !.write_waker = FALSE])

\* Mutant: a stream counts as drained while packets are unacknowledged.
ClosedAndSent(s) == s.error # "none" /\ s.send_queue = {}

ClosedAndDrained(s) ==
  s.error # "none" /\ s.send_queue = {} /\ DOMAIN s.outgoing = {}

-----------------------------------------------------------------------------
(* Packets in *)

\* Mutant: packets waiting for retransmission are subtracted again.
AckPacketsTwice(s, S) ==
  [s EXCEPT
     !.outgoing = [i \in DOMAIN @ \ S |-> s.outgoing[i]],
     !.inflight = @ - Total(S, PacketLen(s.outgoing)),
     !.inflight_bytes = @ - Total(S, DataLen(s.outgoing)),
     !.inflight_packets = @ - Cardinality(S)]

\* outgoing.remove and handle_remote_ack_for_packet for every packet of S.
AckPackets(s, S) ==
  [s EXCEPT
     !.outgoing = [i \in DOMAIN @ \ S |-> s.outgoing[i]],
     !.inflight = @ - Total(S \cap NotWaiting(s), PacketLen(s.outgoing)),
     !.inflight_bytes = @ - Total(S, DataLen(s.outgoing)),
     !.inflight_packets = @ - Cardinality(S)]

\* Mutant: the ranges of a SACK include their end.
SacksInclusive(s, p) ==
  AckPackets(s, {i \in DOMAIN s.outgoing :
                   \E k \in 1 .. (Len(p.sacks) - 1) :
                      p.sacks[k][1] <= i /\ i <= p.sacks[k][2]})

\* The loop runs while i + 8 < buf.len(): it stops before the last range.
HandleIncomingSacks(s, p) ==
  AckPackets(s, {i \in DOMAIN s.outgoing :
                   \E k \in 1 .. (Len(p.sacks) - 1) :
                      p.sacks[k][1] <= i /\ i < p.sacks[k][2]})

\* Mutant: packets older than ack are inserted again.
ReceiveAnyData(s, p) ==
  LET incoming == Insert(s.incoming, p.seq, [packet |-> p, read_offset |-> 0])
      ack == NextGap(DOMAIN incoming, s.ack)
  IN  SendStatePacket([s EXCEPT !.incoming = incoming, !.ack = ack,
                                !.read_waker = @ /\ p.seq > ack])

\* Mutant: the reader is woken for the packet that is expected next only,
\* after ack has moved on.
ReceiveDataQuietly(s, p) ==
  LET incoming == IF p.seq >= s.ack
                  THEN Insert(s.incoming, p.seq,
                              [packet |-> p, read_offset |-> 0])
                  ELSE s.incoming
      ack == NextGap(DOMAIN incoming, s.ack)
  IN  SendStatePacket([s EXCEPT !.incoming = incoming, !.ack = ack,
                                !.read_waker = @ /\ p.seq # ack])

ReceiveData(s, p) ==
  LET incoming == IF p.seq >= s.ack
                  THEN Insert(s.incoming, p.seq,
                              [packet |-> p, read_offset |-> 0])
                  ELSE s.incoming
      ack == NextGap(DOMAIN incoming, s.ack)
  IN  SendStatePacket([s EXCEPT
                         !.incoming = incoming,
                         !.ack = ack,
                         !.read_waker = @ /\ p.seq > ack])

\* Congestion control, at the end of handle_incoming.
GrowWindow(s, ack) ==
  IF ack > s.seq \/ ack <= s.remote_acked THEN s
  ELSE [s EXCEPT !.cwnd = @ + IF @ < SSTHRESH THEN MTU
                              ELSE Larger((MTU * MTU) \div @, 1)]

HandleIncoming(s, p) ==
  LET s1 == IF "SACK" \in p.typ THEN HandleIncomingSacks(s, p) ELSE s
      s2 == IF "END" \in p.typ
            THEN Terminate([s1 EXCEPT !.state = CloseRemote(@)], "UnexpectedEof")
            ELSE s1
      s3 == IF "DATA" \in p.typ THEN ReceiveData(s2, p) ELSE s2
  IN  GrowWindow(s3, p.ack)

\* Mutant: an ack does not wake the writer.
AckWithoutWake(s, ack) ==
  IF ack <= s.remote_acked THEN s
  ELSE LET s1 == AckPackets(s, {i \in DOMAIN s.outgoing :
                                  s.remote_acked <= i /\ i < ack})
       IN  [s1 EXCEPT !.remote_acked = ack, !.rto_timeout = "armed"]

\* Mutant: an ack older than the last one is taken as well.
AckInAnyOrder(s, ack) ==
  LET s1 == AckPackets(s, {i \in DOMAIN s.outgoing : i < ack})
  IN  [s1 EXCEPT !.remote_acked = ack,
                 !.write_waker = @ /\ s1.inflight + MTU > s1.cwnd,
                 !.rto_timeout = "armed"]

HandleIncomingMaxRemoteAck(s, ack) ==
  IF ack <= s.remote_acked THEN s
  ELSE LET s1 == AckPackets(s, {i \in DOMAIN s.outgoing :
                                  s.remote_acked <= i /\ i < ack})
       IN  [s1 EXCEPT !.remote_acked = ack,
                      !.write_waker = @ /\ s1.inflight + MTU > s1.cwnd,
                      !.rto_timeout = "armed"]

-----------------------------------------------------------------------------
(* Timeouts and retransmissions *)

RtoFires(s) == s.rto_timeout = "elapsed" /\ s.remote_acked # s.seq

Unacked(s) == {i \in DOMAIN s.outgoing : s.remote_acked <= i /\ i < s.seq}

\* Mutant: the count is compared after it is incremented.
ExhaustedLate(s) == {i \in Unacked(s) \cap NotWaiting(s) :
                       s.outgoing[i].transmits > MAX_TRANSMITS + 1}

\* The first exhausted packet makes poll_check_timeouts return an error.
Exhausted(s) == {i \in Unacked(s) \cap NotWaiting(s) :
                   s.outgoing[i].transmits > MAX_TRANSMITS}

\* The packets the loop marks as lost before it ends or returns.
Lost(s) == {i \in Unacked(s) \cap NotWaiting(s) : \A j \in Exhausted(s) : i < j}

\* Mutant: lost packets still count as in flight.
LostStayInflight(s) ==
  IF ~ RtoFires(s) THEN s
  ELSE [s EXCEPT
          !.rto_timeout = "armed",
          !.cwnd = Larger(MTU, @ \div 2),
          !.outgoing = [i \in DOMAIN @ |->
             IF i \in Lost(s)
             THEN [packet |-> s.outgoing[i].packet, waiting |-> TRUE,
                   transmits |-> s.outgoing[i].transmits + 1]
             ELSE s.outgoing[i]]]

\* Mutant: the next timeout is not scheduled.
TimesOutOnce(s) ==
  IF ~ RtoFires(s) THEN s
  ELSE [s EXCEPT
          !.cwnd = Larger(MTU, @ \div 2),
          !.outgoing = [i \in DOMAIN @ |->
             IF i \in Lost(s)
             THEN [packet |-> s.outgoing[i].packet, waiting |-> TRUE,
                   transmits |-> s.outgoing[i].transmits + 1]
             ELSE s.outgoing[i]],
          !.inflight = @ - Total(Lost(s), PacketLen(s.outgoing))]

PollCheckTimeouts(s) ==
  IF ~ RtoFires(s) THEN s
  ELSE [s EXCEPT
          !.rto_timeout = "armed",
          !.cwnd = Larger(MTU, @ \div 2),
          !.outgoing = [i \in DOMAIN @ |->
             IF i \in Lost(s)
             THEN [packet |-> s.outgoing[i].packet, waiting |-> TRUE,
                   transmits |-> s.outgoing[i].transmits + 1]
             ELSE s.outgoing[i]],
          !.inflight = @ - Total(Lost(s), PacketLen(s.outgoing))]

TimesOut(s) == RtoFires(s) /\ Exhausted(s) # {}

\* The waiting packets that fit the window: the loop goes up and breaks at
\* the first that does not, and sums of sizes only grow.
Flushable(s) ==
  LET waiting == Unacked(s) \ NotWaiting(s)
  IN  {i \in waiting : s.inflight + Total({j \in waiting : j <= i},
                                          PacketLen(s.outgoing)) <= s.cwnd}

FlushWaitingPackets(s) ==
  LET flushed == Flushable(s)
  IN  [s EXCEPT
         !.outgoing = [i \in DOMAIN @ |->
            IF i \in flushed THEN [s.outgoing[i] EXCEPT !.waiting = FALSE]
            ELSE s.outgoing[i]],
         !.inflight = @ + Total(flushed, PacketLen(s.outgoing)),
         !.send_queue = @ \cup {s.outgoing[i].packet : i \in flushed}]

-----------------------------------------------------------------------------
(* The reader *)

\* The packets read_next can take in turn from read_cursor on.
Run(s) == {k \in DOMAIN s.incoming :
             /\ s.read_cursor <= k
             /\ \A j \in s.read_cursor .. k : j \in DOMAIN s.incoming}

\* Those whose unread bytes fit a buffer of cap bytes whole.
FullyRead(s, cap) ==
  {k \in Run(s) : Total(s.read_cursor .. k, Unread(s.incoming)) <= cap}

\* Mutant: a packet read in part is put back as it was.
ReadNextFromStart(s, cap) ==
  LET full == FullyRead(s, cap)
  IN  [s EXCEPT !.incoming = [k \in DOMAIN @ \ full |-> s.incoming[k]],
                !.read_cursor = @ + Cardinality(full)]

\* The bytes of the first packet that does not fit fill the buffer.
ReadNext(s, cap) ==
  LET full == FullyRead(s, cap)
      next == s.read_cursor + Cardinality(full)
      rest == cap - Total(full, Unread(s.incoming))
  IN  [s EXCEPT
         !.incoming = [k \in DOMAIN @ \ full |->
            IF k = next THEN [s.incoming[k] EXCEPT !.read_offset = @ + rest]
            ELSE s.incoming[k]],
         !.read_cursor = next]

\* did_read is set for whole packets only: without one the call is Pending,
\* or an error, whatever was put into the buffer.
DidRead(s, cap) == FullyRead(s, cap) # {}

PollRead(s, cap) ==
  [ReadNext(s, cap) EXCEPT
     !.read_waker = @ \/ (~ DidRead(s, cap) /\ s.error = "none")]

-----------------------------------------------------------------------------
(* What holds of a stream between two calls *)

\* Whether a stream has got packet i of its peer: acknowledged, or held
\* beyond a gap.
Got(s, i) == i < s.ack \/ i \in DOMAIN s.incoming

\* The counters agree with the packets they count: inflight is the size of
\* the packets sent and not waiting for retransmission, the statistics are
\* about all unacknowledged packets.
CountersExact(s) ==
  /\ s.inflight = Total(NotWaiting(s), PacketLen(s.outgoing))
  /\ s.inflight_packets = Cardinality(DOMAIN s.outgoing)
  /\ s.inflight_bytes = Total(DOMAIN s.outgoing, DataLen(s.outgoing))

\* What lies between read_cursor and ack is held for the reader, what the
\* reader took is gone, and the packet expected next is not there.
WindowIntact(s) ==
  /\ s.read_cursor <= s.ack
  /\ s.read_cursor .. (s.ack - 1) \subseteq DOMAIN s.incoming
  /\ s.ack \notin DOMAIN s.incoming
  /\ \A i \in DOMAIN s.incoming : s.read_cursor <= i

=============================================================================
