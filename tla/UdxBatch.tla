------------------------------ MODULE UdxBatch ------------------------------
(***************************************************************************)
(* From a stream's send_queue to datagrams.  The stream's driver cuts its  *)
(* send_queue into packet sets (poll_transmit of src/stream.rs), a set     *)
(* waits in the socket's channel, the socket's driver copies its packets   *)
(* into one buffer (PacketSet::to_transmit of src/packet.rs), and the      *)
(* kernel cuts the buffer into datagrams again, by size alone.  The two    *)
(* drivers are two tasks: a set may be copied while the next one is being  *)
(* collected, and an acknowledgement may mark a packet to be skipped while *)
(* its set is being copied.  The retransmission timer may queue a packet   *)
(* once more, and an I/O error turns segmentation off.                     *)
(*                                                                         *)
(* A packet is its place in the order of creation and its size.  The       *)
(* queues hold references to packets (PacketRef), numbered as they are     *)
(* pushed: reference r is to packet queued[r].  A byte is the reference it *)
(* was copied through and an offset.                                       *)
(***************************************************************************)
EXTENDS Integers, Sequences

CONSTANTS
  MAX_SEGMENTS,       \* 10
  GsoSegments,        \* what gso::max_gso_segments found: 64, or 1
  HEADER_SIZE,        \* 20, the size of a state packet
  Sizes,              \* bound: the sizes of packets
  MaxPackets,         \* bound: packets created
  MaxRetransmits      \* bound: packets queued once more

ASSUME BatchAssumption ==
  /\ MAX_SEGMENTS \in Nat \ {0} /\ GsoSegments \in Nat \ {0}
  /\ HEADER_SIZE \in Nat \ {0} /\ Sizes \subseteq {n \in Nat : n >= HEADER_SIZE}

VARIABLES
  size,               \* size[p] is packet.buf.len(); p \in DOMAIN size
  send_queue,
  skip,               \* the packets whose skip is set
  collect,            \* the locals of the stream's poll_transmit
  send_rx,            \* the packet sets between stream and socket
  max_gso_segments,   \* of the UdpState the streams share
  copy,               \* the locals of to_transmit
  wire,               \* the datagrams sent
  queued,             \* queued[r] is the packet that was pushed r-th
  given_up            \* history: a transmit failed

streamVars == <<size, send_queue, skip, collect, queued>>
socketVars == <<copy, wire, given_up, max_gso_segments>>
vars == <<streamVars, send_rx, socketVars>>

NotCollecting == [running |-> FALSE, max_segments |-> 0, queue |-> <<>>, segment_size |-> 0]
NotCopying ==
  [running |-> FALSE, packets |-> <<>>, segment_size |-> 0, next |-> 1, buf |-> <<>>]

Init ==
  /\ size = <<>> /\ send_queue = <<>> /\ skip = {} /\ send_rx = <<>>
  /\ collect = NotCollecting /\ copy = NotCopying
  /\ max_gso_segments = GsoSegments
  /\ wire = <<>> /\ queued = <<>> /\ given_up = FALSE

BufLen(r) == size[queued[r]]
Bytes(r) == [i \in 1 .. BufLen(r) |-> <<r, i>>]

-----------------------------------------------------------------------------
(* The stream, which holds its lock *)

PushFront(p) ==
  /\ queued' = Append(queued, p)
  /\ send_queue' = <<Len(queued) + 1>> \o send_queue
PushBack(p) ==
  /\ queued' = Append(queued, p)
  /\ send_queue' = Append(send_queue, Len(queued) + 1)

\* send_data_packet and send_state_packet
Queue(n) ==
  /\ ~collect.running /\ Len(size) < MaxPackets
  /\ size' = Append(size, n)
  /\ PushBack(Len(size) + 1)
  /\ UNCHANGED <<skip, collect, send_rx, socketVars>>

\* The stream's outgoing: data packets that are not acknowledged.
Outgoing == {p \in 1 .. Len(size) : size[p] > HEADER_SIZE /\ p \notin skip}

\* flush_waiting_packets, for a packet the timer has declared lost, be it on the
\* network or still waiting to be sent.
Retransmit(p) ==
  /\ ~collect.running /\ Len(queued) - Len(size) < MaxRetransmits
  /\ p \in Outgoing
  /\ PushBack(p)
  /\ UNCHANGED <<size, skip, collect, send_rx, socketVars>>

Carries(datagram, p) == datagram # <<>> /\ queued[datagram[1][1]] = p

\* handle_remote_ack_for_packet, for a packet that the peer has received.
Acked(p) ==
  /\ ~collect.running
  /\ p \in Outgoing /\ \E i \in 1 .. Len(wire) : Carries(wire[i], p)
  /\ skip' = skip \cup {p}
  /\ UNCHANGED <<size, send_queue, collect, queued, send_rx, socketVars>>

\* UdxStreamInner::poll_transmit, up to its loop.
PollTransmit ==
  /\ ~collect.running /\ send_queue # <<>>
  /\ collect' = [running |-> TRUE, queue |-> <<>>, segment_size |-> 0,
                 max_segments |-> IF max_gso_segments < MAX_SEGMENTS
                                  THEN max_gso_segments ELSE MAX_SEGMENTS]
  /\ UNCHANGED <<size, send_queue, skip, queued, send_rx, socketVars>>

\* What has been collected is sent to the socket as a set.
SendSet ==
  send_rx' = IF collect.queue = <<>> THEN send_rx
             ELSE Append(send_rx, [packets |-> collect.queue,
                                   segment_size |-> collect.segment_size])

CutAtLimit(r) == Len(collect.queue) = collect.max_segments
Cut(r) == BufLen(r) # collect.segment_size \/ Len(collect.queue) = collect.max_segments

\* One turn of the loop.
PopFront ==
  /\ collect.running /\ send_queue # <<>>
  /\ LET r == Head(send_queue) IN
       \/ /\ Cut(r)
          /\ SendSet
          /\ collect' = [collect EXCEPT !.queue = <<r>>, !.segment_size = BufLen(r)]
       \/ /\ ~Cut(r)
          /\ collect' = [collect EXCEPT !.queue = Append(@, r)]
          /\ UNCHANGED send_rx
  /\ send_queue' = Tail(send_queue)
  /\ UNCHANGED <<size, skip, queued, socketVars>>

\* After the loop.
QueueDroppedAfterLoop ==
  /\ collect.running /\ send_queue = <<>>
  /\ collect' = NotCollecting
  /\ UNCHANGED <<size, send_queue, skip, queued, send_rx, socketVars>>
LoopEnds ==
  /\ collect.running /\ send_queue = <<>>
  /\ SendSet
  /\ collect' = NotCollecting
  /\ UNCHANGED <<size, send_queue, skip, queued, socketVars>>

-----------------------------------------------------------------------------
(* The socket and the kernel *)

\* poll_transmit of src/socket.rs takes a set and calls to_transmit.
TakeSet ==
  /\ ~copy.running /\ send_rx # <<>>
  /\ copy' = [running |-> TRUE, packets |-> Head(send_rx).packets,
              segment_size |-> Head(send_rx).segment_size, next |-> 1, buf |-> <<>>]
  /\ send_rx' = Tail(send_rx)
  /\ UNCHANGED <<streamVars, wire, given_up, max_gso_segments>>

\* PacketSet::to_transmit, one packet.
CopyPacket ==
  /\ copy.running /\ copy.next <= Len(copy.packets)
  /\ LET r == copy.packets[copy.next] IN
       copy' = [copy EXCEPT !.next = @ + 1,
                            !.buf = IF queued[r] \in skip THEN @ ELSE @ \o Bytes(r)]
  /\ UNCHANGED <<streamVars, send_rx, wire, given_up, max_gso_segments>>

\* The kernel, with UDP_SEGMENT: pieces of that size, the last may be shorter.
Segments(buf, n) ==
  IF n = 0 \/ Len(buf) <= n THEN <<buf>>
  ELSE [i \in {i \in 1 .. Len(buf) : (i - 1) * n < Len(buf)} |->
          SubSeq(buf, (i - 1) * n + 1, IF i * n < Len(buf) THEN i * n ELSE Len(buf))]

\* The segment_size of a Transmit; 0 is None.
SegmentSize == IF Len(copy.packets) = 1 THEN 0 ELSE copy.segment_size

Copied == copy.running /\ copy.next > Len(copy.packets)

\* sendmmsg takes it.  The socket copies several sets before it calls sendmmsg;
\* an acknowledgement that comes between the two changes none of the copies.
Transmit ==
  /\ Copied
  /\ wire' = wire \o Segments(copy.buf, SegmentSize)
  /\ copy' = NotCopying
  /\ UNCHANGED <<streamVars, send_rx, given_up, max_gso_segments>>

\* sendmmsg fails: the set is given up and, on EIO, segmentation turned off.
TransmitFails ==
  /\ Copied
  /\ max_gso_segments' \in {max_gso_segments, 1}
  /\ copy' = NotCopying
  /\ given_up' = TRUE
  /\ UNCHANGED <<streamVars, send_rx, wire>>

Next ==
  \/ \E n \in Sizes : Queue(n)
  \/ \E p \in 1 .. Len(size) : Retransmit(p) \/ Acked(p)
  \/ PollTransmit \/ PopFront \/ LoopEnds
  \/ TakeSet \/ CopyPacket \/ Transmit \/ TransmitFails

Spec == Init /\ [][Next]_vars

-----------------------------------------------------------------------------
(* Properties *)

\* Cutting the buffer by size gives the packets back: a datagram is one packet,
\* whole, whatever the sizes in the queue and whichever packets of a set were
\* skipped while to_transmit copied it.
WireIntact ==
  \A i \in 1 .. Len(wire) :
    wire[i] = <<>> \/ \E r \in 1 .. Len(queued) : wire[i] = Bytes(r)

SentRef(i) == wire[i][1][1]

\* Packets reach the kernel in the order in which they were pushed to
\* send_queue, and a push puts at most one datagram on the wire, across the cuts
\* of poll_transmit, the channel and the copying, and when sends fail.
SentInOrder ==
  \A i, j \in 1 .. Len(wire) :
    (i < j /\ wire[i] # <<>> /\ wire[j] # <<>>) => SentRef(i) < SentRef(j)

In(r, refs) == \E i \in 1 .. Len(refs) : refs[i] = r
\* r has not been copied yet.
Waiting(r) ==
  \/ In(r, send_queue) \/ In(r, collect.queue)
  \/ \E i \in 1 .. Len(send_rx) : In(r, send_rx[i].packets)
  \/ \E i \in copy.next .. Len(copy.packets) : copy.packets[i] = r

\* As long as sendmmsg takes what it is given, no packet is lost between the
\* stream and the kernel, other than acknowledged ones.
Conserved ==
  ~given_up =>
    \A r \in 1 .. Len(queued) :
      \/ queued[r] \in skip \/ Waiting(r)
      \/ \E i \in 1 .. Len(copy.buf) : copy.buf[i][1] = r
      \/ \E i \in 1 .. Len(wire) : wire[i] # <<>> /\ SentRef(i) = r

\* A packet set "may not be larger than max_segments as reported from usp_state"
\* (src/packet.rs:39).
SetsWithinLimit ==
  \A i \in 1 .. Len(send_rx) : Len(send_rx[i].packets) <= max_gso_segments

\* "If this packet was queued for sending we need to remove it from the queue."
\* (src/stream.rs:593): for an acknowledged packet nothing is sent.
NothingForAcked == \A i \in 1 .. Len(wire) : wire[i] # <<>>

=============================================================================
