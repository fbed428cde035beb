--------------------------- MODULE UdxConnProofs ---------------------------
(***************************************************************************)
(* Invariants of two connected streams (module UdxConn), for packets of    *)
(* any size, writes of any length, a network that does what it likes and   *)
(* any number of calls.                                                    *)
(***************************************************************************)
EXTENDS UdxConn, UdxStreamProofs

-----------------------------------------------------------------------------
(* The inductive invariant *)

\* What a packet m sent by a stream s says is and stays true of s.
Truthful(s, m) ==
  /\ m.ack <= s.ack
  /\ "DATA" \in m.typ => m.seq < s.seq
  /\ \A k \in 1 .. Len(m.sacks) :
        \A i \in m.sacks[k][1] .. (m.sacks[k][2] - 1) : Got(s, i)

\* One direction of a connection: the stream s, its peer r, the packets sent
\* that s has sent, and the largest ack the poll of s has seen, acked.
SideOK(s, r, sent, acked) ==
  /\ SenderOK(s) /\ WindowIntact(s)
  /\ s.remote_acked <= r.ack /\ r.ack <= s.seq /\ acked <= r.ack
  /\ DOMAIN r.incoming \subseteq 0 .. (s.seq - 1)
  /\ \A i \in 0 .. (s.seq - 1) : i \in DOMAIN s.outgoing \/ Got(r, i)
  /\ \A m \in sent \cup s.send_queue : Truthful(s, m)
  /\ \A i \in DOMAIN s.outgoing : Truthful(s, s.outgoing[i].packet)

\* What the variables other than stream satisfy by themselves.
EnvironmentOK ==
  /\ net \in [End -> SUBSET Packet]
  /\ recv_rx \in [End -> SUBSET Packet]
  /\ phase \in [End -> {"idle", "incoming", "writing"}]
  /\ remote_ack \in [End -> Nat]
  /\ left \in [End -> Nat]
  /\ driver \in [End -> {"running", "returned", "dropping", "dropped"}]
  /\ handles \in [End -> Nat] /\ dropping \in [End -> Nat]
  /\ closing \in [End -> [Closers -> {"none", "pending", "resolved"}]]
  /\ delivered \in [End -> Nat]
  /\ intact \in [End -> BOOLEAN]
  /\ \A e \in End : recv_rx[e] \subseteq net[e]
  /\ \A e \in End : phase[e] = "writing" => left[e] # 0

IInv ==
  /\ DOMAIN stream = End
  /\ \A e \in End : StreamOK(stream[e])
  /\ \A e \in End : SideOK(stream[e], stream[Peer(e)], net[Peer(e)], remote_ack[e])
  /\ EnvironmentOK

-----------------------------------------------------------------------------
(* Facts about the two directions *)

\* The two ends are each other's peers.
LEMMA PeerFacts ==
  ASSUME NEW e \in End
  PROVE  /\ Peer(e) \in End /\ Peer(e) # e /\ Peer(Peer(e)) = e
         /\ \A x \in End : x = e \/ x = Peer(e)
<1>1. PICK a, b \in End : a # b /\ End = {a, b}
  BY EndsAssumption
<1>2. \A x \in End : Peer(x) \in End /\ Peer(x) # x
  BY <1>1 DEF Peer
<1> QED BY <1>1, <1>2

\* A stream grows: it numbers more packets and has got more of its peer's.
Grows(s, t) ==
  /\ s.seq <= t.seq /\ s.ack <= t.ack
  /\ \A i \in Nat : Got(s, i) => Got(t, i)

\* The last number of an interval, and what bounds it.
LEMMA LastOfInterval ==
  \A x, y, z \in Nat : /\ x <= y /\ y <= z /\ y # z => z - 1 \in x .. (z - 1)
                       /\ z - 1 \in 0 .. (x - 1) => z <= x
  OBVIOUS

\* DropBegins needs a handle, and a second one while the first is writing.
LEMMA HandleHeld ==
  ASSUME NEW h \in Nat, NEW w, h > IF w THEN 1 ELSE 0
  PROVE  h > 0
  OBVIOUS

\* A number does not precede itself.
LEMMA NotLess == \A x \in Nat : ~ (x < x)
  OBVIOUS

\* The cumulative ack taken is the larger one.
LEMMA LargerBounds == \A x, y \in Nat : x <= Larger(x, y)
  BY DEF Larger

\* A stream that numbers, acknowledges and holds more than before has grown.
LEMMA HoldsMore ==
  ASSUME NEW s, NEW t, s.seq <= t.seq, s.ack \in Nat, t.ack \in Nat, s.ack <= t.ack,
         DOMAIN s.incoming \subseteq DOMAIN t.incoming
  PROVE  Grows(s, t)
<1>1. ASSUME NEW i \in Nat, Got(s, i) PROVE Got(t, i)
  BY <1>1 DEF Got
<1> QED BY <1>1 DEF Grows

\* The receive window depends on incoming, ack and read_cursor only.
LEMMA SameWindow ==
  ASSUME NEW s, NEW t, WindowIntact(s), t.incoming = s.incoming, t.ack = s.ack,
         t.read_cursor = s.read_cursor
  PROVE  WindowIntact(t)
BY DEF WindowIntact

\* What a packet says stays true while its sender goes on: acks are
\* cumulative and what a SACK lists is not given up.
LEMMA TruthfulGrows ==
  ASSUME NEW s, NEW t, StreamOK(s), StreamOK(t), Grows(s, t),
         NEW m \in Packet, Truthful(s, m)
  PROVE  Truthful(t, m)
<1>1. m.ack \in Nat /\ m.seq \in Nat /\ m.sacks \in Seq(Nat \X Nat)
  BY DEF Packet
<1>2. s.ack \in Nat /\ t.ack \in Nat /\ s.seq \in Nat /\ t.seq \in Nat
  BY ZenonT(30) DEF StreamOK
<1>3. m.ack <= t.ack /\ ("DATA" \in m.typ => m.seq < t.seq)
  BY <1>1, <1>2 DEF Truthful, Grows
<1>4. ASSUME NEW k \in 1 .. Len(m.sacks),
             NEW i \in m.sacks[k][1] .. (m.sacks[k][2] - 1)
      PROVE  Got(t, i)
  <2>1. m.sacks[k] \in Nat \X Nat
    BY <1>1
  <2>2. i \in Nat
    BY <2>1
  <2> QED BY <2>2 DEF Truthful, Grows
<1> QED BY <1>3, <1>4 DEF Truthful

\* A state packet (send_state_packet) says no more than the ack it carries.
LEMMA StateTruthful ==
  ASSUME NEW s, NEW m, m.typ \subseteq {"END"}, m.ack <= s.ack, m.sacks = <<>>
  PROVE  Truthful(s, m)
<1>1. "DATA" \notin m.typ
  OBVIOUS
<1>2. Len(m.sacks) = 0
  OBVIOUS
<1> QED BY <1>1, <1>2 DEF Truthful

\* A peer that grows keeps the other direction as it was.
LEMMA PeerSide ==
  ASSUME NEW r, NEW s, NEW t, StreamOK(r), StreamOK(s), StreamOK(t),
         NEW n, NEW a \in Nat, SideOK(r, s, n, a), Grows(s, t),
         t.ack <= r.seq, DOMAIN t.incoming \subseteq 0 .. (r.seq - 1)
  PROVE  SideOK(r, t, n, a)
<1> USE ZenonT(30)
<1>1. /\ s.ack \in Nat /\ t.ack \in Nat /\ r.remote_acked \in Nat /\ r.seq \in Nat
  BY DEF StreamOK
<1>2. r.remote_acked <= t.ack /\ a <= t.ack
  BY LeqTrans, <1>1 DEF SideOK, Grows
<1>3. \A i \in 0 .. (r.seq - 1) : i \in DOMAIN r.outgoing \/ Got(t, i)
  BY SMT, <1>1 DEF SideOK, Grows
<1> QED BY <1>2, <1>3 DEF SideOK

\* A stream whose numbers and buffers do not change stays as it was towards
\* its peer, also when it queues state packets.
LEMMA QuietSide ==
  ASSUME NEW r, NEW s, NEW t, StreamOK(s), StreamOK(t), NEW n, NEW a, SideOK(s, r, n, a),
         \A f \in {"seq", "ack", "remote_acked", "read_cursor", "incoming", "outgoing",
                   "inflight", "inflight_packets", "inflight_bytes"} : t[f] = s[f],
         \A q \in t.send_queue :
            \/ q \in s.send_queue
            \/ (q.typ \subseteq {"END"} /\ q.ack = s.ack /\ q.sacks = <<>>)
  PROVE  SideOK(t, r, n, a) /\ Grows(s, t)
<1> USE ZenonT(30)
<1>1. /\ t.seq = s.seq /\ t.ack = s.ack /\ t.remote_acked = s.remote_acked
      /\ t.read_cursor = s.read_cursor /\ t.incoming = s.incoming
      /\ t.outgoing = s.outgoing /\ t.inflight = s.inflight
      /\ t.inflight_packets = s.inflight_packets /\ t.inflight_bytes = s.inflight_bytes
  BY SMT
<1>2. s.seq \in Nat /\ s.ack \in Nat
  BY DEF StreamOK
<1>3. Grows(s, t)
  BY LeqRefl, <1>1, <1>2 DEF Grows, Got
<1>4. SenderOK(t) /\ WindowIntact(t)
  BY <1>1 DEF SideOK, SenderOK, CountersExact, NotWaiting, WindowIntact
<1>5. \A m : Truthful(s, m) => Truthful(t, m)
  BY <1>1 DEF Truthful, Got
<1>6. \A m \in n \cup t.send_queue : Truthful(t, m)
  <2>1. ASSUME NEW m \in t.send_queue, m \notin s.send_queue PROVE Truthful(t, m)
    <3>1. m.typ \subseteq {"END"} /\ m.ack <= t.ack /\ m.sacks = <<>>
      BY LeqRefl, <1>1, <1>2, <2>1
    <3> QED BY <3>1, StateTruthful
  <2> QED BY <1>5, <2>1 DEF SideOK
<1>7. \A i \in DOMAIN t.outgoing : Truthful(t, t.outgoing[i].packet)
  BY <1>1, <1>5 DEF SideOK
<1> QED BY <1>1, <1>3, <1>4, <1>6, <1>7 DEF SideOK

\* A stream that sends, reads or handles packets stays right towards its
\* peer when what it sends is known to be true.
LEMMA OwnSide ==
  ASSUME NEW r, NEW s, NEW t, StreamOK(r), StreamOK(s), StreamOK(t),
         NEW n \in SUBSET Packet, NEW a, NEW n2, NEW a2, SideOK(s, r, n, a),
         SenderOK(t), WindowIntact(t), Grows(s, t),
         t.remote_acked <= r.ack, a2 <= r.ack,
         \A i \in 0 .. (t.seq - 1) : i \in DOMAIN t.outgoing \/ Got(r, i),
         \A m \in n2 \cup t.send_queue :
            \/ m \in n \cup s.send_queue
            \/ \E i \in DOMAIN s.outgoing : m = s.outgoing[i].packet
            \/ Truthful(t, m),
         \A i \in DOMAIN t.outgoing :
            \/ (i \in DOMAIN s.outgoing /\ t.outgoing[i].packet = s.outgoing[i].packet)
            \/ Truthful(t, t.outgoing[i].packet)
  PROVE  SideOK(t, r, n2, a2)
<1> USE ZenonT(30)
<1>1. s.seq \in Nat /\ t.seq \in Nat /\ r.ack \in Nat /\ DOMAIN r.incoming \subseteq Nat
  BY DEF StreamOK, IsMapTo
<1>2. r.ack <= t.seq /\ DOMAIN r.incoming \subseteq 0 .. (t.seq - 1)
  BY SMT, <1>1 DEF SideOK, Grows
<1>3. \A m \in n \cup s.send_queue : Truthful(t, m)
  <2>1. n \cup s.send_queue \subseteq Packet
    BY DEF StreamOK
  <2> QED BY <2>1, TruthfulGrows DEF SideOK
<1>4. \A i \in DOMAIN s.outgoing : Truthful(t, s.outgoing[i].packet)
  <2>1. \A i \in DOMAIN s.outgoing : s.outgoing[i].packet \in Packet
    BY PacketSizes DEF SideOK
  <2> QED BY SMT, <2>1, TruthfulGrows DEF SideOK
<1>5. \A m \in n2 \cup t.send_queue : Truthful(t, m)
  BY <1>3, <1>4
<1>6. \A i \in DOMAIN t.outgoing : Truthful(t, t.outgoing[i].packet)
  BY <1>4
<1> QED BY <1>2, <1>5, <1>6 DEF SideOK

-----------------------------------------------------------------------------
(* Steps of one end *)

\* What the proof shows of a step.
StepOK == IInv' /\ \A x \in End : Onward(stream[x], stream'[x])

\* A step that leaves the numbers and the retransmission buffer alone.
LEMMA SameOnward ==
  ASSUME NEW s, StreamOK(s), NEW t,
         \A f \in {"seq", "ack", "remote_acked", "read_cursor", "outgoing"} : t[f] = s[f]
  PROVE  Onward(s, t)
<1> USE ZenonT(30)
<1>1. s.seq \in Nat /\ s.ack \in Nat /\ s.remote_acked \in Nat /\ s.read_cursor \in Nat
  BY DEF StreamOK
<1> QED BY LeqRefl, <1>1 DEF Onward

\* A step of end e that replaces its stream by t keeps the invariant when t
\* grows, stays within what the peer has sent, and is right towards it.
LEMMA StepAt ==
  ASSUME IInv, EnvironmentOK', NEW e \in End, NEW t,
         stream' = [stream EXCEPT ![e] = t], StreamOK(t), Grows(stream[e], t),
         Onward(stream[e], t), t.ack <= stream[Peer(e)].seq,
         DOMAIN t.incoming \subseteq 0 .. (stream[Peer(e)].seq - 1),
         SideOK(t, stream[Peer(e)], net'[Peer(e)], remote_ack'[e]),
         net'[e] = net[e], remote_ack'[Peer(e)] = remote_ack[Peer(e)]
  PROVE  StepOK
<1> USE ZenonT(30)
<1> DEFINE p == Peer(e)
<1>1. p \in End /\ p # e /\ Peer(p) = e /\ \A x \in End : x = e \/ x = p
  BY PeerFacts
<1> HIDE DEF p
<1>2. DOMAIN stream' = End /\ stream'[e] = t /\ stream'[p] = stream[p]
  BY <1>1 DEF IInv
<1>3. \A x \in End : StreamOK(stream'[x])
  BY <1>1, <1>2 DEF IInv
<1>4. SideOK(stream'[e], stream'[p], net'[p], remote_ack'[e])
  BY <1>2 DEF p
<1>5. SideOK(stream'[p], stream'[e], net'[e], remote_ack'[p])
  <2>1. SideOK(stream[p], stream[e], net[e], remote_ack[p])
    BY <1>1 DEF IInv
  <2>2. StreamOK(stream[p]) /\ StreamOK(stream[e]) /\ remote_ack[p] \in Nat
    BY <1>1 DEF IInv, EnvironmentOK
  <2>3. t.ack <= stream[p].seq /\ DOMAIN t.incoming \subseteq 0 .. (stream[p].seq - 1)
    BY DEF p
  <2>4. SideOK(stream[p], t, net[e], remote_ack[p])
    BY <2>1, <2>2, <2>3, PeerSide
  <2>5. remote_ack'[p] = remote_ack[p]
    BY DEF p
  <2> QED BY <1>2, <2>4, <2>5
<1>6. \A x \in End : SideOK(stream'[x], stream'[Peer(x)], net'[Peer(x)], remote_ack'[x])
  BY <1>1, <1>4, <1>5 DEF p
<1>7. \A x \in End : Onward(stream[x], stream'[x])
  <2>1. Onward(stream[p], stream[p])
    BY <1>1, SameOnward DEF IInv
  <2> QED BY <1>1, <1>2, <2>1
<1> QED BY <1>2, <1>3, <1>6, <1>7 DEF IInv, StepOK

\* The steps that leave numbers and buffers alone.
LEMMA QuietStep ==
  ASSUME IInv, EnvironmentOK', NEW e \in End, NEW t,
         stream' = [stream EXCEPT ![e] = t], StreamOK(t),
         \A f \in StreamFields \ {"drive_waker", "scheduled", "send_queue", "error", "state",
                                   "read_waker", "write_waker", "on_close", "rto_timeout",
                                   "rx_closed"} : t[f] = stream[e][f],
         \A q \in t.send_queue :
            \/ q \in stream[e].send_queue
            \/ (q.typ \subseteq {"END"} /\ q.ack = stream[e].ack /\ q.sacks = <<>>),
         net' = net, remote_ack' = remote_ack
  PROVE  StepOK
<1> USE ZenonT(30)
<1> DEFINE p == Peer(e)
           s == stream[e]
<1>1. p \in End /\ Peer(p) = e
  BY PeerFacts
<1>2. StreamOK(s) /\ SideOK(s, stream[p], net[p], remote_ack[e])
  BY DEF IInv
<1>3. SideOK(stream[p], s, net[e], remote_ack[p])
  BY <1>1 DEF IInv
<1>4. \A f \in {"seq", "ack", "remote_acked", "read_cursor", "incoming", "outgoing",
                "inflight", "inflight_packets", "inflight_bytes"} : t[f] = s[f]
  BY DEF StreamFields
<1>5. SideOK(t, stream[p], net[p], remote_ack[e]) /\ Grows(s, t)
  <2> HIDE DEF s, p
  <2> QED BY <1>2, <1>4, QuietSide DEF s
<1>6. t.ack <= stream[p].seq /\ DOMAIN t.incoming \subseteq 0 .. (stream[p].seq - 1)
  BY <1>3, <1>4 DEF SideOK
<1>7. Onward(s, t)
  <2> HIDE DEF s
  <2> QED BY <1>2, <1>4, SameOnward
<1> QED BY <1>5, <1>6, <1>7, StepAt

-----------------------------------------------------------------------------
(* The invariant holds initially *)

\* Two new streams agree with each other.
LEMMA InitialStreamOK ==
  /\ StreamOK(InitialStream)
  /\ SideOK(InitialStream, InitialStream, {}, 0)
<1> DEFINE s == InitialStream
<1>1. /\ s.incoming = NoPackets /\ s.outgoing = NoPackets /\ s.send_queue = {}
      /\ s.seq = 0 /\ s.ack = 0 /\ s.remote_acked = 0
  BY ZenonT(30) DEF InitialStream
<1>2. StreamOK(s) /\ SenderOK(s) /\ WindowIntact(s)
  BY NewStream
<1>3. DOMAIN NoPackets = {}
  BY DEF NoPackets
<1> HIDE DEF s
<1>4. SideOK(s, s, {}, 0)
  BY <1>1, <1>2, <1>3 DEF SideOK
<1> QED BY <1>2, <1>4 DEF s

\* Two new streams and an empty network.
LEMMA InitIInv == Init => IInv
<1> SUFFICES ASSUME Init PROVE IInv
  OBVIOUS
<1>1. EnvironmentOK
  BY ZenonT(30) DEF Init, EnvironmentOK
<1>2. \A e \in End : Peer(e) \in End
  BY PeerFacts
<1> QED BY ZenonT(30), <1>1, <1>2, InitialStreamOK DEF Init, IInv

-----------------------------------------------------------------------------
(* The application's steps *)

\* A step that changes only phase and left, besides the stream.
LEMMA PhaseStep ==
  ASSUME EnvironmentOK, NEW e \in End, NEW ph \in {"idle", "incoming", "writing"},
         NEW l \in Nat, ph = "writing" => l # 0,
         phase' = [phase EXCEPT ![e] = ph], left' = [left EXCEPT ![e] = l],
         UNCHANGED <<net, recv_rx, remote_ack>>, AppUnchanged
  PROVE  EnvironmentOK'
<1> USE ZenonT(30)
<1>1. phase' \in [End -> {"idle", "incoming", "writing"}] /\ left' \in [End -> Nat]
  BY DEF EnvironmentOK
<1>2. \A x \in End : phase'[x] = "writing" => left'[x] # 0
  BY DEF EnvironmentOK
<1>3. /\ net' = net /\ recv_rx' = recv_rx /\ remote_ack' = remote_ack
      /\ driver' = driver /\ handles' = handles /\ dropping' = dropping
      /\ closing' = closing /\ delivered' = delivered /\ intact' = intact
  BY SMT DEF AppUnchanged
<1> QED BY <1>1, <1>2, <1>3 DEF EnvironmentOK

\* One iteration of poll_write.
LEMMA WriteChunkStep ==
  ASSUME IInv, NEW e \in End, NEW n \in Nat \ {0}, NEW first \in BOOLEAN,
         WriteChunk(e, n, first), UNCHANGED <<net, recv_rx, remote_ack>>, AppUnchanged
  PROVE  StepOK
<1> USE ZenonT(30)
<1> DEFINE s == stream[e]
           p == Peer(e)
           r == stream[p]
<1>1. p \in End /\ Peer(p) = e
  BY SMT, PeerFacts
<1>2. /\ StreamOK(s) /\ StreamOK(r) /\ SideOK(s, r, net[p], remote_ack[e])
      /\ SideOK(r, s, net[e], remote_ack[p]) /\ net[p] \in SUBSET Packet
  BY <1>1 DEF IInv, EnvironmentOK
<1>3. ChunkLen(n) \in Nat /\ ChunkLen(n) <= n
  BY SMT, ChunkLenType
<1>4. CASE WindowFull(s, n)
  <2> DEFINE t == [s EXCEPT !.write_waker = @ \/ first]
  <2>1. stream' = [stream EXCEPT ![e] = t]
    BY SMT, <1>4 DEF WriteChunk
  <2>2. StreamOK(t) /\ \A f \in StreamFields \ {"write_waker"} : t[f] = s[f]
    BY <1>2 DEF StreamOK, StreamFields
  <2> HIDE DEF t
  <2>3. t.send_queue = s.send_queue
    BY <2>2 DEF StreamFields
  <2>4. EnvironmentOK'
    <3>1. phase' = [phase EXCEPT ![e] = "idle"] /\ left' = [left EXCEPT ![e] = 0]
      BY SMT, <1>4 DEF WriteChunk
    <3> QED BY <3>1, PhaseStep DEF IInv
  <2> QED BY <2>1, <2>2, <2>3, <2>4, QuietStep
<1>5. CASE ~ WindowFull(s, n)
  <2> DEFINE t == SendDataPacket(s, n)
             m == t.outgoing[s.seq].packet
  <2>1. stream' = [stream EXCEPT ![e] = t]
    BY <1>5 DEF WriteChunk
  <2>2. EnvironmentOK'
    <3> DEFINE ph == IF n > ChunkLen(n) THEN "writing" ELSE "idle"
               l == n - ChunkLen(n)
    <3>1. phase' = [phase EXCEPT ![e] = ph] /\ left' = [left EXCEPT ![e] = l]
      BY SMT, <1>5 DEF WriteChunk
    <3>2. l \in Nat /\ ph \in {"idle", "incoming", "writing"} /\ (ph = "writing" => l # 0)
      BY SMT, <1>3
    <3> HIDE DEF ph, l
    <3> QED BY <3>1, <3>2, PhaseStep DEF IInv
  <2>3. /\ StreamOK(t) /\ SenderOK(t) /\ t.seq = s.seq + 1
        /\ DOMAIN t.outgoing = DOMAIN s.outgoing \cup {s.seq}
        /\ \A i \in DOMAIN s.outgoing : t.outgoing[i] = s.outgoing[i]
        /\ t.send_queue = s.send_queue \cup {m}
        /\ m.ack = s.ack /\ m.seq = s.seq /\ m.sacks = <<>>
        /\ t.incoming = s.incoming /\ t.ack = s.ack /\ t.read_cursor = s.read_cursor
        /\ t.remote_acked = s.remote_acked
    <3>1. /\ s.remote_acked \in Nat /\ r.ack \in Nat /\ s.seq \in Nat
      BY <1>2 DEF StreamOK
    <3>2. s.remote_acked <= r.ack /\ r.ack <= s.seq /\ SenderOK(s)
      BY <1>2 DEF SideOK
    <3>3. s.remote_acked <= s.seq
      BY LeqTrans, <3>1, <3>2
    <3> HIDE DEF s
    <3> QED BY <1>2, <3>2, <3>3, SendDataPacketFrame
  <2> HIDE DEF t
  <2>4. s.seq \in Nat /\ s.ack \in Nat /\ r.seq \in Nat
    BY <1>2 DEF StreamOK
  <2>5. Grows(s, t) /\ WindowIntact(t)
    <3>1. WindowIntact(s)
      BY <1>2 DEF SideOK
    <3>2. s.seq <= t.seq /\ t.ack \in Nat /\ s.ack <= t.ack
      BY LeqRefl, NextNat, <2>3, <2>4
    <3>3. t.incoming = s.incoming /\ t.ack = s.ack /\ t.read_cursor = s.read_cursor
      BY <2>3
    <3> HIDE DEF s
    <3> QED BY <2>4, <3>1, <3>2, <3>3, HoldsMore, SameWindow
  <2>6. Truthful(t, m)
    <3>1. /\ m.sacks = <<>> /\ m.ack = s.ack /\ m.seq = s.seq
          /\ t.ack = s.ack /\ t.seq = s.seq + 1
      BY <2>3
    <3> HIDE DEF m, s
    <3>2. 1 .. Len(m.sacks) = {}
      BY NoPositions, <3>1
    <3>3. m.ack <= t.ack /\ m.seq < t.seq
      BY LeqRefl, NextNat, <2>4, <3>1
    <3> QED BY <3>2, <3>3 DEF Truthful
  <2>7. \A i \in 0 .. (t.seq - 1) : i \in DOMAIN t.outgoing \/ Got(r, i)
    <3>1. \A i \in 0 .. (s.seq - 1) : i \in DOMAIN s.outgoing \/ Got(r, i)
      BY <1>2 DEF SideOK
    <3> HIDE DEF s, r, m
    <3>2. t.seq = s.seq + 1 /\ DOMAIN t.outgoing = DOMAIN s.outgoing \cup {s.seq}
      BY <2>3
    <3> QED BY NextInterval, <2>4, <3>1, <3>2
  <2>8. t.remote_acked <= r.ack /\ remote_ack[e] <= r.ack
    BY <1>2, <2>3 DEF SideOK
  <2>9. SideOK(t, r, net[p], remote_ack[e])
    <3>0. /\ t.send_queue = s.send_queue \cup {m}
          /\ DOMAIN t.outgoing = DOMAIN s.outgoing \cup {s.seq}
          /\ \A i \in DOMAIN s.outgoing : t.outgoing[i] = s.outgoing[i]
          /\ m = t.outgoing[s.seq].packet
      BY <2>3
    <3> HIDE DEF s, r, p, m, t
    <3>1. \A x \in net[p] \cup t.send_queue : x \in net[p] \cup s.send_queue \/ Truthful(t, x)
      BY <2>6, <3>0
    <3>2. \A i \in DOMAIN t.outgoing :
            \/ (i \in DOMAIN s.outgoing /\ t.outgoing[i].packet = s.outgoing[i].packet)
            \/ Truthful(t, t.outgoing[i].packet)
      BY <2>6, <3>0
    <3> QED BY <1>2, <2>3, <2>5, <2>7, <2>8, <3>1, <3>2, OwnSide
  <2>10. t.ack <= r.seq /\ DOMAIN t.incoming \subseteq 0 .. (r.seq - 1)
    BY <1>2, <2>3 DEF SideOK
  <2>11. Onward(s, t)
    <3>1. s.remote_acked \in Nat /\ s.read_cursor \in Nat /\ ~ (s.seq < s.seq)
      BY NotLess, <1>2, <2>4 DEF StreamOK
    <3>2. s.seq <= t.seq
      BY NextNat, <2>3, <2>4
    <3> HIDE DEF s
    <3> QED BY LeqRefl, <2>3, <2>4, <3>1, <3>2 DEF Onward
  <2> QED BY <2>1, <2>2, <2>3, <2>5, <2>9, <2>10, <2>11, StepAt
<1> QED BY SMT, <1>4, <1>5

\* poll_write and its further iterations.
LEMMA WriteStep ==
  ASSUME IInv, NEW e \in End,
         (\E n \in WriteLens : PollWrite(e, n)) \/ PollWriteMore(e)
  PROVE  StepOK
<1> USE ZenonT(30)
<1>1. ASSUME NEW n \in WriteLens, PollWrite(e, n) PROVE StepOK
  <2>1. n \in Nat \ {0}
    BY SMT, EndsAssumption
  <2>2. WriteChunk(e, n, TRUE) /\ UNCHANGED <<net, recv_rx, remote_ack>> /\ AppUnchanged
    BY <1>1 DEF PollWrite
  <2> QED BY <2>1, <2>2, WriteChunkStep
<1>2. ASSUME PollWriteMore(e) PROVE StepOK
  <2>1. left[e] \in Nat \ {0}
    BY <1>2 DEF IInv, EnvironmentOK, PollWriteMore
  <2>2. WriteChunk(e, left[e], FALSE) /\ UNCHANGED <<net, recv_rx, remote_ack>> /\ AppUnchanged
    BY <1>2 DEF PollWriteMore
  <2> QED BY <2>1, <2>2, WriteChunkStep
<1> QED BY SMT, <1>1, <1>2

\* poll_read.
LEMMA ReadStep ==
  ASSUME IInv, NEW e \in End, NEW cap \in ReadCaps, Read(e, cap)
  PROVE  StepOK
<1> USE ZenonT(30)
<1> DEFINE s == stream[e]
           p == Peer(e)
           r == stream[p]
           t == PollRead(s, cap)
<1>1. p \in End /\ Peer(p) = e
  BY PeerFacts
<1>2. /\ StreamOK(s) /\ StreamOK(r) /\ SideOK(s, r, net[p], remote_ack[e])
      /\ SideOK(r, s, net[e], remote_ack[p]) /\ net[p] \in SUBSET Packet
  BY <1>1 DEF IInv, EnvironmentOK
<1>3. stream' = [stream EXCEPT ![e] = t] /\ net' = net /\ remote_ack' = remote_ack
  BY DEF Read
<1>4. cap \in Nat /\ WindowIntact(s)
  BY <1>2, EndsAssumption DEF SideOK
<1>5. /\ StreamOK(t) /\ WindowIntact(t)
      /\ DOMAIN t.incoming \subseteq DOMAIN s.incoming
      /\ \A i \in DOMAIN s.incoming \ DOMAIN t.incoming : i < s.ack
      /\ s.read_cursor <= t.read_cursor
      /\ \A f \in StreamFields \ {"incoming", "read_cursor", "read_waker"} : t[f] = s[f]
  <2> HIDE DEF s
  <2> QED BY <1>2, <1>4, PollReadFrame
<1>6. EnvironmentOK'
  <2>1. delivered' \in [End -> Nat] /\ intact' \in [End -> BOOLEAN]
    <3>1. CASE DidRead(s, cap)
      <4> DEFINE b == BytesPut(e, cap)
                 ok == ReadsInOrder(e, cap)
      <4>1. b \in Nat
        <5>1. IsFiniteSet(DOMAIN s.incoming) /\ Run(s) \subseteq DOMAIN s.incoming
          BY <1>2 DEF StreamOK, IsMapTo, Run
        <5>2. IsFiniteSet(Run(s))
          BY <5>1, FS_Subset
        <5>3. Total(Run(s), Unread(s.incoming)) \in Nat
          BY <5>2, BytesFinite
        <5> QED BY <1>4, <5>3 DEF BytesPut, Smaller
      <4>2. delivered' = [delivered EXCEPT ![e] = @ + b]
        BY <3>1 DEF Read
      <4>3. intact' = [intact EXCEPT ![e] = @ /\ ok]
        BY <3>1 DEF Read
      <4> HIDE DEF b, ok
      <4> QED BY SMT, <4>1, <4>2, <4>3 DEF IInv, EnvironmentOK
    <3>2. CASE ~ DidRead(s, cap)
      BY <3>2 DEF Read, IInv, EnvironmentOK
    <3> QED BY <3>1, <3>2
  <2>2. /\ net' = net /\ recv_rx' = recv_rx /\ phase' = phase /\ remote_ack' = remote_ack
        /\ left' = left /\ driver' = driver /\ handles' = handles
        /\ dropping' = dropping /\ closing' = closing
    BY DEF Read
  <2> QED BY <2>1, <2>2 DEF IInv, EnvironmentOK
<1> HIDE DEF t
<1>7. /\ t.seq = s.seq /\ t.ack = s.ack /\ t.remote_acked = s.remote_acked
      /\ t.outgoing = s.outgoing /\ t.send_queue = s.send_queue /\ t.inflight = s.inflight
      /\ t.inflight_packets = s.inflight_packets /\ t.inflight_bytes = s.inflight_bytes
  BY <1>5 DEF StreamFields
<1>8. s.seq \in Nat /\ s.ack \in Nat
  BY <1>2 DEF StreamOK
<1>9. Grows(s, t)
  BY LeqRefl, <1>5, <1>7, <1>8 DEF Grows, Got
<1>10. SenderOK(t)
  BY <1>2, <1>7 DEF SideOK, SenderOK, CountersExact, NotWaiting
<1>11. SideOK(t, r, net[p], remote_ack[e])
  <2>1. /\ t.remote_acked <= r.ack /\ remote_ack[e] <= r.ack
        /\ \A i \in 0 .. (t.seq - 1) : i \in DOMAIN t.outgoing \/ Got(r, i)
    BY <1>2, <1>7 DEF SideOK
  <2> HIDE DEF s, r, p
  <2> QED BY <1>2, <1>5, <1>7, <1>9, <1>10, <2>1, OwnSide
<1>12. t.ack <= r.seq /\ DOMAIN t.incoming \subseteq 0 .. (r.seq - 1)
  BY <1>2, <1>5, <1>7 DEF SideOK
<1>13. Onward(s, t)
  <2>1. s.remote_acked \in Nat
    BY <1>2 DEF StreamOK
  <2> HIDE DEF s
  <2> QED BY LeqRefl, <1>5, <1>7, <1>8, <2>1 DEF Onward
<1> QED BY <1>3, <1>5, <1>6, <1>9, <1>11, <1>12, <1>13, StepAt

\* terminate: it leaves numbers and buffers alone, whatever else a step does
\* with on_close or scheduled.
LEMMA TerminateStep ==
  ASSUME IInv, EnvironmentOK', NEW e \in End, NEW err \in Errors, NEW t,
         StreamOK(t), stream' = [stream EXCEPT ![e] = t],
         \A f \in StreamFields \ {"on_close"} : t[f] = Terminate(stream[e], err)[f],
         net' = net, remote_ack' = remote_ack
  PROVE  StepOK
<1> USE ZenonT(30)
<1> DEFINE s == stream[e]
           u == Terminate(s, err)
<1>1. StreamOK(s)
  BY DEF IInv
<1>2. /\ \A f \in StreamFields \ {"drive_waker", "scheduled", "send_queue", "error", "state",
                                    "read_waker", "write_waker"} : u[f] = s[f]
      /\ \A q \in u.send_queue :
            \/ q \in s.send_queue
            \/ (q.typ \subseteq {"END"} /\ q.ack = s.ack /\ q.sacks = <<>>)
  <2> HIDE DEF s
  <2> QED BY LeqRefl, <1>1, TerminateFrame
<1>3. /\ \A f \in StreamFields \ {"on_close"} : t[f] = u[f]
      /\ t.send_queue = u.send_queue
  BY DEF StreamFields
<1> HIDE DEF u
<1>4. \A f \in StreamFields \ {"drive_waker", "scheduled", "send_queue", "error", "state",
                                "read_waker", "write_waker", "on_close", "rto_timeout",
                                "rx_closed"} : t[f] = s[f]
  BY <1>2, <1>3
<1>5. \A q \in t.send_queue :
         \/ q \in s.send_queue
         \/ (q.typ \subseteq {"END"} /\ q.ack = s.ack /\ q.sacks = <<>>)
  BY <1>2, <1>3
<1> QED BY <1>4, <1>5, QuietStep

\* close(), clones of the handle and their drops, in the application and at
\* the end of the driver task.
LEMMA CloseStep ==
  ASSUME IInv, NEW e \in End,
         \/ \E c \in Closers : Close(e, c)
         \/ Clone(e) \/ DropBegins(e) \/ DropEnds(e)
         \/ DriverDropBegins(e) \/ DriverDropEnds(e)
  PROVE  StepOK
<1> USE ZenonT(30)
<1> DEFINE s == stream[e]
<1>0. StreamOK(s)
  BY DEF IInv
<1>1. PICK err \in Errors : err = "ConnectionReset"
  BY SMT DEF Errors
<1> DEFINE u == Terminate(s, err)
<1>2. StreamOK(u)
  <2> HIDE DEF s
  <2> QED BY <1>0, TerminateFrame
<1>3. ASSUME NEW c \in Closers, Close(e, c) PROVE StepOK
  <2> DEFINE t == [u EXCEPT !.on_close = {c}]
             v == [d \in Closers |-> IF d = c THEN "pending"
                                    ELSE IF d \in stream[e].on_close
                                    THEN "resolved" ELSE closing[e][d]]
  <2>1. stream' = [stream EXCEPT ![e] = t]
    BY <1>1, <1>3 DEF Close
  <2>2. EnvironmentOK'
    <3>1. closing' = [closing EXCEPT ![e] = v]
      BY <1>3 DEF Close, IInv, EnvironmentOK
    <3>2. v \in [Closers -> {"none", "pending", "resolved"}]
      <4>1. closing[e] \in [Closers -> {"none", "pending", "resolved"}]
        BY DEF IInv, EnvironmentOK
      <4> QED BY <4>1
    <3>3. /\ net' = net /\ recv_rx' = recv_rx /\ phase' = phase /\ remote_ack' = remote_ack
          /\ left' = left /\ driver' = driver /\ handles' = handles
          /\ dropping' = dropping /\ delivered' = delivered /\ intact' = intact
      BY <1>3 DEF Close
    <3> HIDE DEF v
    <3> QED BY <3>1, <3>2, <3>3 DEF IInv, EnvironmentOK
  <2>3. net' = net /\ remote_ack' = remote_ack
    BY <1>3 DEF Close
  <2> HIDE DEF u
  <2>4. StreamOK(t) /\ \A f \in StreamFields \ {"on_close"} : t[f] = u[f]
    BY <1>2 DEF StreamOK, StreamFields
  <2> HIDE DEF t
  <2> QED BY <2>1, <2>2, <2>3, <2>4, TerminateStep DEF u
<1>4. ASSUME NEW C, Resolve(e, C) PROVE closing' \in [End -> [Closers -> {"none", "pending", "resolved"}]]
  <2> DEFINE v == [c \in Closers |-> IF c \in C THEN "resolved" ELSE closing[e][c]]
  <2>1. closing' = [closing EXCEPT ![e] = v]
    BY <1>4 DEF Resolve, IInv, EnvironmentOK
  <2>2. v \in [Closers -> {"none", "pending", "resolved"}]
    <3>1. closing[e] \in [Closers -> {"none", "pending", "resolved"}]
      BY DEF IInv, EnvironmentOK
    <3> QED BY <3>1
  <2> HIDE DEF v
  <2> QED BY <2>1, <2>2 DEF IInv, EnvironmentOK
<1>5. ASSUME stream' = stream, EnvironmentOK', net' = net, remote_ack' = remote_ack
      PROVE  StepOK
  <2>1. IInv'
    BY <1>5 DEF IInv
  <2>2. \A x \in End : Onward(stream[x], stream[x])
    BY SameOnward DEF IInv
  <2> QED BY <1>5, <2>1, <2>2 DEF StepOK
<1>6. ASSUME DropTerminates(e), EnvironmentOK', net' = net, remote_ack' = remote_ack
      PROVE  StepOK
  <2>1. CASE stream' = [stream EXCEPT ![e] = u]
    BY <1>2, <1>6, <2>1, TerminateStep
  <2>2. CASE stream' = stream
    BY <1>5, <1>6, <2>2
  <2> QED BY <1>1, <1>6, <2>1, <2>2 DEF DropTerminates
<1>7. ASSUME Clone(e) PROVE StepOK
  <2>1. /\ handles' = [handles EXCEPT ![e] = @ + 1] /\ dropping' = dropping
        /\ stream' = stream /\ net' = net /\ recv_rx' = recv_rx /\ phase' = phase
        /\ remote_ack' = remote_ack /\ left' = left /\ driver' = driver
        /\ closing' = closing /\ delivered' = delivered /\ intact' = intact
    BY <1>7 DEF Clone
  <2>2. handles' \in [End -> Nat]
    BY NextNat, <2>1 DEF IInv, EnvironmentOK
  <2> QED BY <1>5, <2>1, <2>2 DEF IInv, EnvironmentOK
<1>8. ASSUME DropBegins(e) PROVE StepOK
  <2>1. /\ handles' = [handles EXCEPT ![e] = @ - 1]
        /\ dropping' = [dropping EXCEPT ![e] = @ + 1]
        /\ net' = net /\ recv_rx' = recv_rx /\ phase' = phase
        /\ remote_ack' = remote_ack /\ left' = left /\ driver' = driver
        /\ closing' = closing /\ delivered' = delivered /\ intact' = intact
        /\ DropTerminates(e)
    BY <1>8 DEF DropBegins
  <2>2. handles[e] > 0 /\ handles[e] \in Nat /\ dropping[e] \in Nat
    <3>1. /\ handles[e] \in Nat /\ dropping[e] \in Nat
          /\ handles[e] > IF phase[e] = "writing" THEN 1 ELSE 0
      BY <1>8 DEF DropBegins, IInv, EnvironmentOK
    <3> QED BY <3>1, HandleHeld
  <2>3. handles' \in [End -> Nat] /\ dropping' \in [End -> Nat]
    BY PositiveNat, NextNat, <2>1, <2>2 DEF IInv, EnvironmentOK
  <2> QED BY <1>6, <2>1, <2>3 DEF IInv, EnvironmentOK
<1>9. ASSUME DropEnds(e) PROVE StepOK
  <2>1. /\ dropping' = [dropping EXCEPT ![e] = @ - 1] /\ handles' = handles
        /\ stream' = stream /\ net' = net /\ recv_rx' = recv_rx /\ phase' = phase
        /\ remote_ack' = remote_ack /\ left' = left /\ driver' = driver
        /\ delivered' = delivered /\ intact' = intact
    BY <1>9 DEF DropEnds
  <2>2. dropping[e] > 0 /\ dropping[e] \in Nat
    BY <1>9 DEF DropEnds, IInv, EnvironmentOK
  <2>3. dropping' \in [End -> Nat]
    BY PositiveNat, <2>1, <2>2 DEF IInv, EnvironmentOK
  <2>4. closing' \in [End -> [Closers -> {"none", "pending", "resolved"}]]
    BY <1>4, <1>9 DEF DropEnds, Freed
  <2> QED BY <1>5, <2>1, <2>3, <2>4 DEF IInv, EnvironmentOK
<1>10. ASSUME DriverDropBegins(e) PROVE StepOK
  <2>1. /\ driver' = [driver EXCEPT ![e] = "dropping"]
        /\ handles' = handles /\ dropping' = dropping
        /\ net' = net /\ recv_rx' = recv_rx /\ phase' = phase
        /\ remote_ack' = remote_ack /\ left' = left
        /\ closing' = closing /\ delivered' = delivered /\ intact' = intact
        /\ DropTerminates(e)
    BY <1>10 DEF DriverDropBegins
  <2>2. driver' \in [End -> {"running", "returned", "dropping", "dropped"}]
    BY <2>1 DEF IInv, EnvironmentOK
  <2> QED BY <1>6, <2>1, <2>2 DEF IInv, EnvironmentOK
<1>11. ASSUME DriverDropEnds(e) PROVE StepOK
  <2>1. /\ driver' = [driver EXCEPT ![e] = "dropped"]
        /\ handles' = handles /\ dropping' = dropping
        /\ stream' = stream /\ net' = net /\ recv_rx' = recv_rx /\ phase' = phase
        /\ remote_ack' = remote_ack /\ left' = left
        /\ delivered' = delivered /\ intact' = intact
    BY <1>11 DEF DriverDropEnds
  <2>2. driver' \in [End -> {"running", "returned", "dropping", "dropped"}]
    BY <2>1 DEF IInv, EnvironmentOK
  <2>3. closing' \in [End -> [Closers -> {"none", "pending", "resolved"}]]
    BY <1>4, <1>11 DEF DriverDropEnds, Freed
  <2> QED BY <1>5, <2>1, <2>2, <2>3 DEF IInv, EnvironmentOK
<1> QED BY <1>3, <1>7, <1>8, <1>9, <1>10, <1>11

-----------------------------------------------------------------------------
(* The driver's steps *)

\* The start of a poll, in both cases, the timer, an arriving packet and the
\* end of the socket.
LEMMA WakeStep ==
  ASSUME IInv, NEW e \in End,
         \/ DriverReturns(e) \/ DriverPolls(e) \/ TimerElapses(e)
         \/ \E m \in net[e] : Deliver(e, m)
         \/ SocketGone(e)
  PROVE  StepOK
<1> USE ZenonT(30)
<1> DEFINE s == stream[e]
<1>0. StreamOK(s)
  BY DEF IInv
<1>1. ASSUME NEW t, DOMAIN t = StreamFields, EnvironmentOK', net' = net,
             remote_ack' = remote_ack, stream' = [stream EXCEPT ![e] = t],
             \A f \in StreamFields \ {"rto_timeout", "scheduled", "drive_waker", "on_close",
                                       "rx_closed"} : t[f] = s[f],
             t.rx_closed \in BOOLEAN,
             t.rto_timeout \in {"armed", "elapsed"}, t.scheduled \in BOOLEAN,
             t.drive_waker \in BOOLEAN, t.on_close \subseteq Closers
      PROVE  StepOK
  <2>1. StreamOK(t)
    BY <1>0, <1>1 DEF StreamOK, StreamFields
  <2>2. t.send_queue = s.send_queue
    BY <1>1 DEF StreamFields
  <2> QED BY <1>1, <2>1, <2>2, QuietStep
<1>2. /\ s.rto_timeout \in {"armed", "elapsed"} /\ s.scheduled \in BOOLEAN
      /\ s.drive_waker \in BOOLEAN /\ s.on_close \subseteq Closers
      /\ s.rx_closed \in BOOLEAN /\ DOMAIN s = StreamFields
  BY <1>0 DEF StreamOK
<1>3. ASSUME DriverReturns(e) PROVE StepOK
  <2> DEFINE t == [[s EXCEPT !.scheduled = FALSE, !.drive_waker = FALSE] EXCEPT !.on_close = {}]
  <2>1. stream' = [stream EXCEPT ![e] = t] /\ net' = net /\ remote_ack' = remote_ack
    BY SMT, <1>3 DEF DriverReturns, PollStarts
  <2>2. EnvironmentOK'
    <3> DEFINE v == [c \in Closers |-> IF c \in s.on_close THEN "resolved" ELSE closing[e][c]]
    <3>1. closing' = [closing EXCEPT ![e] = v]
      BY <1>3 DEF DriverReturns, Resolve, IInv, EnvironmentOK
    <3>2. v \in [Closers -> {"none", "pending", "resolved"}]
      <4>1. closing[e] \in [Closers -> {"none", "pending", "resolved"}]
        BY DEF IInv, EnvironmentOK
      <4> QED BY <4>1
    <3>3. /\ recv_rx' = recv_rx /\ phase' = phase /\ left' = left /\ handles' = handles
          /\ dropping' = dropping /\ delivered' = delivered /\ intact' = intact
          /\ driver' \in [End -> {"running", "returned", "dropping", "dropped"}]
      BY <1>3 DEF DriverReturns, IInv, EnvironmentOK
    <3> HIDE DEF v
    <3> QED BY <2>1, <3>1, <3>2, <3>3 DEF IInv, EnvironmentOK
  <2>3. /\ DOMAIN t = StreamFields
        /\ \A f \in StreamFields \ {"rto_timeout", "scheduled", "drive_waker", "on_close",
                                  "rx_closed"} : t[f] = s[f]
        /\ t.rx_closed = s.rx_closed
        /\ t.rto_timeout = s.rto_timeout /\ t.scheduled = FALSE
        /\ t.drive_waker = FALSE /\ t.on_close = {}
    BY <1>2 DEF StreamFields
  <2> HIDE DEF t
  <2> QED BY <1>1, <1>2, <2>1, <2>2, <2>3
<1>4. ASSUME DriverPolls(e) PROVE StepOK
  <2> DEFINE t == [s EXCEPT !.scheduled = FALSE, !.drive_waker = FALSE]
  <2>1. stream' = [stream EXCEPT ![e] = t] /\ net' = net /\ remote_ack' = remote_ack
    BY SMT, <1>4 DEF DriverPolls, PollStarts
  <2>2. EnvironmentOK'
    <3>1. phase' = [phase EXCEPT ![e] = "incoming"] /\ left' = left /\ AppUnchanged
          /\ recv_rx' = recv_rx
      BY <1>4 DEF DriverPolls
    <3> QED BY <2>1, <3>1 DEF IInv, EnvironmentOK, AppUnchanged
  <2>3. /\ DOMAIN t = StreamFields
        /\ \A f \in StreamFields \ {"rto_timeout", "scheduled", "drive_waker", "on_close",
                                  "rx_closed"} : t[f] = s[f]
        /\ t.rx_closed = s.rx_closed
        /\ t.rto_timeout = s.rto_timeout /\ t.scheduled = FALSE
        /\ t.drive_waker = FALSE /\ t.on_close = s.on_close
    BY <1>2 DEF StreamFields
  <2> HIDE DEF t
  <2> QED BY <1>1, <1>2, <2>1, <2>2, <2>3
<1>5. ASSUME TimerElapses(e) PROVE StepOK
  <2> DEFINE t == [s EXCEPT !.rto_timeout = "elapsed", !.scheduled = TRUE]
  <2>1. stream' = [stream EXCEPT ![e] = t] /\ net' = net /\ remote_ack' = remote_ack
    BY <1>5 DEF TimerElapses, IInv
  <2>2. EnvironmentOK'
    <3>1. recv_rx' = recv_rx /\ phase' = phase /\ left' = left /\ AppUnchanged
      BY SMT, <1>5 DEF TimerElapses
    <3> QED BY <2>1, <3>1 DEF IInv, EnvironmentOK, AppUnchanged
  <2>3. /\ DOMAIN t = StreamFields
        /\ \A f \in StreamFields \ {"rto_timeout", "scheduled", "drive_waker", "on_close",
                                  "rx_closed"} : t[f] = s[f]
        /\ t.rx_closed = s.rx_closed
        /\ t.rto_timeout = "elapsed" /\ t.scheduled = TRUE
        /\ t.drive_waker = s.drive_waker /\ t.on_close = s.on_close
    BY <1>2 DEF StreamFields
  <2> HIDE DEF t
  <2> QED BY <1>1, <1>2, <2>1, <2>2, <2>3
<1>6. ASSUME NEW m \in net[e], Deliver(e, m) PROVE StepOK
  <2> DEFINE t == [s EXCEPT !.scheduled = TRUE]
  <2>1. stream' = [stream EXCEPT ![e] = t] /\ net' = net /\ remote_ack' = remote_ack
    BY <1>6 DEF Deliver, IInv
  <2>2. EnvironmentOK'
    <3>1. /\ recv_rx' = [recv_rx EXCEPT ![e] = @ \cup {m}] /\ phase' = phase
          /\ left' = left /\ AppUnchanged
      BY <1>6 DEF Deliver
    <3>2. recv_rx' \in [End -> SUBSET Packet] /\ \A x \in End : recv_rx'[x] \subseteq net[x]
      BY LeqRefl, <3>1 DEF IInv, EnvironmentOK
    <3> QED BY <2>1, <3>1, <3>2 DEF IInv, EnvironmentOK, AppUnchanged
  <2>3. /\ DOMAIN t = StreamFields
        /\ \A f \in StreamFields \ {"rto_timeout", "scheduled", "drive_waker", "on_close",
                                  "rx_closed"} : t[f] = s[f]
        /\ t.rx_closed = s.rx_closed
        /\ t.rto_timeout = s.rto_timeout /\ t.scheduled = TRUE
        /\ t.drive_waker = s.drive_waker /\ t.on_close = s.on_close
    BY <1>2 DEF StreamFields
  <2> HIDE DEF t
  <2> QED BY <1>1, <1>2, <2>1, <2>2, <2>3
<1>7. ASSUME SocketGone(e) PROVE StepOK
  <2> DEFINE t == [s EXCEPT !.rx_closed = TRUE, !.scheduled = TRUE]
  <2>1. stream' = [stream EXCEPT ![e] = t] /\ net' = net /\ remote_ack' = remote_ack
    BY <1>7 DEF SocketGone, IInv
  <2>2. EnvironmentOK'
    <3>1. recv_rx' = recv_rx /\ phase' = phase /\ left' = left /\ AppUnchanged
      BY <1>7 DEF SocketGone
    <3> QED BY <2>1, <3>1 DEF IInv, EnvironmentOK, AppUnchanged
  <2>3. /\ DOMAIN t = StreamFields
        /\ \A f \in StreamFields \ {"rto_timeout", "scheduled", "drive_waker", "on_close",
                                  "rx_closed"} : t[f] = s[f]
        /\ t.rto_timeout = s.rto_timeout /\ t.scheduled = TRUE /\ t.rx_closed = TRUE
        /\ t.drive_waker = s.drive_waker /\ t.on_close = s.on_close
    BY <1>2 DEF StreamFields
  <2> HIDE DEF t
  <2> QED BY <1>1, <1>2, <2>1, <2>2, <2>3
<1> QED BY <1>3, <1>4, <1>5, <1>6, <1>7

\* One iteration of poll_incoming: what it removes from outgoing the peer
\* has, what it takes in the peer has sent.
LEMMA PollIncomingStep ==
  ASSUME IInv, NEW e \in End, NEW m \in recv_rx[e], PollIncoming(e, m)
  PROVE  StepOK
<1> USE ZenonT(30)
<1> DEFINE s == stream[e]
           p == Peer(e)
           r == stream[p]
           t == HandleIncoming(s, m)
           a == Larger(remote_ack[e], m.ack)
<1>1. p \in End /\ Peer(p) = e /\ p # e
  BY PeerFacts
<1>2. /\ StreamOK(s) /\ StreamOK(r) /\ SideOK(s, r, net[p], remote_ack[e])
      /\ SideOK(r, s, net[e], remote_ack[p]) /\ net[p] \in SUBSET Packet
      /\ remote_ack[e] \in Nat
  BY <1>1 DEF IInv, EnvironmentOK
<1>3. m \in Packet /\ Truthful(r, m)
  BY <1>2 DEF IInv, EnvironmentOK, SideOK
<1>4. m.ack \in Nat /\ m.seq \in Nat /\ m.sacks \in Seq(Nat \X Nat)
  BY <1>3 DEF Packet
<1>5. stream' = [stream EXCEPT ![e] = t] /\ net' = net
  BY DEF PollIncoming
<1>6. a \in Nat /\ a <= r.ack
  BY <1>2, <1>3, <1>4 DEF Larger, SideOK, Truthful, StreamOK
<1>7. EnvironmentOK' /\ remote_ack'[e] = a /\ remote_ack'[p] = remote_ack[p]
  <2>1. /\ recv_rx' = [recv_rx EXCEPT ![e] = @ \ {m}]
        /\ remote_ack' = [remote_ack EXCEPT ![e] = a]
        /\ phase' = phase /\ left' = left /\ AppUnchanged
    BY DEF PollIncoming, IInv, EnvironmentOK
  <2> HIDE DEF a
  <2>2. recv_rx' \in [End -> SUBSET Packet] /\ \A x \in End : recv_rx'[x] \subseteq net[x]
    BY <2>1 DEF IInv, EnvironmentOK
  <2>3. /\ remote_ack' \in [End -> Nat]
        /\ remote_ack'[e] = a /\ remote_ack'[p] = remote_ack[p]
    BY <1>1, <1>6, <2>1 DEF IInv, EnvironmentOK
  <2> QED BY <1>5, <2>1, <2>2, <2>3 DEF IInv, EnvironmentOK, AppUnchanged
<1>8. /\ StreamOK(t) /\ SenderOK(t) /\ WindowIntact(t)
      /\ t.seq = s.seq /\ t.remote_acked = s.remote_acked
      /\ t.read_cursor = s.read_cursor
      /\ s.ack <= t.ack
      /\ DOMAIN s.incoming \subseteq DOMAIN t.incoming
      /\ \A i \in DOMAIN t.incoming \ DOMAIN s.incoming : "DATA" \in m.typ /\ i = m.seq
      /\ DOMAIN t.outgoing \subseteq DOMAIN s.outgoing
      /\ \A i \in DOMAIN t.outgoing : t.outgoing[i] = s.outgoing[i]
      /\ \A i \in DOMAIN s.outgoing \ DOMAIN t.outgoing :
            /\ "SACK" \in m.typ
            /\ \E k \in 1 .. Len(m.sacks) : m.sacks[k][1] <= i /\ i < m.sacks[k][2]
      /\ \A q \in t.send_queue :
            \/ q \in s.send_queue
            \/ (q.typ \subseteq {"END"} /\ q.ack <= t.ack /\ q.sacks = <<>>)
  <2>1. SenderOK(s) /\ WindowIntact(s)
    BY <1>2 DEF SideOK
  <2> HIDE DEF s
  <2> QED BY <1>2, <1>3, <2>1, HandleIncomingFrame
<1> HIDE DEF t, a
<1>9. /\ s.seq \in Nat /\ s.ack \in Nat /\ r.seq \in Nat /\ t.ack \in Nat
      /\ s.read_cursor \in Nat /\ s.read_cursor <= s.ack
      /\ DOMAIN s.outgoing \subseteq Nat /\ DOMAIN t.incoming \subseteq Nat
  BY <1>2, <1>8 DEF StreamOK, IsMapTo, SideOK, WindowIntact
<1>10. Grows(s, t)
  <2>1. /\ t.seq = s.seq /\ s.ack <= t.ack
        /\ DOMAIN s.incoming \subseteq DOMAIN t.incoming
    BY <1>8
  <2>2. s.seq <= t.seq
    BY LeqRefl, <1>9, <2>1
  <2> HIDE DEF s
  <2> QED BY <1>9, <2>1, <2>2, HoldsMore
<1>11. DOMAIN t.incoming \subseteq 0 .. (r.seq - 1)
  <2>1. "DATA" \in m.typ => m.seq < r.seq
    BY <1>3 DEF Truthful
  <2>2. "DATA" \in m.typ => m.seq \in 0 .. (r.seq - 1)
    BY LeqRefl, InInterval, <1>4, <1>9, <2>1
  <2>3. DOMAIN s.incoming \subseteq 0 .. (r.seq - 1)
    BY <1>2 DEF SideOK
  <2>4. \A i \in DOMAIN t.incoming \ DOMAIN s.incoming : "DATA" \in m.typ /\ i = m.seq
    BY <1>8
  <2> QED BY SMTT(30), <2>2, <2>3, <2>4
<1>12. t.ack <= r.seq
  <2>1. CASE t.ack = s.ack
    BY <1>2, <2>1 DEF SideOK
  <2>2. CASE t.ack # s.ack
    <3>1. /\ s.ack <= t.ack /\ t.read_cursor = s.read_cursor
          /\ t.read_cursor .. (t.ack - 1) \subseteq DOMAIN t.incoming
      BY <1>8 DEF WindowIntact
    <3>2. t.ack - 1 \in t.read_cursor .. (t.ack - 1)
      BY <1>9, <2>2, <3>1, LastOfInterval
    <3> QED BY <1>9, <1>11, <3>1, <3>2, LastOfInterval
  <2> QED BY <2>1, <2>2
<1>13. \A i \in 0 .. (t.seq - 1) : i \in DOMAIN t.outgoing \/ Got(r, i)
  <2> SUFFICES ASSUME NEW i \in DOMAIN s.outgoing \ DOMAIN t.outgoing PROVE Got(r, i)
    BY <1>2, <1>8 DEF SideOK
  <2>1. PICK k \in 1 .. Len(m.sacks) : m.sacks[k][1] <= i /\ i < m.sacks[k][2]
    BY <1>8
  <2>2. m.sacks[k] \in Nat \X Nat /\ i \in Nat
    <3>1. i \in Nat
      BY <1>9
    <3>2. m.sacks[k] \in Nat \X Nat
      BY SMT, <1>4
    <3> QED BY <3>1, <3>2
  <2>3. i \in m.sacks[k][1] .. (m.sacks[k][2] - 1)
    BY InInterval, <2>1, <2>2
  <2> QED BY <1>3, <2>3 DEF Truthful
<1>14. SideOK(t, r, net[p], a)
  <2>1. \A q \in net[p] \cup t.send_queue : q \in net[p] \cup s.send_queue \/ Truthful(t, q)
    BY <1>8, StateTruthful
  <2>2. t.remote_acked <= r.ack
    BY <1>2, <1>8 DEF SideOK
  <2> HIDE DEF s, r, p
  <2> QED BY <1>2, <1>6, <1>8, <1>10, <1>13, <2>1, <2>2, OwnSide
<1>15. Onward(s, t)
  <2>1. s.remote_acked \in Nat
    BY <1>2 DEF StreamOK
  <2> HIDE DEF s
  <2> QED BY LeqRefl, <1>8, <1>9, <2>1 DEF Onward
<1> QED BY <1>5, <1>7, <1>8, <1>10, <1>11, <1>12, <1>14, <1>15, StepAt

\* The end of poll_incoming and poll_check_timeouts: what the cumulative ack
\* removes the peer has, what the timer marks stays in the buffer.
LEMMA CheckedSide ==
  ASSUME IInv, NEW e \in End
  PROVE  LET s == stream[e]
             r == stream[Peer(e)]
             c == Checked(e)
         IN  /\ StreamOK(c) /\ SideOK(c, r, net[Peer(e)], remote_ack[e])
             /\ Grows(s, c) /\ c.ack = s.ack /\ c.incoming = s.incoming
             /\ c.seq = s.seq /\ Onward(s, c)
<1> USE ZenonT(30)
<1> DEFINE s == stream[e]
           p == Peer(e)
           r == stream[p]
           a == remote_ack[e]
           u == HandleIncomingMaxRemoteAck(s, a)
           c == PollCheckTimeouts(u)
<1>1. p \in End
  BY PeerFacts
<1>2. /\ StreamOK(s) /\ StreamOK(r) /\ SideOK(s, r, net[p], a)
      /\ net[p] \in SUBSET Packet /\ a \in Nat
  BY <1>1 DEF IInv, EnvironmentOK
<1>3. c = Checked(e)
  BY DEF Checked
<1>4. SenderOK(s) /\ WindowIntact(s)
  BY <1>2 DEF SideOK
<1>5. /\ StreamOK(u) /\ SenderOK(u) /\ u.remote_acked = Larger(s.remote_acked, a)
      /\ DOMAIN u.outgoing \subseteq DOMAIN s.outgoing
      /\ \A i \in DOMAIN u.outgoing : u.outgoing[i] = s.outgoing[i]
      /\ \A i \in DOMAIN s.outgoing \ DOMAIN u.outgoing : i < a
      /\ \A f \in StreamFields \ {"outgoing", "inflight", "inflight_bytes",
            "inflight_packets", "remote_acked", "write_waker", "rto_timeout"} : u[f] = s[f]
  <2> HIDE DEF s, a
  <2> QED BY <1>2, <1>4, MaxRemoteAckFrame
<1> HIDE DEF u
<1>6. /\ StreamOK(c) /\ SenderOK(c)
      /\ DOMAIN c.outgoing = DOMAIN u.outgoing
      /\ \A i \in DOMAIN u.outgoing : c.outgoing[i].packet = u.outgoing[i].packet
      /\ \A f \in StreamFields \ {"rto_timeout", "cwnd", "outgoing", "inflight"} : c[f] = u[f]
  BY <1>5, PollCheckTimeoutsFrame
<1> HIDE DEF c
<1>7. /\ c.seq = s.seq /\ c.ack = s.ack /\ c.incoming = s.incoming
      /\ c.read_cursor = s.read_cursor /\ c.send_queue = s.send_queue
      /\ c.remote_acked = u.remote_acked
  BY <1>5, <1>6 DEF StreamFields
<1>8. /\ s.seq \in Nat /\ s.ack \in Nat /\ r.ack \in Nat /\ s.remote_acked \in Nat
      /\ DOMAIN s.outgoing \subseteq Nat
  BY <1>2 DEF StreamOK, IsMapTo
<1>9. Grows(s, c) /\ WindowIntact(c)
  <2>1. s.seq <= c.seq /\ c.ack \in Nat /\ s.ack <= c.ack
    BY LeqRefl, <1>7, <1>8
  <2>2. c.incoming = s.incoming /\ c.ack = s.ack /\ c.read_cursor = s.read_cursor
    BY <1>7
  <2> HIDE DEF s
  <2> QED BY <1>4, <1>8, <2>1, <2>2, HoldsMore, SameWindow
<1>10. c.remote_acked <= r.ack /\ a <= r.ack
  BY <1>2, <1>5, <1>7, <1>8 DEF SideOK, Larger
<1>11. \A i \in 0 .. (c.seq - 1) : i \in DOMAIN c.outgoing \/ Got(r, i)
  <2> SUFFICES ASSUME NEW i \in DOMAIN s.outgoing \ DOMAIN c.outgoing PROVE Got(r, i)
    BY <1>2, <1>7 DEF SideOK
  <2>1. i \in Nat
    BY <1>8
  <2>2. i < a
    BY <1>5, <1>6
  <2>3. i < r.ack
    BY LessLeq, <1>2, <1>8, <1>10, <2>1, <2>2
  <2> QED BY <2>3 DEF Got
<1>12. \A i \in DOMAIN c.outgoing : /\ i \in DOMAIN s.outgoing
                                    /\ c.outgoing[i].packet = s.outgoing[i].packet
  BY <1>5, <1>6
<1>13. SideOK(c, r, net[p], a)
  <2> HIDE DEF s, r, p, a
  <2> QED BY <1>2, <1>6, <1>7, <1>9, <1>10, <1>11, <1>12, OwnSide
<1>14. Onward(s, c)
  <2>1. s.remote_acked <= c.remote_acked
    BY LargerBounds, <1>2, <1>5, <1>7, <1>8
  <2>2. s.read_cursor \in Nat
    BY <1>2 DEF StreamOK
  <2> HIDE DEF s
  <2> QED BY LeqRefl, <1>7, <1>8, <1>12, <2>1, <2>2 DEF Onward
<1> QED BY <1>3, <1>6, <1>7, <1>9, <1>13, <1>14

\* The rest of poll_drive, when it fails and when it does not.
LEMMA DriveStep ==
  ASSUME IInv, NEW e \in End, DriveBroken(e) \/ DriveFails(e) \/ Drive(e)
  PROVE  StepOK
<1> USE ZenonT(30)
<1> DEFINE s == stream[e]
           p == Peer(e)
           r == stream[p]
           c == Checked(e)
<1>1. p \in End /\ Peer(p) = e /\ p # e
  BY PeerFacts
<1>2. /\ StreamOK(s) /\ StreamOK(r) /\ SideOK(r, s, net[e], remote_ack[p])
      /\ net[p] \in SUBSET Packet /\ r.ack \in Nat
  BY <1>1 DEF IInv, EnvironmentOK, StreamOK
<1>3. /\ StreamOK(c) /\ SideOK(c, r, net[p], remote_ack[e]) /\ Grows(s, c)
      /\ c.ack = s.ack /\ c.incoming = s.incoming /\ c.seq = s.seq /\ Onward(s, c)
  BY CheckedSide
<1>4. c.ack <= r.seq /\ DOMAIN c.incoming \subseteq 0 .. (r.seq - 1)
  BY <1>2, <1>3 DEF SideOK
<1> HIDE DEF c
<1>5. /\ remote_ack' = [remote_ack EXCEPT ![e] = 0]
      /\ phase' = [phase EXCEPT ![e] = "idle"]
      /\ recv_rx' = recv_rx /\ left' = left /\ AppUnchanged
  BY DEF DriveBroken, DriveFails, Drive
<1>6. /\ remote_ack' \in [End -> Nat] /\ remote_ack'[e] = 0 /\ remote_ack'[p] = remote_ack[p]
      /\ phase' \in [End -> {"idle", "incoming", "writing"}]
      /\ \A x \in End : phase'[x] = "writing" => left'[x] # 0
  BY <1>1, <1>5 DEF IInv, EnvironmentOK
<1>7. ASSUME NEW t, StreamOK(t), SideOK(t, r, net'[p], 0), t.ack = c.ack, t.seq = c.seq,
             t.incoming = c.incoming, stream' = [stream EXCEPT ![e] = t],
             EnvironmentOK', net'[e] = net[e], Onward(s, t)
      PROVE  StepOK
  <2>1. Grows(s, t)
    BY <1>3, <1>7 DEF Grows, Got
  <2>2. t.ack <= r.seq /\ DOMAIN t.incoming \subseteq 0 .. (r.seq - 1)
    BY <1>4, <1>7
  <2> QED BY <1>6, <1>7, <2>1, <2>2, StepAt
<1>8. ASSUME NEW d, StreamOK(d), SideOK(d, r, net[p], remote_ack[e]),
             d.ack = c.ack, d.incoming = c.incoming, d.seq = c.seq, Onward(s, d), NEW err \in Errors,
             stream' = [stream EXCEPT ![e] = Failed(d, err)], net' = net
      PROVE  StepOK
  <2> DEFINE u == Terminate(d, err)
             t == [u EXCEPT !.scheduled = TRUE]
  <2>2. stream' = [stream EXCEPT ![e] = t] /\ net' = net
    BY SMT, <1>8 DEF Failed
  <2>3. EnvironmentOK'
    BY <1>5, <1>6, <2>2 DEF IInv, EnvironmentOK, AppUnchanged
  <2>4. /\ StreamOK(u)
        /\ \A f \in StreamFields \ {"drive_waker", "scheduled", "send_queue", "error", "state",
                                      "read_waker", "write_waker"} : u[f] = d[f]
        /\ \A q \in u.send_queue :
              \/ q \in d.send_queue
              \/ (q.typ \subseteq {"END"} /\ q.ack = d.ack /\ q.sacks = <<>>)
    BY <1>8, TerminateFrame
  <2> HIDE DEF u
  <2>5. /\ StreamOK(t) /\ t.send_queue = u.send_queue
        /\ \A f \in StreamFields \ {"scheduled"} : t[f] = u[f]
    BY <2>4 DEF StreamOK, StreamFields
  <2> HIDE DEF t
  <2>6. \A f \in {"seq", "ack", "remote_acked", "read_cursor", "incoming", "outgoing",
                  "inflight", "inflight_packets", "inflight_bytes"} : t[f] = d[f]
    BY <2>4, <2>5 DEF StreamFields
  <2>7. \A q \in t.send_queue :
           \/ q \in d.send_queue
           \/ (q.typ \subseteq {"END"} /\ q.ack = d.ack /\ q.sacks = <<>>)
    BY <2>4, <2>5
  <2>8. SideOK(t, r, net[p], remote_ack[e])
    <3> HIDE DEF r, p
    <3> QED BY <1>8, <2>5, <2>6, <2>7, QuietSide
  <2>9. SideOK(t, r, net[p], 0)
    <3>1. 0 <= r.ack
      BY LeqRefl, <1>2
    <3> HIDE DEF r, p
    <3> QED BY <2>8, <3>1 DEF SideOK
  <2>10. t.ack = c.ack /\ t.seq = c.seq /\ t.incoming = c.incoming
    BY <1>8, <2>6
  <2>11. Onward(s, t)
    <3> HIDE DEF s
    <3> QED BY <1>8, <2>6 DEF Onward
  <2> QED BY <1>7, <2>2, <2>3, <2>5, <2>9, <2>10, <2>11
<1>10. CASE DriveFails(e)
  <2>1. PICK err \in Errors : err = "TimedOut"
    BY SMT DEF Errors
  <2>2. stream' = [stream EXCEPT ![e] = Failed(c, err)] /\ net' = net
    BY <1>10, <2>1 DEF DriveFails, c
  <2> QED BY <1>3, <1>8, <2>2
<1>11. CASE DriveBroken(e)
  <2>1. PICK err \in Errors : err = "BrokenPipe"
    BY SMT DEF Errors
  <2>2. stream' = [stream EXCEPT ![e] = Failed(s, err)] /\ net' = net
    BY <1>11, <2>1 DEF DriveBroken
  <2>3. SideOK(s, r, net[p], remote_ack[e])
    BY DEF IInv
  <2>4. Onward(s, s)
    BY <1>2, SameOnward
  <2> QED BY <1>2, <1>3, <1>8, <2>2, <2>3, <2>4
<1>9. CASE Drive(e)
  <2> DEFINE f == FlushWaitingPackets(c)
             t == [f EXCEPT !.send_queue = {}, !.drive_waker = TRUE]
  <2>1. stream' = [stream EXCEPT ![e] = t] /\ net' = [net EXCEPT ![p] = @ \cup f.send_queue]
    BY <1>9 DEF Drive, c
  <2>2. SenderOK(c) /\ WindowIntact(c)
    BY <1>3 DEF SideOK
  <2>3. /\ StreamOK(f) /\ SenderOK(f)
        /\ DOMAIN f.outgoing = DOMAIN c.outgoing
        /\ \A i \in DOMAIN c.outgoing : f.outgoing[i].packet = c.outgoing[i].packet
        /\ \A q \in f.send_queue :
              q \in c.send_queue \/ \E i \in DOMAIN c.outgoing : q = c.outgoing[i].packet
        /\ \A g \in StreamFields \ {"outgoing", "inflight", "send_queue"} : f[g] = c[g]
    BY <1>3, <2>2, FlushWaitingPacketsFrame
  <2> HIDE DEF f
  <2>4. /\ StreamOK(t) /\ t.send_queue = {}
        /\ \A g \in StreamFields \ {"send_queue", "drive_waker"} : t[g] = f[g]
    BY <2>3 DEF StreamOK, StreamFields
  <2> HIDE DEF t
  <2>5. /\ f.send_queue \subseteq Packet
        /\ net' \in [End -> SUBSET Packet] /\ net'[p] = net[p] \cup f.send_queue
        /\ net'[e] = net[e] /\ \A x \in End : recv_rx[x] \subseteq net'[x]
    <3>1. f.send_queue \subseteq Packet
      BY <2>3 DEF StreamOK
    <3> HIDE DEF p
    <3> QED BY <1>1, <2>1, <3>1 DEF IInv, EnvironmentOK
  <2>6. EnvironmentOK'
    BY <1>5, <1>6, <2>5 DEF IInv, EnvironmentOK, AppUnchanged
  <2>7. /\ t.seq = c.seq /\ t.ack = c.ack /\ t.remote_acked = c.remote_acked
        /\ t.incoming = c.incoming /\ t.read_cursor = c.read_cursor
        /\ t.outgoing = f.outgoing /\ t.inflight = f.inflight
        /\ t.inflight_packets = f.inflight_packets /\ t.inflight_bytes = f.inflight_bytes
        /\ t.seq = f.seq /\ t.remote_acked = f.remote_acked
    BY <2>3, <2>4 DEF StreamFields
  <2>8. SenderOK(t) /\ WindowIntact(t)
    BY <2>2, <2>3, <2>7 DEF SenderOK, CountersExact, NotWaiting, WindowIntact
  <2>9. Grows(c, t)
    <3>1. c.seq \in Nat /\ c.ack \in Nat
      BY <1>3 DEF StreamOK
    <3>2. /\ c.seq <= t.seq /\ t.ack \in Nat /\ c.ack <= t.ack
          /\ DOMAIN c.incoming \subseteq DOMAIN t.incoming
      BY LeqRefl, <2>7, <3>1
    <3> QED BY <3>1, <3>2, HoldsMore
  <2>10. SideOK(t, r, net'[p], 0)
    <3>1. /\ t.remote_acked <= r.ack /\ 0 <= r.ack
          /\ \A i \in 0 .. (t.seq - 1) : i \in DOMAIN t.outgoing \/ Got(r, i)
      <4>1. /\ c.remote_acked <= r.ack
            /\ \A i \in 0 .. (c.seq - 1) : i \in DOMAIN c.outgoing \/ Got(r, i)
        BY <1>3 DEF SideOK
      <4>2. 0 <= r.ack
        BY LeqRefl, <1>2
      <4>3. DOMAIN t.outgoing = DOMAIN c.outgoing
        BY <2>3, <2>7
      <4>4. t.seq = c.seq /\ t.remote_acked = c.remote_acked
        BY <2>7
      <4> HIDE DEF r
      <4> QED BY <4>1, <4>2, <4>3, <4>4
    <3>2. \A m \in net'[p] \cup t.send_queue :
             \/ m \in net[p] \cup c.send_queue
             \/ \E i \in DOMAIN c.outgoing : m = c.outgoing[i].packet
      BY <2>3, <2>4, <2>5
    <3>3. \A i \in DOMAIN t.outgoing :
             i \in DOMAIN c.outgoing /\ t.outgoing[i].packet = c.outgoing[i].packet
      BY <2>3, <2>7
    <3> DEFINE n2 == net'[p]
    <3> HIDE DEF r, p, n2
    <3>4. \A m \in n2 \cup t.send_queue :
             \/ m \in net[p] \cup c.send_queue
             \/ \E i \in DOMAIN c.outgoing : m = c.outgoing[i].packet
      BY <3>2 DEF n2
    <3>5. SideOK(t, r, n2, 0)
      <4>1. StreamOK(r) /\ StreamOK(c) /\ StreamOK(t)
        BY <1>2, <1>3, <2>4 DEF r
      <4>2. net[p] \in SUBSET Packet
        BY <1>2 DEF p
      <4>3. SideOK(c, r, net[p], remote_ack[e])
        BY <1>3 DEF r, p
      <4> QED BY <4>1, <4>2, <4>3, <2>8, <2>9, <3>1, <3>3, <3>4, OwnSide
    <3> QED BY <3>5 DEF n2
  <2>11. Onward(s, t)
    <3>1. DOMAIN t.outgoing = DOMAIN c.outgoing
      BY <2>3, <2>7
    <3>2. \A i \in DOMAIN c.outgoing : t.outgoing[i].packet = c.outgoing[i].packet
      BY <2>3, <2>7
    <3> HIDE DEF s
    <3> QED BY <1>3, <2>7, <3>1, <3>2 DEF Onward
  <2> QED BY <1>7, <2>1, <2>4, <2>5, <2>6, <2>7, <2>10, <2>11
<1> QED BY <1>9, <1>10, <1>11

\* A SACK lists packets its sender holds.
LEMMA SackStep ==
  ASSUME IInv, NEW e \in End, SendSack(e)
  PROVE  StepOK
<1> USE ZenonT(30)
<1> DEFINE s == stream[e]
           p == Peer(e)
           r == stream[p]
<1>1. p \in End /\ Peer(p) = e /\ p # e /\ \A x \in End : x = e \/ x = p
  BY PeerFacts
<1>2. StreamOK(s) /\ DOMAIN s.incoming \subseteq Nat /\ s.ack \in Nat
  BY DEF IInv, StreamOK, IsMapTo
<1>3. PICK x, y \in SackRanges(s) :
         net' = [net EXCEPT ![p] = @ \cup
                   {[CreatePacket(s, {"SACK"}, 0, 0) EXCEPT !.sacks = <<x, y>>]}]
  BY DEF SendSack
<1> DEFINE k == CreatePacket(s, {"SACK"}, 0, 0)
           m == [k EXCEPT !.sacks = <<x, y>>]
<1>4. ASSUME NEW z \in SackRanges(s)
      PROVE  z \in Nat \X Nat /\ (z[1] .. (z[2] - 1)) \subseteq DOMAIN s.incoming
  <2>1. z \in (DOMAIN s.incoming) \X {i + 1 : i \in DOMAIN s.incoming}
    BY DEF SackRanges
  <2>2. \A i \in DOMAIN s.incoming : i + 1 \in Nat
    BY NextNat, <1>2
  <2> HIDE DEF s
  <2>3. z \in Nat \X Nat
    BY <1>2, <2>1, <2>2
  <2>4. (z[1] .. (z[2] - 1)) \subseteq DOMAIN s.incoming
    BY DEF SackRanges
  <2> QED BY <2>3, <2>4
<1>5. /\ k \in Packet /\ k.ack = s.ack /\ "DATA" \notin k.typ
  <2>1. {"SACK"} \in SUBSET Flags
    BY DEF Flags
  <2>2. k \in Packet
    BY <1>2, <2>1, CreatePacketType
  <2> QED BY <2>2 DEF CreatePacket
<1>6. /\ m \in Packet /\ m.ack = s.ack /\ "DATA" \notin m.typ /\ m.sacks = <<x, y>>
  <2>1. <<x, y>> \in Seq(Nat \X Nat)
    BY SMT, <1>4
  <2> DEFINE sk == <<x, y>>
  <2> HIDE DEF k, sk
  <2> QED BY <1>5, <2>1 DEF Packet, sk
<1>7. Truthful(s, m)
  <2>1. ASSUME NEW j \in 1 .. Len(m.sacks), NEW i \in m.sacks[j][1] .. (m.sacks[j][2] - 1)
        PROVE  Got(s, i)
    <3>1. m.sacks[j] = x \/ m.sacks[j] = y
      <4>1. Len(m.sacks) = 2
        BY SMT, <1>6
      <4>2. j = 1 \/ j = 2
        BY SMT, <4>1
      <4> QED BY SMT, <1>6, <4>2
    <3> QED BY SMT, <1>4, <3>1 DEF Got
  <2> HIDE DEF m
  <2> QED BY LeqRefl, <1>2, <1>6, <2>1 DEF Truthful
<1>8. net' = [net EXCEPT ![p] = @ \cup {m}]
  BY <1>3
<1> HIDE DEF m
<1>9. /\ net' \in [End -> SUBSET Packet] /\ net'[p] = net[p] \cup {m} /\ net'[e] = net[e]
      /\ \A z \in End : recv_rx[z] \subseteq net'[z]
  <2> HIDE DEF p
  <2> QED BY <1>1, <1>6, <1>8 DEF IInv, EnvironmentOK
<1>10. /\ stream' = stream /\ recv_rx' = recv_rx /\ phase' = phase
       /\ remote_ack' = remote_ack /\ left' = left /\ AppUnchanged
  BY SMT DEF SendSack
<1>11. EnvironmentOK'
  BY <1>9, <1>10 DEF IInv, EnvironmentOK, AppUnchanged
<1>12. SideOK(s, r, net'[p], remote_ack[e])
  <2>1. SideOK(s, r, net[p], remote_ack[e])
    BY DEF IInv
  <2> QED BY <1>7, <1>9, <2>1 DEF SideOK
<1>13. SideOK(r, s, net'[e], remote_ack[p])
  BY <1>1, <1>9 DEF IInv
<1>14. \A z \in End : SideOK(stream'[z], stream'[Peer(z)], net'[Peer(z)], remote_ack'[z])
  BY <1>1, <1>10, <1>12, <1>13
<1>15. \A z \in End : Onward(stream[z], stream[z])
  BY SameOnward DEF IInv
<1> QED BY <1>10, <1>11, <1>14, <1>15 DEF IInv, StepOK

-----------------------------------------------------------------------------
(* The waiting reader *)

\* A reader that waits after a step waited before it, and what it waits for
\* has not come.
StillWaits(s, t) ==
  t.read_waker => /\ s.read_waker /\ t.error = s.error
                  /\ t.read_cursor = s.read_cursor /\ t.ack = s.ack

\* terminate wakes the reader.
LEMMA TerminateWaits ==
  ASSUME NEW s, StreamOK(s), NEW err \in Errors
  PROVE  ~ Terminate(s, err).read_waker
<1> USE ZenonT(30)
<1> DEFINE s0 == [s EXCEPT !.error = err, !.state = CloseLocal(@)]
           s1 == SendStatePacket(s0)
           s2 == [s1 EXCEPT !.read_waker = FALSE, !.write_waker = FALSE]
<1>1. Terminate(s, err) = WakeDriver(s2)
  BY SMT DEF Terminate
<1>2. StreamOK(s0)
  <2>1. CloseLocal(s.state) \in StreamStates
    BY DEF CloseLocal, StreamStates
  <2> QED BY <2>1 DEF StreamOK, StreamFields
<1> HIDE DEF s0
<1>3. DOMAIN s1 = StreamFields
  BY <1>2, SendStatePacketFrame DEF StreamOK
<1> HIDE DEF s1
<1>4. DOMAIN s2 = StreamFields /\ s2.read_waker = FALSE
  BY <1>3 DEF StreamFields
<1> HIDE DEF s2
<1>5. WakeDriver(s2).read_waker = s2.read_waker
  <2>1. \A f \in StreamFields \ {"drive_waker", "scheduled"} : WakeDriver(s2)[f] = s2[f]
    BY <1>4, WakeDriverFrame
  <2> QED BY <2>1 DEF StreamFields
<1> QED BY <1>1, <1>4, <1>5

\* A packet that moves ack on wakes the reader.
LEMMA ReceiveDataWaits ==
  ASSUME NEW s, StreamOK(s), WindowIntact(s), NEW p \in Packet
  PROVE  StillWaits(s, ReceiveData(s, p))
<1> USE ZenonT(30)
<1> DEFINE inc == IF p.seq >= s.ack
                  THEN Insert(s.incoming, p.seq, [packet |-> p, read_offset |-> 0])
                  ELSE s.incoming
           ack == NextGap(DOMAIN inc, s.ack)
           w == s.read_waker /\ p.seq > ack
           u == [s EXCEPT !.incoming = inc, !.ack = ack, !.read_waker = w]
           t == ReceiveData(s, p)
<1>1. t = SendStatePacket(u)
  BY DEF ReceiveData
<1>2. /\ DOMAIN s = StreamFields /\ s.ack \in Nat /\ IsMapTo(s.incoming, IncomingPacket)
      /\ p.seq \in Nat
  BY DEF StreamOK, Packet
<1>3. IsMapTo(inc, IncomingPacket) /\ DOMAIN inc \subseteq DOMAIN s.incoming \cup {p.seq}
  <2>1. [packet |-> p, read_offset |-> 0] \in IncomingPacket
    BY DEF IncomingPacket
  <2>2. IsMapTo(Insert(s.incoming, p.seq, [packet |-> p, read_offset |-> 0]), IncomingPacket)
    BY <1>2, <2>1, InsertMap
  <2> QED BY <1>2, <2>2 DEF Insert
<1>4. ack \in Nat /\ s.ack <= ack /\ s.ack .. (ack - 1) \subseteq DOMAIN inc
  <2>1. DOMAIN inc \subseteq Nat /\ IsFiniteSet(DOMAIN inc)
    BY <1>3 DEF IsMapTo
  <2> HIDE DEF inc
  <2> QED BY <1>2, <2>1, NextGapProperties
<1>5. w => ack = s.ack
  <2> SUFFICES ASSUME p.seq > ack, ack # s.ack PROVE FALSE
    OBVIOUS
  <2> HIDE DEF inc, ack
  <2>1. s.ack \in DOMAIN inc
    BY SMT, <1>2, <1>4
  <2>2. s.ack \notin DOMAIN s.incoming /\ s.ack # p.seq
    BY SMT, <1>2, <1>4 DEF WindowIntact
  <2> QED BY <1>3, <2>1, <2>2
<1> HIDE DEF inc, ack, w
<1>6. /\ u.ack = ack /\ u.read_waker = w /\ u.read_cursor = s.read_cursor
      /\ u.error = s.error
  BY <1>2 DEF StreamFields
<1>7. StreamOK(u)
  <2>1. w \in BOOLEAN
    BY DEF w
  <2> QED BY <1>3, <1>4, <2>1 DEF StreamOK, StreamFields
<1> HIDE DEF u
<1>8. \A f \in StreamFields \ {"drive_waker", "scheduled", "send_queue"} : t[f] = u[f]
  BY <1>1, <1>7, SendStatePacketFrame
<1> HIDE DEF t
<1>9. /\ t.read_waker = w /\ t.error = s.error /\ t.read_cursor = s.read_cursor
      /\ t.ack = ack
  BY <1>6, <1>8 DEF StreamFields
<1>10. w => s.read_waker
  BY SMT DEF w
<1> QED BY <1>5, <1>9, <1>10 DEF StillWaits, t

\* handle_incoming: the reader waits on only for what has not come.
LEMMA HandleIncomingWaits ==
  ASSUME NEW s, StreamOK(s), SenderOK(s), WindowIntact(s), NEW p \in Packet
  PROVE  StillWaits(s, HandleIncoming(s, p))
<1> USE ZenonT(30)
<1> DEFINE s1 == IF "SACK" \in p.typ THEN HandleIncomingSacks(s, p) ELSE s
           r == [s1 EXCEPT !.state = CloseRemote(@)]
           s2 == IF "END" \in p.typ THEN Terminate(r, "UnexpectedEof") ELSE s1
           s3 == IF "DATA" \in p.typ THEN ReceiveData(s2, p) ELSE s2
           t == HandleIncoming(s, p)
<1>1. t = GrowWindow(s3, p.ack)
  BY SMT DEF HandleIncoming
<1>2. /\ StreamOK(s1)
      /\ \A f \in StreamFields \ {"outgoing", "inflight", "inflight_bytes",
                                  "inflight_packets"} : s1[f] = s[f]
  <2>1. CASE "SACK" \in p.typ
    <3> DEFINE v == HandleIncomingSacks(s, p)
    <3>1. /\ StreamOK(v)
          /\ \A f \in StreamFields \ {"outgoing", "inflight", "inflight_bytes",
                                      "inflight_packets"} : v[f] = s[f]
      BY HandleIncomingSacksFrame
    <3>2. s1 = v
      BY <2>1
    <3> HIDE DEF s1, v
    <3> QED BY <3>1, <3>2
  <2>2. CASE "SACK" \notin p.typ
    <3>1. s1 = s
      BY <2>2
    <3> HIDE DEF s1
    <3> QED BY <3>1
  <2> QED BY <2>1, <2>2
<1> HIDE DEF s1
<1>3. /\ s1.ack = s.ack /\ s1.incoming = s.incoming /\ s1.read_cursor = s.read_cursor
      /\ s1.error = s.error /\ s1.read_waker = s.read_waker
  BY <1>2 DEF StreamFields
<1>4. StreamOK(r) /\ r.ack = s1.ack /\ r.incoming = s1.incoming /\ r.read_cursor = s1.read_cursor
  <2>1. CloseRemote(s1.state) \in StreamStates
    BY DEF CloseRemote, StreamStates
  <2> QED BY <1>2, <2>1 DEF StreamOK, StreamFields
<1> HIDE DEF r
<1>5. /\ StreamOK(s2) /\ s2.ack = s.ack /\ s2.incoming = s.incoming
      /\ s2.read_cursor = s.read_cursor
      /\ s2.read_waker => s.read_waker /\ s2.error = s.error
  <2>1. CASE "END" \in p.typ
    <3>1. PICK err \in Errors : err = "UnexpectedEof"
      BY DEF Errors
    <3> DEFINE v == Terminate(r, err)
    <3>2. StreamOK(v) /\ ~ v.read_waker
      BY <1>4, TerminateFrame, TerminateWaits
    <3>3. \A f \in StreamFields \ {"drive_waker", "scheduled", "send_queue", "error",
                                   "state", "read_waker", "write_waker"} : v[f] = r[f]
      BY <1>4, TerminateFrame
    <3>4. s2 = v
      BY <2>1, <3>1
    <3> HIDE DEF s2, v
    <3>5. v.ack = r.ack /\ v.incoming = r.incoming /\ v.read_cursor = r.read_cursor
      BY <3>3 DEF StreamFields
    <3> QED BY <1>3, <1>4, <3>2, <3>4, <3>5
  <2>2. CASE "END" \notin p.typ
    <3>1. s2 = s1
      BY <2>2
    <3> HIDE DEF s2
    <3> QED BY <1>2, <1>3, <3>1
  <2> QED BY <2>1, <2>2
<1> HIDE DEF s2
<1>6. StreamOK(s3) /\ StillWaits(s, s3)
  <2>1. WindowIntact(s2)
    BY <1>5, SameWindow
  <2>2. CASE "DATA" \in p.typ
    <3> DEFINE v == ReceiveData(s2, p)
    <3>1. StillWaits(s2, v)
      BY <1>5, <2>1, ReceiveDataWaits
    <3>2. StreamOK(v)
      BY <1>5, <2>1, ReceiveDataFrame
    <3>3. s3 = v
      BY <2>2
    <3> HIDE DEF s3, v
    <3> QED BY <1>5, <3>1, <3>2, <3>3 DEF StillWaits
  <2>3. CASE "DATA" \notin p.typ
    <3>1. s3 = s2
      BY <2>3
    <3> HIDE DEF s3
    <3> QED BY <1>5, <3>1 DEF StillWaits
  <2> QED BY <2>2, <2>3
<1> HIDE DEF s3
<1>7. p.ack \in Nat
  BY SMT DEF Packet
<1>8. \A f \in StreamFields \ {"cwnd"} : t[f] = s3[f]
  BY <1>1, <1>6, <1>7, GrowWindowFrame
<1> HIDE DEF t
<1>9. /\ t.read_waker = s3.read_waker /\ t.error = s3.error
      /\ t.read_cursor = s3.read_cursor /\ t.ack = s3.ack
  BY <1>8 DEF StreamFields
<1> QED BY <1>6, <1>9 DEF StillWaits, t

\* poll_read registers the reader when no whole packet was read, and leaves
\* an empty window empty.
LEMMA PollReadWaits ==
  ASSUME NEW s, StreamOK(s), WindowIntact(s), NEW cap \in Nat
  PROVE  /\ PollRead(s, cap).read_waker
              => s.read_waker \/ (~ DidRead(s, cap) /\ s.error = "none")
         /\ s.read_cursor = s.ack => PollRead(s, cap).read_cursor = s.ack
<1> USE ZenonT(30)
<1> DEFINE full == FullyRead(s, cap)
           next == s.read_cursor + Cardinality(full)
           u == ReadNext(s, cap)
           t == PollRead(s, cap)
<1>1. DOMAIN s = StreamFields /\ s.read_cursor \in Nat /\ s.ack \in Nat
  BY DEF StreamOK
<1>2. next \in Nat /\ s.read_cursor <= next /\ next <= s.ack
  BY FullyReadSegment
<1>3. t = [u EXCEPT !.read_waker = @ \/ (~ DidRead(s, cap) /\ s.error = "none")]
  BY DEF PollRead
<1>4. DOMAIN u = StreamFields /\ u.read_waker = s.read_waker /\ u.read_cursor = next
  <2> HIDE DEF next
  <2> QED BY <1>1 DEF ReadNext, StreamFields, next
<1> HIDE DEF u, t, next
<1>5. /\ t.read_waker = (u.read_waker \/ (~ DidRead(s, cap) /\ s.error = "none"))
      /\ t.read_cursor = u.read_cursor
  BY <1>3, <1>4 DEF StreamFields
<1>6. s.read_cursor = s.ack => next = s.ack
  BY SMTT(30), <1>1, <1>2
<1> QED BY <1>4, <1>5, <1>6 DEF t

\* No reader begins to wait, and none waits for what has come.
WaitsOn == \A x \in End : StillWaits(stream[x], stream'[x])

\* A step of one end.
LEMMA WaitsAt ==
  ASSUME IInv, NEW e \in End, NEW t, stream' = [stream EXCEPT ![e] = t],
         StillWaits(stream[e], t)
  PROVE  WaitsOn
<1> USE ZenonT(30)
<1>1. DOMAIN stream = End
  BY DEF IInv
<1>2. ASSUME NEW x \in End PROVE StillWaits(stream[x], stream'[x])
  <2>1. CASE x = e
    <3>1. stream'[x] = t
      BY <1>1, <2>1
    <3> QED BY <2>1, <3>1
  <2>2. CASE x # e
    <3>1. stream'[x] = stream[x]
      BY <1>1, <2>2
    <3> QED BY <3>1 DEF StillWaits
  <2> QED BY <2>1, <2>2
<1> QED BY <1>2 DEF WaitsOn

\* A step that leaves the reader's fields alone.
LEMMA QuietWaits ==
  ASSUME IInv, NEW e \in End, NEW t, stream' = [stream EXCEPT ![e] = t],
         t.read_waker = stream[e].read_waker, t.error = stream[e].error,
         t.read_cursor = stream[e].read_cursor, t.ack = stream[e].ack
  PROVE  WaitsOn
<1> USE ZenonT(30)
<1>1. StillWaits(stream[e], t)
  BY DEF StillWaits
<1> QED BY <1>1, WaitsAt

\* A step that terminates a stream.
LEMMA TerminatedWaits ==
  ASSUME IInv, NEW e \in End, NEW s, StreamOK(s), NEW err \in Errors, NEW t,
         t.read_waker = Terminate(s, err).read_waker,
         stream' = [stream EXCEPT ![e] = t]
  PROVE  WaitsOn
<1> USE ZenonT(30)
<1>1. ~ t.read_waker
  BY TerminateWaits
<1>2. StillWaits(stream[e], t)
  BY <1>1 DEF StillWaits
<1> QED BY <1>2, WaitsAt

\* poll_write.
LEMMA WriteWaits ==
  ASSUME IInv, NEW e \in End, NEW n \in Nat \ {0}, NEW first \in BOOLEAN,
         WriteChunk(e, n, first)
  PROVE  WaitsOn
<1> USE ZenonT(30)
<1> DEFINE s == stream[e]
<1>1. StreamOK(s) /\ DOMAIN s = StreamFields
  BY DEF IInv, StreamOK
<1>2. CASE WindowFull(s, n)
  <2> DEFINE t == [s EXCEPT !.write_waker = @ \/ first]
  <2>1. stream' = [stream EXCEPT ![e] = t]
    BY <1>2 DEF WriteChunk
  <2>2. /\ t.read_waker = s.read_waker /\ t.error = s.error
        /\ t.read_cursor = s.read_cursor /\ t.ack = s.ack
    BY <1>1 DEF StreamFields
  <2> HIDE DEF t
  <2> QED BY <2>1, <2>2, QuietWaits
<1>3. CASE ~ WindowFull(s, n)
  <2> DEFINE u == QueueData(s, n)
             t == WakeDriver(u)
  <2>1. stream' = [stream EXCEPT ![e] = t]
    BY <1>3 DEF WriteChunk, SendDataPacket
  <2>2. /\ DOMAIN u = StreamFields
        /\ u.read_waker = s.read_waker /\ u.error = s.error
        /\ u.read_cursor = s.read_cursor /\ u.ack = s.ack
    BY <1>1 DEF QueueData, StreamFields
  <2> HIDE DEF u
  <2>3. \A f \in StreamFields \ {"drive_waker", "scheduled"} : t[f] = u[f]
    BY <2>2, WakeDriverFrame
  <2> HIDE DEF t
  <2>4. /\ t.read_waker = u.read_waker /\ t.error = u.error
        /\ t.read_cursor = u.read_cursor /\ t.ack = u.ack
    BY <2>3 DEF StreamFields
  <2> QED BY <2>1, <2>2, <2>4, QuietWaits
<1> QED BY <1>2, <1>3

\* close(), clones of the handle and their drops.
LEMMA ClosingWaits ==
  ASSUME IInv, NEW e \in End,
         \/ \E c \in Closers : Close(e, c)
         \/ Clone(e) \/ DropBegins(e) \/ DropEnds(e)
         \/ DriverDropBegins(e) \/ DriverDropEnds(e)
  PROVE  WaitsOn
<1> USE ZenonT(30)
<1> DEFINE s == stream[e]
<1>1. StreamOK(s)
  BY SMT DEF IInv
<1>2. PICK err \in Errors : err = "ConnectionReset"
  BY SMT DEF Errors
<1> DEFINE u == Terminate(s, err)
<1>3. StreamOK(u)
  BY <1>1, TerminateFrame
<1>4. ASSUME stream' = stream PROVE WaitsOn
  BY <1>4 DEF WaitsOn, StillWaits
<1>5. ASSUME DropTerminates(e) PROVE WaitsOn
  <2>1. CASE stream' = [stream EXCEPT ![e] = u]
    <3> HIDE DEF s
    <3> QED BY <1>1, <2>1, TerminatedWaits
  <2> QED BY <1>2, <1>4, <1>5, <2>1 DEF DropTerminates
<1>6. ASSUME NEW c \in Closers, Close(e, c) PROVE WaitsOn
  <2> DEFINE t == [u EXCEPT !.on_close = {c}]
  <2>1. stream' = [stream EXCEPT ![e] = t]
    BY <1>2, <1>6 DEF Close
  <2>2. t.read_waker = u.read_waker
    <3> HIDE DEF u
    <3> QED BY <1>3 DEF StreamOK, StreamFields
  <2> HIDE DEF t, s
  <2> QED BY <1>1, <2>1, <2>2, TerminatedWaits
<1>7. CASE Clone(e) \/ DropEnds(e) \/ DriverDropEnds(e)
  BY <1>4, <1>7 DEF Clone, DropEnds, DriverDropEnds
<1>8. CASE DropBegins(e) \/ DriverDropBegins(e)
  BY <1>5, <1>8 DEF DropBegins, DriverDropBegins
<1> QED BY <1>6, <1>7, <1>8

\* The start of a poll, the timer, an arriving packet, the end of the socket.
LEMMA WakeWaits ==
  ASSUME IInv, NEW e \in End,
         \/ DriverReturns(e) \/ DriverPolls(e) \/ TimerElapses(e)
         \/ \E m \in net[e] : Deliver(e, m)
         \/ SocketGone(e)
  PROVE  WaitsOn
<1> USE ZenonT(30)
<1> DEFINE s == stream[e]
           new(t) == /\ stream' = [stream EXCEPT ![e] = t]
                     /\ t.read_waker = s.read_waker /\ t.error = s.error
                     /\ t.read_cursor = s.read_cursor /\ t.ack = s.ack
<1>1. DOMAIN s = StreamFields /\ DOMAIN stream = End
  BY DEF IInv, StreamOK
<1>2. ASSUME NEW t, new(t) PROVE WaitsOn
  BY <1>2, QuietWaits
<1>3. CASE DriverReturns(e)
  <2>1. new([PollStarts(s) EXCEPT !.on_close = {}])
    BY <1>1, <1>3 DEF DriverReturns, PollStarts, StreamFields
  <2> QED BY <1>2, <2>1
<1>4. CASE DriverPolls(e)
  <2>1. new(PollStarts(s))
    BY <1>1, <1>4 DEF DriverPolls, PollStarts, StreamFields
  <2> QED BY <1>2, <2>1
<1>5. CASE TimerElapses(e)
  <2>1. new([s EXCEPT !.rto_timeout = "elapsed", !.scheduled = TRUE])
    BY <1>1, <1>5 DEF TimerElapses, StreamFields
  <2> QED BY <1>2, <2>1
<1>6. ASSUME NEW m \in net[e], Deliver(e, m) PROVE WaitsOn
  <2>1. new([s EXCEPT !.scheduled = TRUE])
    BY <1>1, <1>6 DEF Deliver, StreamFields
  <2> QED BY <1>2, <2>1
<1>7. CASE SocketGone(e)
  <2>1. new([s EXCEPT !.rx_closed = TRUE, !.scheduled = TRUE])
    BY <1>1, <1>7 DEF SocketGone, StreamFields
  <2> QED BY <1>2, <2>1
<1> QED BY <1>3, <1>4, <1>5, <1>6, <1>7

\* The driver, once its poll has started.
LEMMA DriveWaits ==
  ASSUME IInv, NEW e \in End,
         \/ \E m \in recv_rx[e] : PollIncoming(e, m)
         \/ DriveBroken(e) \/ DriveFails(e) \/ Drive(e)
  PROVE  WaitsOn
<1> USE ZenonT(30)
<1> DEFINE s == stream[e]
           r == stream[Peer(e)]
           a == HandleIncomingMaxRemoteAck(s, remote_ack[e])
           c == PollCheckTimeouts(a)
<1>1. /\ StreamOK(s) /\ SenderOK(s) /\ WindowIntact(s) /\ remote_ack[e] \in Nat
      /\ recv_rx[e] \subseteq Packet
  <2>1. StreamOK(s) /\ SideOK(s, r, net[Peer(e)], remote_ack[e])
    BY PeerFacts DEF IInv
  <2> QED BY <2>1 DEF SideOK, IInv, EnvironmentOK
<1>2. ASSUME NEW m \in recv_rx[e], PollIncoming(e, m) PROVE WaitsOn
  <2>1. stream' = [stream EXCEPT ![e] = HandleIncoming(s, m)] /\ m \in Packet
    BY <1>1, <1>2 DEF PollIncoming
  <2>2. StillWaits(s, HandleIncoming(s, m))
    BY <1>1, <2>1, HandleIncomingWaits
  <2> QED BY <2>1, <2>2, WaitsAt
<1>3. /\ StreamOK(a) /\ SenderOK(a)
      /\ \A f \in StreamFields \ {"outgoing", "inflight", "inflight_bytes",
            "inflight_packets", "remote_acked", "write_waker", "rto_timeout"} : a[f] = s[f]
  BY <1>1, MaxRemoteAckFrame
<1>4. c = Checked(e)
  BY DEF Checked
<1> HIDE DEF a
<1>5. /\ StreamOK(c) /\ SenderOK(c)
      /\ \A f \in StreamFields \ {"rto_timeout", "cwnd", "outgoing", "inflight"} : c[f] = a[f]
  BY <1>3, PollCheckTimeoutsFrame
<1> HIDE DEF c
<1>6. /\ c.read_waker = s.read_waker /\ c.error = s.error
      /\ c.read_cursor = s.read_cursor /\ c.ack = s.ack
  BY <1>3, <1>5 DEF StreamFields
<1>7. ASSUME NEW v, StreamOK(v), NEW err \in Errors,
             stream' = [stream EXCEPT ![e] = Failed(v, err)]
      PROVE  WaitsOn
  <2> DEFINE u == Terminate(v, err)
             t == [u EXCEPT !.scheduled = TRUE]
  <2>1. stream' = [stream EXCEPT ![e] = t]
    BY <1>7 DEF Failed
  <2>2. StreamOK(u)
    BY <1>7, TerminateFrame
  <2>3. t.read_waker = u.read_waker
    <3> HIDE DEF u
    <3> QED BY <2>2 DEF StreamOK, StreamFields
  <2> HIDE DEF t
  <2> QED BY <1>7, <2>1, <2>3, TerminatedWaits
<1>8. "BrokenPipe" \in Errors /\ "TimedOut" \in Errors
  BY DEF Errors
<1>9. CASE DriveBroken(e)
  BY <1>1, <1>7, <1>8, <1>9 DEF DriveBroken
<1>10. CASE DriveFails(e)
  BY <1>4, <1>5, <1>7, <1>8, <1>10 DEF DriveFails
<1>11. CASE Drive(e)
  <2> DEFINE f == FlushWaitingPackets(c)
             t == [f EXCEPT !.send_queue = {}, !.drive_waker = TRUE]
  <2>1. stream' = [stream EXCEPT ![e] = t]
    BY <1>4, <1>11 DEF Drive
  <2>2. StreamOK(f) /\ \A x \in StreamFields \ {"outgoing", "inflight", "send_queue"} : f[x] = c[x]
    BY <1>5, FlushWaitingPacketsFrame
  <2> HIDE DEF f
  <2>3. \A x \in StreamFields \ {"send_queue", "drive_waker"} : t[x] = f[x]
    BY <2>2 DEF StreamOK, StreamFields
  <2> HIDE DEF t
  <2>4. /\ t.read_waker = c.read_waker /\ t.error = c.error
        /\ t.read_cursor = c.read_cursor /\ t.ack = c.ack
    BY <2>2, <2>3 DEF StreamFields
  <2> QED BY <1>6, <2>1, <2>4, QuietWaits
<1> QED BY <1>2, <1>9, <1>10, <1>11

\* Only poll_read makes a reader wait.
LEMMA NextWaits ==
  ASSUME IInv, [Next]_vars
  PROVE  WaitsOn \/ \E e \in End : \E cap \in ReadCaps : Read(e, cap)
<1> USE ZenonT(30)
<1>1. ASSUME stream' = stream PROVE WaitsOn
  BY <1>1 DEF WaitsOn, StillWaits
<1>2. CASE UNCHANGED vars
  BY <1>1, <1>2 DEF vars
<1>3. ASSUME Next PROVE WaitsOn \/ \E e \in End : \E cap \in ReadCaps : Read(e, cap)
  <2>1. PICK e \in End : \/ AppNext(e) \/ PollWriteMore(e) \/ DriverNext(e)
                         \/ TimerElapses(e) \/ (\E p \in net[e] : Deliver(e, p))
                         \/ SocketGone(e) \/ SendSack(e)
    BY <1>3 DEF Next
  <2>2. ASSUME NEW n \in WriteLens, PollWrite(e, n) PROVE WaitsOn
    <3>1. n \in Nat \ {0} /\ WriteChunk(e, n, TRUE)
      BY <2>2, EndsAssumption DEF PollWrite
    <3> QED BY <3>1, WriteWaits
  <2>3. CASE PollWriteMore(e)
    <3>1. left[e] \in Nat \ {0}
      BY <2>3 DEF IInv, EnvironmentOK, PollWriteMore
    <3>2. WriteChunk(e, left[e], FALSE)
      BY <2>3 DEF PollWriteMore
    <3> QED BY <3>1, <3>2, WriteWaits
  <2>4. CASE AppNext(e)
    BY <2>2, <2>4, ClosingWaits DEF AppNext
  <2>5. CASE DriverNext(e)
    BY <2>5, WakeWaits, ClosingWaits, DriveWaits DEF DriverNext
  <2>6. CASE SendSack(e)
    BY <1>1, <2>6 DEF SendSack
  <2> QED BY <2>1, <2>3, <2>4, <2>5, <2>6, WakeWaits
<1> QED BY <1>2, <1>3

-----------------------------------------------------------------------------
(* The theorems *)

\* Every step of either end keeps the invariant.
LEMMA NextStep == IInv /\ [Next]_vars => StepOK
<1> USE ZenonT(30)
<1> SUFFICES ASSUME IInv, [Next]_vars PROVE StepOK
  OBVIOUS
<1>1. CASE Next
  <2>1. PICK e \in End :
           \/ AppNext(e)
           \/ PollWriteMore(e)
           \/ DriverNext(e)
           \/ TimerElapses(e)
           \/ \E m \in net[e] : Deliver(e, m)
           \/ SocketGone(e)
           \/ SendSack(e)
    BY <1>1 DEF Next
  <2>2. CASE AppNext(e)
    BY <2>2, WriteStep, ReadStep, CloseStep DEF AppNext
  <2>3. CASE PollWriteMore(e)
    BY <2>3, WriteStep
  <2>4. CASE DriverNext(e)
    BY <2>4, CloseStep, WakeStep, PollIncomingStep, DriveStep DEF DriverNext
  <2>5. CASE TimerElapses(e) \/ (\E m \in net[e] : Deliver(e, m)) \/ SocketGone(e)
    BY <2>5, WakeStep
  <2>6. CASE SendSack(e)
    BY <2>6, SackStep
  <2> QED BY <2>1, <2>2, <2>3, <2>4, <2>5, <2>6
<1>2. CASE UNCHANGED vars
  <2>1. IInv'
    BY <1>2 DEF vars, IInv, EnvironmentOK
  <2>2. \A x \in End : Onward(stream[x], stream[x])
    BY SameOnward DEF IInv
  <2> QED BY <1>2, <2>1, <2>2 DEF vars, StepOK
<1> QED BY SMT, <1>1, <1>2

\* In particular, every step keeps the invariant.
LEMMA NextIInv == IInv /\ [Next]_vars => IInv'
BY ZenonT(30), NextStep DEF StepOK

\* The invariant holds throughout.
THEOREM Invariance == Spec => []IInv
BY InitIInv, NextIInv, PTL DEF Spec

\* In every behaviour, however packets are delayed, repeated and reordered: the
\* counters of a stream never go down, a packet that was acknowledged is never
\* sent again, and every retransmission carries the packet first sent under
\* its number.
THEOREM NoneTakenBack == Spec => NothingTakenBack
<1>1. IInv /\ [Next]_vars => [\A e \in End : Onward(stream[e], stream'[e])]_vars
  BY ZenonT(30), NextStep DEF StepOK
<1> QED BY <1>1, Invariance, PTL DEF Spec, NothingTakenBack

\* The variables keep their types; in particular the unsigned counters
\* inflight, stats.inflight_packets and stats.inflight_bytes never go below
\* zero, whatever the order of acks, SACKs and timeouts.
THEOREM TypeCorrect == Spec => []TypeOK
<1>1. IInv => TypeOK
  BY ZenonT(30) DEF IInv, EnvironmentOK, TypeOK
<1> QED BY <1>1, Invariance, PTL

\* The counters of every stream are exactly the sizes of the packets they
\* count (the sums poll_write and poll_check_timeouts keep up to date).
THEOREM CountersCorrect == Spec => []InflightExact
<1>1. IInv => InflightExact
  BY ZenonT(30) DEF IInv, SideOK, SenderOK, InflightExact
<1> QED BY <1>1, Invariance, PTL

\* The receive window of every stream (incoming, read_cursor, ack) holds
\* exactly what the reader has not taken.
THEOREM WindowCorrect == Spec => []WindowShape
<1>1. IInv => WindowShape
  BY ZenonT(30) DEF IInv, SideOK, WindowShape
<1> QED BY <1>1, Invariance, PTL

\* What a sender takes as acknowledged its peer has received, and nothing
\* unsent is acknowledged.
THEOREM AcksCorrect == Spec => []AckedIsReceived
<1>1. IInv => AckedIsReceived
  BY ZenonT(30) DEF IInv, SideOK, AckedIsReceived
<1> QED BY <1>1, Invariance, PTL

\* Reliability: every packet numbered so far is in the retransmission buffer
\* or has been got by the peer.
THEOREM RetransmissionCorrect == Spec => []NothingForgotten
<1>1. IInv => NothingForgotten
  BY ZenonT(30) DEF IInv, SideOK, NothingForgotten
<1> QED BY <1>1, Invariance, PTL

=============================================================================
