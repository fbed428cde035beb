-------------------------- MODULE UdxDeliveryProofs --------------------------
(***************************************************************************)
(* How the bytes of one direction lie in the packets of the two streams,   *)
(* the invariant behind the theorems of UdxBytesProofs, and what the steps *)
(* of the application and of poll_incoming make of it.                     *)
(***************************************************************************)
EXTENDS UdxBytes, UdxConnProofs

-----------------------------------------------------------------------------
(* The invariant *)

IsData(m) == m.typ = {"DATA"}

Carries(off, m) == IsData(m) /\ IsPiece(off, m)

\* A packet without data, and without SACKs if nobody sends them.
Plain(m) == "DATA" \notin m.typ /\ ("SACK" \in m.typ => SackEnd # {})

\* The stream s, which has queued the packets sent, cuts what it wrote at off.
Layout(s, sent, off) ==
  /\ CutAt(s, off)
  /\ \A m \in sent : Carries(off, m) \/ Plain(m)
  /\ \A i \in DOMAIN s.outgoing : IsData(s.outgoing[i].packet)

SentBy(e) == stream[e].send_queue \cup net[Peer(e)]

\* The bytes from e to its peer are cut at off.
Direction(e, off) ==
  /\ Layout(stream[e], SentBy(e), off)
  /\ Reading(stream[Peer(e)], delivered[Peer(e)], off)

\* A stream without error is open, and a write in progress is on such a one.
KindOK(s, ph) ==
  /\ s.error = "none" => s.state = "Open"
  /\ ph = "writing" => s.error = "none"
  /\ SackEnd = {} => Cumulative(s)

BInv ==
  /\ IInv
  /\ \A e \in End : KindOK(stream[e], phase[e])
  /\ \A e \in End : intact[e]
  /\ \A e \in End : \E off : Direction(e, off)

-----------------------------------------------------------------------------
(* Kinds of steps *)

\* The stream s goes on as t without writing: what it queues are packets it
\* sent before and packets without data.
KeepTo(s, t, before, after) ==
  /\ t.seq = s.seq /\ t.tx_bytes = s.tx_bytes /\ s.remote_acked <= t.remote_acked
  /\ \A i \in DOMAIN t.outgoing : /\ i \in DOMAIN s.outgoing
                                  /\ t.outgoing[i].packet = s.outgoing[i].packet
  /\ SackEnd = {} => \A i \in DOMAIN s.outgoing : i \in DOMAIN t.outgoing \/ i < t.remote_acked
  /\ \A m \in after : \/ m \in before
                      \/ Plain(m)
                      \/ \E i \in DOMAIN s.outgoing : m = s.outgoing[i].packet
  /\ t.error = "none" => s.error = "none" /\ t.state = s.state

SameReader(s, t) ==
  t.incoming = s.incoming /\ t.read_cursor = s.read_cursor /\ t.ack = s.ack

\* A step of end e leaves its peer alone.
At(e) ==
  /\ stream'[Peer(e)] = stream[Peer(e)] /\ net'[e] = net[e]
  /\ phase'[Peer(e)] = phase[Peer(e)]
  /\ delivered'[Peer(e)] = delivered[Peer(e)] /\ intact'[Peer(e)] = intact[Peer(e)]

NoRead(e) == delivered'[e] = delivered[e] /\ intact'[e] = intact[e]

\* Everything but sending, taking and reading data.
Keeps(e) ==
  /\ At(e) /\ NoRead(e)
  /\ KeepTo(stream[e], stream'[e], SentBy(e), stream'[e].send_queue \cup net'[Peer(e)])
  /\ SameReader(stream[e], stream'[e])
  /\ phase'[e] = "writing" => phase[e] = "writing" /\ stream'[e].error = stream[e].error

\* send_data_packet makes a packet of the writer's next bytes.
Sends(e) ==
  /\ At(e) /\ NoRead(e) /\ net' = net
  /\ stream[e].error = "none"
  /\ \E n \in Nat \ {0} : stream'[e] = SendDataPacket(stream[e], n)

\* poll_incoming takes a data packet from the channel.
Takes(e) ==
  /\ At(e) /\ NoRead(e) /\ net' = net /\ phase' = phase
  /\ \E m \in recv_rx[e] : "DATA" \in m.typ /\ stream'[e] = HandleIncoming(stream[e], m)

-----------------------------------------------------------------------------
(* The writer's side *)

\* A stream that does not write cuts its bytes where it did.
LEMMA LayoutKept ==
  ASSUME NEW s, NEW t, NEW before, NEW after, NEW off,
         Layout(s, before, off), KeepTo(s, t, before, after)
  PROVE  Layout(t, after, off)
<1> USE ZenonT(30)
<1>1. t.seq = s.seq /\ t.tx_bytes = s.tx_bytes
  BY SMT DEF KeepTo
<1>2. ASSUME NEW i \in DOMAIN t.outgoing
      PROVE  i \in DOMAIN s.outgoing /\ t.outgoing[i].packet = s.outgoing[i].packet
  BY DEF KeepTo
<1>3. CutAt(t, off)
  BY <1>1, <1>2 DEF Layout, CutAt
<1>4. ASSUME NEW m \in after PROVE Carries(off, m) \/ Plain(m)
  <2>1. ASSUME NEW i \in DOMAIN s.outgoing, m = s.outgoing[i].packet PROVE Carries(off, m)
    BY <2>1 DEF Layout, CutAt, Carries
  <2> QED BY <2>1 DEF KeepTo, Layout
<1> QED BY SMT, <1>2, <1>3, <1>4 DEF Layout

\* The data packets among sent are numbered below n.
Numbered(sent, n) == \A m \in sent : m.seq \in Nat /\ ("DATA" \in m.typ => m.seq < n)

\* A cut of t and of what was sent that agrees with off on the packets before n.
Widened(t, sent, off, n) ==
  \E wide : Layout(t, sent, wide) /\ \A i \in 0 .. n : wide[i] = off[i]

\* A packet of the next bytes extends the cut by one piece.
LEMMA LayoutSends ==
  ASSUME NEW s, StreamOK(s), SenderOK(s), s.remote_acked <= s.seq, s.state = "Open",
         NEW n \in Nat \ {0}, NEW before, Numbered(before, s.seq),
         NEW off, Layout(s, before, off), NEW t, t = SendDataPacket(s, n)
  PROVE  Widened(t, before \cup {t.outgoing[s.seq].packet}, off, s.seq)
<1> USE ZenonT(30)
<1> DEFINE m == t.outgoing[s.seq].packet
           q == s.seq
           len == ChunkLen(n)
           wide == [i \in 0 .. (q + 1) |-> IF i = q + 1 THEN t.tx_bytes ELSE off[i]]
<1>1. /\ t.seq = q + 1
      /\ DOMAIN t.outgoing = DOMAIN s.outgoing \cup {q}
      /\ \A i \in DOMAIN s.outgoing : t.outgoing[i] = s.outgoing[i]
      /\ m.seq = q
  BY SMTT(30), SendDataPacketFrame
<1>2. t.tx_bytes = s.tx_bytes + len /\ IsData(m) /\ m.off = s.tx_bytes /\ m.len = len
  BY SendDataPacketBytes DEF IsData
<1>3. len \in Nat \ {0} /\ len <= MAX_DATA_SIZE
  BY SMT, ChunkLenType
<1>4. q \in Nat /\ s.tx_bytes \in Nat
  BY DEF StreamOK
<1> HIDE DEF m, len
<1>5. /\ off \in [0 .. q -> Nat] /\ off[0] = 0 /\ off[q] = s.tx_bytes
      /\ \A i, j \in 0 .. q : i < j => off[i] < off[j]
      /\ \A i \in 0 .. (q - 1) : off[i + 1] - off[i] <= MAX_DATA_SIZE
  BY DEF Layout, CutAt, Cuts
<1>6. /\ \A i \in 0 .. q : wide[i] = off[i] /\ wide[i] \in Nat
      /\ wide[q + 1] = s.tx_bytes + len
      /\ wide \in [0 .. (q + 1) -> Nat]
  <2>1. \A i \in 0 .. q : i \in 0 .. (q + 1) /\ i # q + 1
    BY SMT, <1>4
  <2>2. q + 1 \in 0 .. (q + 1)
    BY SMT, <1>4
  <2>3. t.tx_bytes \in Nat
    BY SMT, <1>2, <1>3, <1>4
  <2>4. \A i \in 0 .. (q + 1) : i # q + 1 => i \in 0 .. q
    BY SMT, <1>4
  <2>5. \A i \in 0 .. q : off[i] \in Nat
    BY <1>5
  <2> HIDE DEF q
  <2>6. \A i \in 0 .. q : wide[i] = off[i] /\ wide[i] \in Nat
    BY <2>1, <2>5
  <2>7. wide[q + 1] = t.tx_bytes
    BY SMT, <2>2
  <2>8. wide \in [0 .. (q + 1) -> Nat]
    BY SMT, <2>3, <2>4, <2>5
  <2> QED BY <2>6, <2>7, <2>8, <1>2
<1>7. \A i \in DOMAIN s.outgoing : i \in 0 .. q /\ i + 1 \in 0 .. q
  <2>1. \A i \in DOMAIN s.outgoing : i \in Nat /\ i < q
    BY DEF SenderOK, StreamOK, IsMapTo
  <2> QED BY SMTT(30), <2>1, <1>4
<1> HIDE DEF wide
<1>8. Cuts(wide, q + 1)
  <2>1. \A i \in 0 .. q : off[i] <= off[q]
    <3> SUFFICES ASSUME NEW i \in 0 .. q PROVE off[i] <= off[q]
      OBVIOUS
    <3>1. CASE i = q
      BY LeqRefl, <3>1, <1>5, <1>4
    <3>2. CASE i # q
      <4>1. i < q /\ q \in 0 .. q
        BY SMT, <3>2, <1>4
      <4>2. off[i] < off[q]
        BY <4>1, <1>5
      <4>3. off[i] \in Nat /\ off[q] \in Nat
        BY <4>1, <1>5
      <4> QED BY SMT, <4>2, <4>3
    <3> QED BY SMT, <3>1, <3>2
  <2>2. ASSUME NEW i \in 0 .. (q + 1), NEW j \in 0 .. (q + 1), i < j PROVE wide[i] < wide[j]
    <3>1. CASE j = q + 1
      <4>1. i \in 0 .. q
        BY SMT, <2>2, <3>1, <1>4
      <4>2. wide[i] = off[i] /\ wide[i] \in Nat /\ off[i] <= off[q]
        BY <4>1, <1>6, <2>1
      <4> QED BY SMTT(30), <4>2, <3>1, <1>3, <1>4, <1>5, <1>6
    <3>2. CASE j # q + 1
      <4>1. i \in 0 .. q /\ j \in 0 .. q
        BY SMT, <2>2, <3>2, <1>4
      <4> QED BY <4>1, <2>2, <1>5, <1>6
    <3> QED BY SMT, <3>1, <3>2
  <2>3. ASSUME NEW i \in 0 .. ((q + 1) - 1) PROVE wide[i + 1] - wide[i] <= MAX_DATA_SIZE
    <3>1. CASE i = q
      <4>1. wide[i] = s.tx_bytes
        BY SMT, <3>1, <1>4, <1>5, <1>6
      <4> QED BY SMTT(30), <4>1, <3>1, <1>3, <1>4, <1>6, ConstantsAssumption
    <3>2. CASE i # q
      <4>1. i \in 0 .. (q - 1) /\ i \in 0 .. q /\ i + 1 \in 0 .. q
        BY SMT, <3>2, <1>4
      <4> QED BY <4>1, <1>5, <1>6
    <3> QED BY SMT, <3>1, <3>2
  <2>4. wide[0] = 0
    BY SMT, <1>4, <1>5, <1>6
  <2> QED BY <1>6, <2>2, <2>3, <2>4 DEF Cuts
<1>9. IsPiece(wide, m)
  <2>1. wide[q] = s.tx_bytes
    BY SMT, <1>4, <1>5, <1>6
  <2> QED BY <2>1, <1>1, <1>2, <1>6 DEF IsPiece
<1>10. ASSUME NEW x, IsPiece(off, x), x.seq \in 0 .. q, x.seq + 1 \in 0 .. q
       PROVE  IsPiece(wide, x)
  BY <1>10, <1>6 DEF IsPiece
<1>11. ASSUME NEW x \in before \cup {m} PROVE Carries(wide, x) \/ Plain(x)
  <2>1. CASE x = m
    BY SMT, <2>1, <1>2, <1>9 DEF Carries
  <2>2. CASE x \in before /\ Plain(x)
    BY SMT, <2>2
  <2>3. CASE x \in before /\ Carries(off, x)
    <3>1. IsData(x) /\ IsPiece(off, x) /\ x.seq \in Nat
      BY <2>3 DEF Carries, Numbered
    <3>2. x.seq < q
      BY <2>3, <3>1 DEF IsData, Numbered
    <3>3. x.seq \in 0 .. q /\ x.seq + 1 \in 0 .. q
      BY SMT, <3>1, <3>2, <1>4
    <3> QED BY <3>1, <3>3, <1>10 DEF Carries
  <2>4. x = m \/ (x \in before /\ (Carries(off, x) \/ Plain(x)))
    BY DEF Layout
  <2> QED BY <2>1, <2>2, <2>3, <2>4
<1>12. ASSUME NEW i \in DOMAIN t.outgoing
       PROVE  /\ t.outgoing[i].packet.seq = i /\ IsPiece(wide, t.outgoing[i].packet)
              /\ IsData(t.outgoing[i].packet)
  <2>1. CASE i = q
    BY <2>1, <1>1, <1>2, <1>9 DEF m
  <2>2. CASE i # q
    <3>1. i \in DOMAIN s.outgoing /\ t.outgoing[i] = s.outgoing[i]
      BY <2>2, <1>1
    <3>2. /\ s.outgoing[i].packet.seq = i /\ IsPiece(off, s.outgoing[i].packet)
          /\ IsData(s.outgoing[i].packet)
      BY <3>1 DEF Layout, CutAt
    <3>3. i \in 0 .. q /\ i + 1 \in 0 .. q
      BY <3>1, <1>7
    <3>4. IsPiece(wide, s.outgoing[i].packet)
      BY <3>2, <3>3, <1>10
    <3> QED BY <3>1, <3>2, <3>4
  <2> QED BY <2>1, <2>2
<1>13. wide[q + 1] = t.tx_bytes
  BY <1>2, <1>6
<1>14. CutAt(t, wide)
  BY <1>1, <1>8, <1>12, <1>13 DEF CutAt
<1>15. Layout(t, before \cup {m}, wide)
  BY <1>11, <1>12, <1>14 DEF Layout
<1>16. \A i \in 0 .. q : wide[i] = off[i]
  BY <1>6
<1> QED BY <1>15, <1>16 DEF m, Widened

-----------------------------------------------------------------------------
(* Both sides *)

\* What the invariant of UdxConn says of a direction.
LEMMA SideFacts ==
  ASSUME IInv, NEW e \in End
  PROVE  LET s == stream[e]
             r == stream[Peer(e)]
         IN  /\ StreamOK(s) /\ StreamOK(r) /\ SenderOK(s) /\ WindowIntact(s) /\ WindowIntact(r)
             /\ s.remote_acked <= r.ack /\ r.ack <= s.seq /\ s.remote_acked <= s.seq
             /\ r.read_cursor <= s.seq /\ DOMAIN r.incoming \subseteq 0 .. (s.seq - 1)
             /\ Numbered(SentBy(e), s.seq) /\ SentBy(e) \subseteq Packet
<1> USE ZenonT(30)
<1> DEFINE s == stream[e]
           p == Peer(e)
           r == stream[p]
<1>1. p \in End /\ Peer(p) = e
  BY SMT, PeerFacts
<1>2. /\ StreamOK(s) /\ StreamOK(r) /\ SideOK(s, r, net[p], remote_ack[e])
      /\ SideOK(r, stream[Peer(p)], net[Peer(p)], remote_ack[p]) /\ net[p] \subseteq Packet
  BY <1>1 DEF IInv, EnvironmentOK
<1>3. /\ SenderOK(s) /\ WindowIntact(s) /\ WindowIntact(r)
      /\ s.remote_acked <= r.ack /\ r.ack <= s.seq
      /\ DOMAIN r.incoming \subseteq 0 .. (s.seq - 1)
      /\ \A m \in net[p] \cup s.send_queue : Truthful(s, m)
  BY <1>2 DEF SideOK
<1>4. SentBy(e) \subseteq Packet
  BY <1>2 DEF SentBy, StreamOK
<1>5. Numbered(SentBy(e), s.seq)
  <2> SUFFICES ASSUME NEW m \in SentBy(e) PROVE m.seq \in Nat /\ ("DATA" \in m.typ => m.seq < s.seq)
    BY DEF Numbered
  <2>1. m.seq \in Nat
    BY SMT, <1>4 DEF Packet
  <2>2. Truthful(s, m)
    BY <1>3 DEF SentBy
  <2> QED BY <2>1, <2>2 DEF Truthful
<1>6. s.remote_acked <= s.seq /\ r.read_cursor <= s.seq
  <2>1. /\ s.remote_acked \in Nat /\ s.seq \in Nat /\ r.ack \in Nat /\ r.read_cursor \in Nat
        /\ r.read_cursor <= r.ack
    BY <1>2, <1>3 DEF StreamOK, WindowIntact
  <2> QED BY LeqTrans, <1>3, <2>1
<1> QED BY <1>2, <1>3, <1>4, <1>5, <1>6

\* The same after a step.
LEMMA SideFactsNext ==
  ASSUME IInv', NEW e \in End
  PROVE  LET s == stream'[e]
             r == stream'[Peer(e)]
         IN  /\ StreamOK(s) /\ StreamOK(r) /\ SenderOK(s) /\ WindowIntact(r)
             /\ s.remote_acked <= r.ack /\ r.ack <= s.seq
<1>1. Peer(e) \in End /\ Peer(Peer(e)) = e
  BY PeerFacts
<1>2. /\ StreamOK(stream'[e]) /\ StreamOK(stream'[Peer(e)])
      /\ SideOK(stream'[e], stream'[Peer(e)], net'[Peer(e)], remote_ack'[e])
      /\ SideOK(stream'[Peer(e)], stream'[e], net'[e], remote_ack'[Peer(e)])
  BY ZenonT(30), <1>1 DEF IInv
<1> QED BY ZenonT(30), <1>2 DEF SideOK

\* What a step has to keep of the bytes: the cut, up to what was written.
Kept ==
  /\ \A d \in End : KindOK(stream'[d], phase'[d]) /\ intact'[d]
  /\ \A d \in End : \A off : Direction(d, off) =>
        \E wide : Direction(d, wide)' /\ \A i \in 0 .. stream[d].seq : wide[i] = off[i]

\* A step at end e keeps the bytes if it keeps those of each direction.
LEMMA KeptBoth ==
  ASSUME BInv, NEW e \in End, At(e), intact'[e], KindOK(stream'[e], phase'[e]),
         \A off : Direction(e, off) =>
            \E wide : /\ Layout(stream'[e], stream'[e].send_queue \cup net'[Peer(e)], wide)
                     /\ \A i \in 0 .. stream[e].seq : wide[i] = off[i],
         \A off : Direction(Peer(e), off) => Reading(stream'[e], delivered'[e], off)
  PROVE  Kept
<1> USE ZenonT(30)
<1> DEFINE p == Peer(e)
<1>1. p \in End /\ Peer(p) = e /\ \A d \in End : d = e \/ d = p
  BY PeerFacts
<1>2. KindOK(stream[p], phase[p]) /\ intact[p]
  BY <1>1 DEF BInv
<1>3. \A d \in End : KindOK(stream'[d], phase'[d]) /\ intact'[d]
  <2>1. KindOK(stream'[p], phase'[p]) /\ intact'[p]
    BY <1>2 DEF At
  <2> QED BY <1>1, <2>1
<1>4. ASSUME NEW off, Direction(e, off)
      PROVE  \E wide : Direction(e, wide)' /\ \A i \in 0 .. stream[e].seq : wide[i] = off[i]
  <2>0. \E wide : /\ Layout(stream'[e], stream'[e].send_queue \cup net'[Peer(e)], wide)
                  /\ \A i \in 0 .. stream[e].seq : wide[i] = off[i]
    <3> HIDE DEF p
    <3> QED BY <1>4
  <2>1. PICK wide : /\ Layout(stream'[e], stream'[e].send_queue \cup net'[p], wide)
                    /\ \A i \in 0 .. stream[e].seq : wide[i] = off[i]
    BY <2>0
  <2>2. IInv
    BY DEF BInv
  <2>3. /\ StreamOK(stream[p]) /\ stream[e].seq \in Nat
        /\ stream[p].read_cursor <= stream[e].seq
        /\ DOMAIN stream[p].incoming \subseteq 0 .. (stream[e].seq - 1)
    BY <2>2, SideFacts DEF StreamOK
  <2>4. Reading(stream[p], delivered[p], off)
    BY <1>4 DEF Direction
  <2>5. Reading(stream[p], delivered[p], wide)
    BY NextNat, <2>1, <2>3, <2>4, ReadingWider
  <2>6. Reading(stream'[p], delivered'[p], wide)
    BY <2>5 DEF At
  <2>7. Direction(e, wide)'
    BY <2>1, <2>6 DEF Direction, SentBy
  <2> QED BY <2>1, <2>7
<1>5. ASSUME NEW off, Direction(p, off)
      PROVE  \E wide : Direction(p, wide)' /\ \A i \in 0 .. stream[p].seq : wide[i] = off[i]
  <2>1. Reading(stream'[e], delivered'[e], off)
    BY <1>5
  <2>2. Layout(stream[p], stream[p].send_queue \cup net[e], off)
    BY <1>5, <1>1 DEF Direction, SentBy
  <2>3. Layout(stream'[p], stream'[p].send_queue \cup net'[e], off)
    BY <2>2 DEF At
  <2>4. Direction(p, off)'
    BY <1>1, <2>1, <2>3 DEF Direction, SentBy
  <2> QED BY <2>4
<1>6. \A d \in End : \A off : Direction(d, off) =>
         \E wide : Direction(d, wide)' /\ \A i \in 0 .. stream[d].seq : wide[i] = off[i]
  <2> HIDE DEF p
  <2> QED BY SMTT(30), <1>1, <1>4, <1>5
<1> QED BY <1>3, <1>6 DEF Kept

\* Steps that send, take and read no data.
LEMMA KeepsStep ==
  ASSUME BInv, IInv', NEW e \in End, Keeps(e)
  PROVE  Kept
<1> USE ZenonT(30)
<1> DEFINE s == stream[e]
           t == stream'[e]
           p == Peer(e)
<1>1. IInv /\ KindOK(s, phase[e]) /\ intact[e] /\ p \in End /\ Peer(p) = e
  BY PeerFacts DEF BInv
<1>2. StreamOK(t) /\ SenderOK(t)
  BY SideFactsNext
<1>3. /\ At(e) /\ NoRead(e) /\ SameReader(s, t)
      /\ KeepTo(s, t, SentBy(e), t.send_queue \cup net'[p])
      /\ phase'[e] = "writing" => phase[e] = "writing" /\ t.error = s.error
  BY DEF Keeps
<1>4. KindOK(t, phase'[e])
  <2>1. ASSUME SackEnd = {} PROVE Cumulative(t)
    <3>1. DOMAIN s.outgoing = s.remote_acked .. (s.seq - 1)
      BY <1>1, <2>1 DEF KindOK, Cumulative
    <3>2. /\ s.remote_acked \in Nat /\ t.remote_acked \in Nat /\ s.seq \in Nat /\ t.seq = s.seq
          /\ s.remote_acked <= t.remote_acked
      BY <1>1, <1>2, <1>3, SideFacts DEF KeepTo, StreamOK
    <3>3. ASSUME NEW i \in DOMAIN t.outgoing PROVE i \in t.remote_acked .. (t.seq - 1)
      <4>1. i \in Nat /\ t.remote_acked <= i /\ i < t.seq
        BY <1>2 DEF SenderOK, StreamOK, IsMapTo
      <4> QED BY InInterval, <3>2, <4>1
    <3>4. ASSUME NEW i \in t.remote_acked .. (t.seq - 1) PROVE i \in DOMAIN t.outgoing
      <4>1. i \in DOMAIN s.outgoing /\ ~ (i < t.remote_acked)
        BY SMTT(30), <3>1, <3>2
      <4> QED BY <1>3, <2>1, <4>1 DEF KeepTo
    <3> QED BY <3>3, <3>4 DEF Cumulative
  <2>2. t.error = "none" => t.state = "Open"
    BY <1>1, <1>3 DEF KindOK, KeepTo
  <2>3. phase'[e] = "writing" => t.error = "none"
    BY <1>1, <1>3 DEF KindOK
  <2> QED BY <2>1, <2>2, <2>3 DEF KindOK
<1>5. ASSUME NEW off, Direction(e, off)
      PROVE  \E wide : /\ Layout(t, t.send_queue \cup net'[p], wide)
                       /\ \A i \in 0 .. s.seq : wide[i] = off[i]
  <2>1. Layout(s, SentBy(e), off)
    BY <1>5 DEF Direction
  <2> HIDE DEF s, t, p
  <2>2. Layout(t, t.send_queue \cup net'[p], off)
    BY <1>3, <2>1, LayoutKept
  <2> QED BY <2>2
<1>6. ASSUME NEW off, Direction(p, off) PROVE Reading(t, delivered'[e], off)
  <2>1. Reading(s, delivered[e], off)
    BY <1>1, <1>6 DEF Direction
  <2> QED BY <2>1, <1>3 DEF Reading, InPacket, SameReader, NoRead
<1>7. intact'[e]
  BY <1>1, <1>3 DEF NoRead
<1> QED BY <1>3, <1>4, <1>5, <1>6, <1>7, KeptBoth

\* send_data_packet.
LEMMA SendsStep ==
  ASSUME BInv, IInv', NEW e \in End, Sends(e)
  PROVE  Kept /\ stream'[e].tx_bytes > stream[e].tx_bytes
         /\ stream'[e].remote_acked = stream[e].remote_acked
         /\ SameReader(stream[e], stream'[e]) /\ stream'[e].error = stream[e].error
<1> USE ZenonT(30)
<1> DEFINE s == stream[e]
           t == stream'[e]
           p == Peer(e)
<1>1. IInv /\ KindOK(s, phase[e]) /\ intact[e] /\ p \in End /\ Peer(p) = e
  BY SMT, PeerFacts DEF BInv
<1>2. PICK n \in Nat \ {0} : t = SendDataPacket(s, n)
  BY DEF Sends
<1>3. At(e) /\ NoRead(e) /\ net' = net /\ s.error = "none"
  BY DEF Sends
<1>4. s.state = "Open"
  BY <1>1, <1>3 DEF KindOK
<1>5. /\ StreamOK(s) /\ SenderOK(s) /\ s.remote_acked <= s.seq
      /\ Numbered(SentBy(e), s.seq)
  BY <1>1, SideFacts
<1> HIDE DEF s, t
<1>6. /\ t.seq = s.seq + 1
      /\ DOMAIN t.outgoing = DOMAIN s.outgoing \cup {s.seq}
      /\ t.send_queue = s.send_queue \cup {t.outgoing[s.seq].packet}
      /\ \A f \in {"incoming", "ack", "read_cursor", "remote_acked", "error"} : t[f] = s[f]
  BY <1>2, <1>5, SendDataPacketFrame
<1>7. t.tx_bytes = s.tx_bytes + ChunkLen(n) /\ t.state = s.state
  BY <1>2, <1>4, <1>5, SendDataPacketBytes
<1>8. t.tx_bytes > s.tx_bytes
  <2>1. ChunkLen(n) \in Nat \ {0} /\ s.tx_bytes \in Nat
    BY <1>5, ChunkLenType DEF StreamOK
  <2> QED BY SMTT(30), <1>7, <2>1
<1>9. SameReader(s, t) /\ t.remote_acked = s.remote_acked /\ t.error = s.error
  BY <1>6 DEF SameReader
<1>10. KindOK(t, phase'[e])
  <2>1. ASSUME SackEnd = {} PROVE Cumulative(t)
    <3>1. DOMAIN s.outgoing = s.remote_acked .. (s.seq - 1)
      BY <1>1, <2>1 DEF KindOK, Cumulative
    <3>2. s.remote_acked \in Nat /\ s.seq \in Nat
      BY <1>5 DEF StreamOK
    <3>3. DOMAIN t.outgoing = s.remote_acked .. ((s.seq + 1) - 1)
      BY SMTT(30), <3>1, <3>2, <1>5, <1>6
    <3> QED BY <3>3, <1>6, <1>9 DEF Cumulative
  <2> QED BY <2>1, <1>3, <1>4, <1>7, <1>9 DEF KindOK
<1>11. ASSUME NEW off, Direction(e, off)
       PROVE  \E wide : /\ Layout(t, t.send_queue \cup net'[p], wide)
                        /\ \A i \in 0 .. s.seq : wide[i] = off[i]
  <2>1. Layout(s, SentBy(e), off)
    BY <1>11 DEF Direction, s
  <2> DEFINE after == SentBy(e) \cup {t.outgoing[s.seq].packet}
  <2>2. PICK wide : Layout(t, after, wide) /\ \A i \in 0 .. s.seq : wide[i] = off[i]
    <3>1. /\ StreamOK(s) /\ SenderOK(s) /\ s.remote_acked <= s.seq /\ s.state = "Open"
          /\ Numbered(SentBy(e), s.seq) /\ t = SendDataPacket(s, n)
      BY <1>2, <1>4, <1>5
    <3>2. Widened(t, after, off, s.seq)
      BY <2>1, <3>1, LayoutSends
    <3> QED BY <3>2 DEF Widened
  <2>3. t.send_queue \cup net'[p] = after
    BY <1>3, <1>6 DEF SentBy, s
  <2> QED BY <2>2, <2>3
<1>12. ASSUME NEW off, Direction(p, off) PROVE Reading(t, delivered'[e], off)
  <2>1. Reading(s, delivered[e], off)
    BY <1>1, <1>12 DEF Direction, s
  <2> QED BY <2>1, <1>3, <1>9 DEF Reading, InPacket, SameReader, NoRead
<1>13. intact'[e]
  BY <1>1, <1>3 DEF NoRead
<1>14. Kept
  BY <1>3, <1>10, <1>11, <1>12, <1>13, KeptBoth DEF s, t
<1> QED BY <1>8, <1>9, <1>14 DEF s, t

\* poll_incoming, with a data packet.
LEMMA TakesStep ==
  ASSUME BInv, IInv', NEW e \in End, Takes(e)
  PROVE  /\ Kept /\ stream[e].ack <= stream'[e].ack
         /\ stream'[e].tx_bytes = stream[e].tx_bytes
         /\ stream'[e].remote_acked = stream[e].remote_acked
         /\ stream'[e].error = stream[e].error
<1> USE ZenonT(30)
<1> DEFINE s == stream[e]
           t == stream'[e]
           p == Peer(e)
<1>1. IInv /\ KindOK(s, phase[e]) /\ intact[e] /\ p \in End /\ Peer(p) = e
  BY SMT, PeerFacts DEF BInv
<1>2. PICK m \in recv_rx[e] : "DATA" \in m.typ /\ t = HandleIncoming(s, m)
  BY DEF Takes
<1>3. At(e) /\ NoRead(e) /\ net' = net /\ phase' = phase
  BY DEF Takes
<1>4. m \in SentBy(p) /\ m \in Packet
  <2>1. m \in net[e]
    BY <1>1 DEF IInv, EnvironmentOK
  <2>2. m \in SentBy(p)
    BY <1>1, <2>1 DEF SentBy
  <2> QED BY <1>1, <2>2, SideFacts
<1>5. ASSUME NEW off, Direction(p, off) PROVE IsData(m) /\ IsPiece(off, m)
  BY <1>2, <1>4, <1>5 DEF Direction, Layout, Plain, Carries
<1>6. "END" \notin m.typ /\ "SACK" \notin m.typ
  <2>1. PICK off : Direction(p, off)
    BY <1>1 DEF BInv
  <2>2. IsData(m)
    BY <1>5, <2>1
  <2> QED BY <2>2 DEF IsData
<1>7. StreamOK(s) /\ SenderOK(s) /\ WindowIntact(s)
  BY <1>1, SideFacts
<1> HIDE DEF s, t
<1>8. /\ t.incoming = IF m.seq >= s.ack
                      THEN Insert(s.incoming, m.seq, [packet |-> m, read_offset |-> 0])
                      ELSE s.incoming
      /\ \A f \in StreamFields \ {"incoming", "ack", "read_waker", "drive_waker",
                                  "scheduled", "send_queue", "cwnd"} : t[f] = s[f]
      /\ \A q \in t.send_queue : q \in s.send_queue \/ q.typ \subseteq {"END"}
  BY <1>2, <1>4, <1>6, <1>7, HandleData
<1>9. s.ack <= t.ack
  BY <1>2, <1>4, <1>7, HandleIncomingFrame
<1>10. /\ t.seq = s.seq /\ t.tx_bytes = s.tx_bytes /\ t.remote_acked = s.remote_acked
       /\ t.outgoing = s.outgoing /\ t.error = s.error /\ t.state = s.state
       /\ t.read_cursor = s.read_cursor
  BY <1>8 DEF StreamFields
<1>11. KindOK(t, phase'[e])
  BY <1>1, <1>3, <1>10 DEF KindOK, Cumulative, s
<1>12. KeepTo(s, t, SentBy(e), t.send_queue \cup net'[p])
  <2>1. s.remote_acked <= t.remote_acked
    BY LeqRefl, <1>7, <1>10 DEF StreamOK
  <2>2. \A q \in t.send_queue \cup net'[p] : q \in SentBy(e) \/ Plain(q)
    <3>1. ASSUME NEW q, q.typ \subseteq {"END"} PROVE Plain(q)
      BY SMT, <3>1 DEF Plain
    <3> QED BY <1>3, <1>8, <3>1 DEF SentBy, s
  <2> QED BY <2>1, <2>2, <1>10 DEF KeepTo
<1>13. ASSUME NEW off, Direction(e, off)
       PROVE  \E wide : /\ Layout(t, t.send_queue \cup net'[p], wide)
                        /\ \A i \in 0 .. s.seq : wide[i] = off[i]
  <2>1. Layout(s, SentBy(e), off)
    BY <1>13 DEF Direction, s
  <2> HIDE DEF p
  <2>2. Layout(t, t.send_queue \cup net'[p], off)
    BY <1>12, <2>1, LayoutKept
  <2> QED BY <2>2
<1>14. ASSUME NEW off, Direction(p, off) PROVE Reading(t, delivered'[e], off)
  <2>1. Reading(s, delivered[e], off)
    BY <1>1, <1>14 DEF Direction, s
  <2>2. IsPiece(off, m)
    BY <1>5, <1>14
  <2>3. Reading(t, delivered[e], off)
    BY <2>1, <2>2, <1>4, <1>7, <1>8, <1>10, ReadingTakes
  <2> QED BY <2>3, <1>3 DEF NoRead
<1>15. intact'[e]
  BY <1>1, <1>3 DEF NoRead
<1>16. Kept
  BY <1>3, <1>11, <1>13, <1>14, <1>15, KeptBoth DEF s, t
<1> QED BY <1>9, <1>10, <1>16 DEF s, t

\* poll_read: what the reader is given are the bytes it has to be given.
LEMMA ReadsStep ==
  ASSUME BInv, IInv', NEW e \in End, NEW cap \in ReadCaps, MAX_DATA_SIZE <= cap,
         Read(e, cap)
  PROVE  /\ Kept /\ stream'[e].ack = stream[e].ack
         /\ stream'[e].tx_bytes = stream[e].tx_bytes
         /\ stream'[e].remote_acked = stream[e].remote_acked
         /\ stream'[e].error = stream[e].error
         /\ delivered'[e] \in Nat /\ delivered'[e] >= delivered[e]
<1> USE ZenonT(30)
<1> DEFINE s == stream[e]
           t == stream'[e]
           p == Peer(e)
<1>1. /\ IInv /\ KindOK(s, phase[e]) /\ intact[e] /\ p \in End /\ Peer(p) = e /\ p # e
      /\ DOMAIN stream = End /\ delivered \in [End -> Nat] /\ intact \in [End -> BOOLEAN]
  BY PeerFacts DEF BInv, IInv, EnvironmentOK
<1>2. t = PollRead(s, cap) /\ stream'[p] = stream[p]
  BY <1>1 DEF Read
<1>3. UNCHANGED <<net, phase>>
  BY DEF Read
<1>4. StreamOK(s) /\ WindowIntact(s) /\ cap \in Nat
  BY <1>1, SideFacts, EndsAssumption
<1>5. /\ DidRead(s, cap) => /\ delivered' = [delivered EXCEPT ![e] = @ + BytesPut(e, cap)]
                            /\ intact' = [intact EXCEPT ![e] = @ /\ ReadsInOrder(e, cap)]
      /\ ~ DidRead(s, cap) => delivered' = delivered /\ intact' = intact
  BY DEF Read
<1>6. At(e)
  BY <1>1, <1>2, <1>3, <1>5 DEF At
<1>7. PICK cut : Direction(p, cut)
  BY <1>1 DEF BInv
<1>8. ASSUME NEW off, Direction(p, off)
      PROVE  /\ DidRead(s, cap) => Reading(t, delivered[e] + BytesPut(e, cap), off)
             /\ ~ DidRead(s, cap) => Reading(t, delivered[e], off)
             /\ ReadsInOrder(e, cap)
  <2>1. Reading(s, delivered[e], off)
    BY <1>1, <1>8 DEF Direction
  <2>2. Cuts(off, stream[p].seq)
    BY <1>8 DEF Direction, Layout, CutAt
  <2>3. stream[p].seq \in Nat /\ s.ack <= stream[p].seq
    BY <1>1, SideFacts DEF StreamOK
  <2> DEFINE U == Unread(s.incoming)
             next == s.read_cursor + Cardinality(FullyRead(s, cap))
             put == Smaller(cap, Total(Run(s), U))
             u == PollRead(s, cap)
             given == delivered[e]
             n == stream[p].seq
  <2>4. /\ DidRead(s, cap) => Reading(u, given + put, off)
        /\ ~ DidRead(s, cap) => Reading(u, given, off) /\ s.read_cursor = s.ack
        /\ \A k \in Run(s) \cap (s.read_cursor .. next) :
               s.incoming[k].packet.off + s.incoming[k].read_offset
                  = given + Total({j \in Run(s) : j < k}, U)
    <3>1. Reading(s, given, off) /\ Cuts(off, n) /\ n \in Nat /\ s.ack <= n
      BY <2>1, <2>2, <2>3
    <3>2. StreamOK(s) /\ WindowIntact(s) /\ cap \in Nat /\ MAX_DATA_SIZE <= cap
      BY SMT, <1>4
    <3> HIDE DEF s, given, n
    <3>3. ReadOn(s, cap, given, off)
      BY <3>1, <3>2, PollReadBytes
    <3> QED BY <3>3 DEF ReadOn
  <2>5. put = BytesPut(e, cap)
    BY DEF BytesPut
  <2>6. ReadsInOrder(e, cap)
    BY <2>4 DEF ReadsInOrder, ExpectedAt
  <2> HIDE DEF put, u
  <2> QED BY <2>4, <2>5, <2>6, <1>2 DEF u
<1>9. BytesPut(e, cap) \in Nat
  <2>1. IsFiniteSet(Run(s))
    <3>1. IsFiniteSet(DOMAIN s.incoming)
      BY <1>4 DEF StreamOK, IsMapTo
    <3> QED BY <3>1, FS_Subset DEF Run
  <2>2. Total(Run(s), Unread(s.incoming)) \in Nat
    BY <2>1, BytesFinite
  <2> QED BY <2>2, <1>4 DEF BytesPut, Smaller
<1>10. delivered[e] \in Nat /\ delivered'[e] \in Nat /\ delivered'[e] >= delivered[e]
  <2>1. CASE DidRead(s, cap)
    BY SMT, <2>1, <1>1, <1>5, <1>9
  <2>2. CASE ~ DidRead(s, cap)
    BY LeqRefl, <2>2, <1>1, <1>5
  <2> QED BY <2>1, <2>2
<1>11. intact'[e]
  <2>1. ReadsInOrder(e, cap)
    BY <1>7, <1>8
  <2> QED BY <2>1, <1>1, <1>5
<1>12. ASSUME NEW off, Direction(p, off) PROVE Reading(t, delivered'[e], off)
  <2>1. CASE DidRead(s, cap)
    <3>1. delivered'[e] = delivered[e] + BytesPut(e, cap)
      BY <2>1, <1>1, <1>5
    <3> QED BY <2>1, <3>1, <1>8, <1>12
  <2>2. CASE ~ DidRead(s, cap)
    BY <2>2, <1>5, <1>8, <1>12
  <2> QED BY <2>1, <2>2
<1> HIDE DEF s, t
<1>13. \A f \in StreamFields \ {"incoming", "read_cursor", "read_waker"} : t[f] = s[f]
  BY <1>2, <1>4, PollReadFrame
<1>14. /\ t.seq = s.seq /\ t.tx_bytes = s.tx_bytes /\ t.remote_acked = s.remote_acked
       /\ t.outgoing = s.outgoing /\ t.error = s.error /\ t.state = s.state
       /\ t.ack = s.ack /\ t.send_queue = s.send_queue
  BY <1>13 DEF StreamFields
<1>15. KindOK(t, phase'[e])
  BY <1>1, <1>3, <1>14 DEF KindOK, Cumulative, s
<1>16. ASSUME NEW off, Direction(e, off)
       PROVE  \E wide : /\ Layout(t, t.send_queue \cup net'[p], wide)
                        /\ \A i \in 0 .. s.seq : wide[i] = off[i]
  <2>1. Layout(s, s.send_queue \cup net[p], off)
    BY <1>16 DEF Direction, SentBy, s
  <2>2. Layout(t, t.send_queue \cup net'[p], off)
    <3>1. net' = net
      BY <1>3
    <3> HIDE DEF s, t, p
    <3> QED BY <2>1, <1>14, <3>1 DEF Layout, CutAt
  <2> QED BY <2>2
<1>17. Kept
  BY <1>6, <1>11, <1>12, <1>15, <1>16, KeptBoth DEF s, t
<1> QED BY <1>10, <1>14, <1>17 DEF s, t

-----------------------------------------------------------------------------
(* Steps of the application, and of poll_incoming *)

\* A step that leaves the application's cursors and the peer alone.
LEMMA KeepsAt ==
  ASSUME IInv, NEW e \in End, NEW t, stream' = [stream EXCEPT ![e] = t],
         KeepTo(stream[e], t, SentBy(e), t.send_queue \cup net'[Peer(e)]),
         SameReader(stream[e], t), net'[e] = net[e],
         delivered' = delivered, intact' = intact, phase'[Peer(e)] = phase[Peer(e)],
         phase'[e] = "writing" => phase[e] = "writing" /\ t.error = stream[e].error
  PROVE  Keeps(e)
<1> USE ZenonT(30)
<1>1. Peer(e) \in End /\ Peer(e) # e
  BY PeerFacts
<1>2. stream'[e] = t /\ stream'[Peer(e)] = stream[Peer(e)]
  BY <1>1 DEF IInv
<1>3. At(e) /\ NoRead(e)
  BY <1>2 DEF At, NoRead
<1>4. KeepTo(stream[e], stream'[e], SentBy(e), stream'[e].send_queue \cup net'[Peer(e)])
  BY <1>2
<1>5. SameReader(stream[e], stream'[e])
  BY <1>2
<1>6. phase'[e] = "writing" => phase[e] = "writing" /\ stream'[e].error = stream[e].error
  BY <1>2
<1> QED BY <1>3, <1>4, <1>5, <1>6 DEF Keeps

\* A step that leaves the numbers and buffers alone, too.
LEMMA QuietKeeps ==
  ASSUME IInv, NEW e \in End, NEW t, stream' = [stream EXCEPT ![e] = t],
         \A f \in StreamFields \ {"drive_waker", "scheduled", "send_queue", "error", "state",
                                   "read_waker", "write_waker", "on_close", "rto_timeout",
                                   "rx_closed"} : t[f] = stream[e][f],
         \A q \in t.send_queue : q \in stream[e].send_queue \/ q.typ \subseteq {"END"},
         t.error = "none" => stream[e].error = "none" /\ t.state = stream[e].state,
         net' = net, delivered' = delivered, intact' = intact,
         phase'[Peer(e)] = phase[Peer(e)],
         phase'[e] = "writing" => phase[e] = "writing" /\ t.error = stream[e].error
  PROVE  Keeps(e)
<1> USE ZenonT(30)
<1> DEFINE s == stream[e]
<1>1. /\ t.seq = s.seq /\ t.tx_bytes = s.tx_bytes /\ t.remote_acked = s.remote_acked
      /\ t.outgoing = s.outgoing /\ t.incoming = s.incoming
      /\ t.read_cursor = s.read_cursor /\ t.ack = s.ack
  BY DEF StreamFields
<1>2. s.remote_acked <= t.remote_acked
  <2>1. s.remote_acked \in Nat
    BY DEF IInv, StreamOK
  <2> QED BY LeqRefl, <1>1, <2>1
<1>3. \A q \in t.send_queue \cup net'[Peer(e)] : q \in SentBy(e) \/ Plain(q)
  <2>1. ASSUME NEW q, q.typ \subseteq {"END"} PROVE Plain(q)
    BY <2>1 DEF Plain
  <2> QED BY <2>1 DEF SentBy
<1>4. KeepTo(s, t, SentBy(e), t.send_queue \cup net'[Peer(e)])
  BY <1>1, <1>2, <1>3 DEF KeepTo
<1>5. SameReader(s, t)
  BY <1>1 DEF SameReader
<1> QED BY <1>4, <1>5, KeepsAt

\* A step that changes neither streams nor network.
LEMMA SameKeeps ==
  ASSUME IInv, NEW e \in End, stream' = stream, net' = net, phase' = phase,
         delivered' = delivered, intact' = intact
  PROVE  Keeps(e)
<1> USE ZenonT(30)
<1> DEFINE s == stream[e]
<1>1. s.remote_acked <= s.remote_acked
  BY LeqRefl DEF IInv, StreamOK
<1>2. KeepTo(s, s, SentBy(e), s.send_queue \cup net'[Peer(e)])
  BY <1>1 DEF KeepTo, SentBy
<1> QED BY <1>2 DEF Keeps, At, NoRead, SameReader

\* Terminating a stream: close(), the last drop, and errors of the driver.
LEMMA TerminateKeeps ==
  ASSUME IInv, NEW e \in End, NEW s, StreamOK(s), NEW err \in Errors, NEW t,
         s = stream[e],
         \A f \in StreamFields \ {"on_close", "scheduled"} : t[f] = Terminate(s, err)[f],
         stream' = [stream EXCEPT ![e] = t], net' = net,
         delivered' = delivered, intact' = intact,
         phase'[Peer(e)] = phase[Peer(e)], phase'[e] # "writing"
  PROVE  Keeps(e)
<1> USE ZenonT(30)
<1> DEFINE u == Terminate(s, err)
<1>1. u.error = err
  BY TerminateFrame
<1>2. \A f \in StreamFields \ {"drive_waker", "scheduled", "send_queue", "error",
                                "state", "read_waker", "write_waker"} : u[f] = s[f]
  BY SMTT(30), TerminateFrame
<1>3. \A q \in u.send_queue : q \in s.send_queue \/ q.typ \subseteq {"END"}
  BY TerminateFrame
<1> HIDE DEF u
<1>4. \A f \in StreamFields \ {"on_close", "scheduled"} : t[f] = u[f]
  BY DEF u
<1>5. t.send_queue = u.send_queue /\ t.error # "none"
  <2>1. err # "none"
    BY DEF Errors
  <2> QED BY <1>1, <1>4, <2>1 DEF StreamFields
<1>6. \A f \in StreamFields \ {"drive_waker", "scheduled", "send_queue", "error", "state",
                                "read_waker", "write_waker", "on_close", "rto_timeout",
                                "rx_closed"} : t[f] = stream[e][f]
  BY <1>2, <1>4
<1>7. \A q \in t.send_queue : q \in stream[e].send_queue \/ q.typ \subseteq {"END"}
  BY <1>3, <1>5
<1> QED BY <1>5, <1>6, <1>7, QuietKeeps

\* poll_write: an iteration sends a packet or finds the window full.
LEMMA WriteKind ==
  ASSUME BInv, NEW e \in End, NEW n \in Nat \ {0}, NEW first \in BOOLEAN,
         WriteChunk(e, n, first), stream[e].error = "none",
         UNCHANGED <<net, recv_rx, remote_ack>>, AppUnchanged
  PROVE  Keeps(e) \/ Sends(e)
<1> USE ZenonT(30)
<1> DEFINE s == stream[e]
<1>1. /\ IInv /\ Peer(e) \in End /\ Peer(e) # e /\ DOMAIN stream = End
      /\ phase \in [End -> {"idle", "incoming", "writing"}]
  BY PeerFacts DEF BInv, IInv, EnvironmentOK
<1>2. net' = net /\ delivered' = delivered /\ intact' = intact
  BY DEF AppUnchanged
<1>3. CASE WindowFull(s, n)
  <2> DEFINE t == [s EXCEPT !.write_waker = @ \/ first]
  <2>1. stream' = [stream EXCEPT ![e] = t] /\ phase' = [phase EXCEPT ![e] = "idle"]
    BY <1>3 DEF WriteChunk
  <2>2. \A f \in StreamFields \ {"write_waker"} : t[f] = s[f]
    BY <1>1 DEF IInv, StreamOK, StreamFields
  <2> HIDE DEF t
  <2>3. t.send_queue = s.send_queue /\ t.error = s.error /\ t.state = s.state
    BY <2>2 DEF StreamFields
  <2>4. \A f \in StreamFields \ {"drive_waker", "scheduled", "send_queue", "error", "state",
                                "read_waker", "write_waker", "on_close", "rto_timeout",
                                "rx_closed"} : t[f] = stream[e][f]
    BY <2>2
  <2>5. phase'[Peer(e)] = phase[Peer(e)] /\ phase'[e] = "idle"
    BY <1>1, <2>1
  <2>6. \A q \in t.send_queue : q \in stream[e].send_queue \/ q.typ \subseteq {"END"}
    BY <2>3
  <2>7. t.error = "none" => stream[e].error = "none" /\ t.state = stream[e].state
    BY <2>3
  <2>8. phase'[e] = "writing" => phase[e] = "writing" /\ t.error = stream[e].error
    BY <2>5
  <2> QED BY <1>1, <1>2, <2>1, <2>4, <2>5, <2>6, <2>7, <2>8, QuietKeeps
<1>4. CASE ~ WindowFull(s, n)
  <2>1. /\ stream' = [stream EXCEPT ![e] = SendDataPacket(s, n)]
        /\ \E ph : phase' = [phase EXCEPT ![e] = ph]
    BY <1>4 DEF WriteChunk
  <2>2. /\ stream'[e] = SendDataPacket(s, n) /\ stream'[Peer(e)] = stream[Peer(e)]
        /\ phase'[Peer(e)] = phase[Peer(e)]
    BY <1>1, <2>1
  <2> QED BY <1>2, <2>2 DEF Sends, At, NoRead
<1> QED BY <1>3, <1>4

\* close(), clones and drops.
LEMMA CloseKind ==
  ASSUME IInv, NEW e \in End,
         \/ \E c \in Closers : Close(e, c)
         \/ Clone(e) \/ DropBegins(e) \/ DropEnds(e)
         \/ DriverDropBegins(e) \/ DriverDropEnds(e)
  PROVE  Keeps(e)
<1> USE ZenonT(30)
<1> DEFINE s == stream[e]
<1>0. StreamOK(s)
  BY DEF IInv
<1>1. PICK err \in Errors : err = "ConnectionReset"
  BY DEF Errors
<1> DEFINE u == Terminate(s, err)
<1>2. StreamOK(u)
  <2> HIDE DEF s
  <2> QED BY <1>0, TerminateFrame
<1>3. ASSUME NEW c \in Closers, Close(e, c) PROVE Keeps(e)
  <2> DEFINE t == [u EXCEPT !.on_close = {c}]
  <2>1. stream' = [stream EXCEPT ![e] = t]
    BY <1>1, <1>3 DEF Close
  <2>2. /\ net' = net /\ phase' = phase /\ phase[e] = "idle"
        /\ delivered' = delivered /\ intact' = intact
    BY <1>3 DEF Close
  <2> HIDE DEF u
  <2>3. \A f \in StreamFields \ {"on_close", "scheduled"} : t[f] = u[f]
    BY <1>2 DEF StreamOK, StreamFields
  <2> HIDE DEF t
  <2>4. phase'[Peer(e)] = phase[Peer(e)] /\ phase'[e] # "writing"
    BY <2>2
  <2>5. \A f \in StreamFields \ {"on_close", "scheduled"} : t[f] = Terminate(s, err)[f]
    BY <2>3 DEF u
  <2> QED BY <1>0, <2>1, <2>2, <2>4, <2>5, TerminateKeeps
<1>4. ASSUME DropTerminates(e), net' = net, phase' = phase,
             delivered' = delivered, intact' = intact
      PROVE  Keeps(e)
  <2>1. CASE stream' = [stream EXCEPT ![e] = u] /\ phase[e] = "idle"
    <3>1. phase'[Peer(e)] = phase[Peer(e)] /\ phase'[e] # "writing"
      BY <1>4, <2>1
    <3>2. \A f \in StreamFields \ {"on_close", "scheduled"} : u[f] = Terminate(s, err)[f]
      OBVIOUS
    <3>3. stream' = [stream EXCEPT ![e] = u]
      BY <2>1
    <3> HIDE DEF s
    <3> QED BY <1>0, <1>4, <3>1, <3>2, <3>3, TerminateKeeps DEF s
  <2>2. CASE stream' = stream
    BY <1>4, <2>2, SameKeeps
  <2> QED BY <1>1, <1>4, <2>1, <2>2 DEF DropTerminates
<1>5. ASSUME Clone(e) \/ DropEnds(e) \/ DriverDropEnds(e) PROVE Keeps(e)
  <2>1. /\ stream' = stream /\ net' = net /\ phase' = phase
        /\ delivered' = delivered /\ intact' = intact
    BY <1>5 DEF Clone, DropEnds, DriverDropEnds
  <2> QED BY <2>1, SameKeeps
<1>6. ASSUME DropBegins(e) \/ DriverDropBegins(e) PROVE Keeps(e)
  <2>1. /\ DropTerminates(e) /\ net' = net /\ phase' = phase
        /\ delivered' = delivered /\ intact' = intact
    BY <1>6 DEF DropBegins, DriverDropBegins
  <2> QED BY <1>4, <2>1
<1> QED BY <1>3, <1>5, <1>6

\* The start of a poll, the timer, an arriving packet, the end of the socket.
LEMMA WakeKind ==
  ASSUME IInv, NEW e \in End,
         \/ DriverReturns(e) \/ DriverPolls(e) \/ TimerElapses(e)
         \/ \E m \in net[e] : Deliver(e, m)
         \/ SocketGone(e)
  PROVE  Keeps(e)
<1> USE ZenonT(30)
<1> DEFINE s == stream[e]
<1>0. DOMAIN s = StreamFields
  BY DEF IInv, StreamOK
<1>1. ASSUME NEW t, stream' = [stream EXCEPT ![e] = t], net' = net,
             delivered' = delivered, intact' = intact,
             phase'[Peer(e)] = phase[Peer(e)],
             phase'[e] \in {phase[e], "incoming"},
             \A f \in StreamFields \ {"rto_timeout", "scheduled", "drive_waker", "on_close",
                                       "rx_closed"} : t[f] = s[f]
      PROVE  Keeps(e)
  <2>1. t.send_queue = s.send_queue /\ t.error = s.error /\ t.state = s.state
    BY <1>1 DEF StreamFields
  <2>2. \A f \in StreamFields \ {"drive_waker", "scheduled", "send_queue", "error", "state",
                                "read_waker", "write_waker", "on_close", "rto_timeout",
                                "rx_closed"} : t[f] = stream[e][f]
    BY <1>1
  <2>3. \A q \in t.send_queue : q \in stream[e].send_queue \/ q.typ \subseteq {"END"}
    BY <2>1
  <2>4. t.error = "none" => stream[e].error = "none" /\ t.state = stream[e].state
    BY <2>1
  <2>5. phase'[e] = "writing" => phase[e] = "writing" /\ t.error = stream[e].error
    BY <1>1, <2>1
  <2> QED BY <1>1, <2>2, <2>3, <2>4, <2>5, QuietKeeps
<1>2. Peer(e) # e /\ phase \in [End -> {"idle", "incoming", "writing"}] /\ Peer(e) \in End
  BY PeerFacts DEF IInv, EnvironmentOK
<1>3. ASSUME DriverReturns(e) PROVE Keeps(e)
  <2> DEFINE t == [[s EXCEPT !.scheduled = FALSE, !.drive_waker = FALSE] EXCEPT !.on_close = {}]
  <2>1. /\ stream' = [stream EXCEPT ![e] = t] /\ net' = net /\ phase' = phase
        /\ delivered' = delivered /\ intact' = intact
    BY <1>3 DEF DriverReturns, PollStarts
  <2>2. \A f \in StreamFields \ {"rto_timeout", "scheduled", "drive_waker", "on_close",
                                  "rx_closed"} : t[f] = s[f]
    BY <1>0 DEF StreamFields
  <2> HIDE DEF t
  <2> QED BY <1>1, <2>1, <2>2
<1>4. ASSUME DriverPolls(e) PROVE Keeps(e)
  <2> DEFINE t == [s EXCEPT !.scheduled = FALSE, !.drive_waker = FALSE]
  <2>1. /\ stream' = [stream EXCEPT ![e] = t] /\ net' = net
        /\ phase' = [phase EXCEPT ![e] = "incoming"]
        /\ delivered' = delivered /\ intact' = intact
    BY SMT, <1>4 DEF DriverPolls, PollStarts, AppUnchanged
  <2>2. \A f \in StreamFields \ {"rto_timeout", "scheduled", "drive_waker", "on_close",
                                  "rx_closed"} : t[f] = s[f]
    BY <1>0 DEF StreamFields
  <2>3. phase'[Peer(e)] = phase[Peer(e)] /\ phase'[e] = "incoming"
    BY <1>2, <2>1
  <2> HIDE DEF t
  <2> QED BY <1>1, <2>1, <2>2, <2>3
<1>5. ASSUME TimerElapses(e) PROVE Keeps(e)
  <2> DEFINE t == [s EXCEPT !.rto_timeout = "elapsed", !.scheduled = TRUE]
  <2>1. stream' = [stream EXCEPT ![e] = t]
    BY <1>5 DEF TimerElapses, IInv
  <2>2. \A f \in StreamFields \ {"rto_timeout", "scheduled", "drive_waker", "on_close",
                                  "rx_closed"} : t[f] = s[f]
    BY <1>0 DEF StreamFields
  <2>3. net' = net /\ phase' = phase /\ delivered' = delivered /\ intact' = intact
    BY <1>5 DEF TimerElapses, AppUnchanged
  <2> HIDE DEF t
  <2> QED BY <1>1, <2>1, <2>2, <2>3
<1>6. ASSUME NEW m \in net[e], Deliver(e, m) PROVE Keeps(e)
  <2> DEFINE t == [s EXCEPT !.scheduled = TRUE]
  <2>1. stream' = [stream EXCEPT ![e] = t]
    BY <1>6 DEF Deliver, IInv
  <2>2. \A f \in StreamFields \ {"rto_timeout", "scheduled", "drive_waker", "on_close",
                                  "rx_closed"} : t[f] = s[f]
    BY <1>0 DEF StreamFields
  <2>3. net' = net /\ phase' = phase /\ delivered' = delivered /\ intact' = intact
    BY <1>6 DEF Deliver, AppUnchanged
  <2> HIDE DEF t
  <2> QED BY <1>1, <2>1, <2>2, <2>3
<1>7. ASSUME SocketGone(e) PROVE Keeps(e)
  <2> DEFINE t == [s EXCEPT !.rx_closed = TRUE, !.scheduled = TRUE]
  <2>1. stream' = [stream EXCEPT ![e] = t]
    BY <1>7 DEF SocketGone, IInv
  <2>2. \A f \in StreamFields \ {"rto_timeout", "scheduled", "drive_waker", "on_close",
                                  "rx_closed"} : t[f] = s[f]
    BY <1>0 DEF StreamFields
  <2>3. net' = net /\ phase' = phase /\ delivered' = delivered /\ intact' = intact
    BY <1>7 DEF SocketGone, AppUnchanged
  <2> HIDE DEF t
  <2> QED BY <1>1, <2>1, <2>2, <2>3
<1> QED BY <1>3, <1>4, <1>5, <1>6, <1>7

\* One iteration of poll_incoming.
LEMMA PollIncomingKind ==
  ASSUME BInv, NEW e \in End, NEW m \in recv_rx[e], PollIncoming(e, m)
  PROVE  Keeps(e) \/ Takes(e)
<1> USE ZenonT(30)
<1> DEFINE s == stream[e]
           p == Peer(e)
           t == HandleIncoming(s, m)
<1>1. IInv /\ p \in End /\ Peer(p) = e /\ p # e /\ DOMAIN stream = End
  BY PeerFacts DEF BInv, IInv
<1>2. /\ stream' = [stream EXCEPT ![e] = t] /\ net' = net /\ phase' = phase
      /\ delivered' = delivered /\ intact' = intact /\ phase[e] = "incoming"
  BY DEF PollIncoming, AppUnchanged
<1>3. m \in SentBy(p) /\ m \in Packet
  BY <1>1 DEF IInv, EnvironmentOK, SentBy
<1>4. IsData(m) \/ Plain(m)
  <2>1. PICK off : Direction(p, off)
    BY <1>1 DEF BInv
  <2> QED BY <1>3, <2>1 DEF Direction, Layout, Carries
<1>5. CASE IsData(m)
  <2>1. "DATA" \in m.typ
    BY <1>5 DEF IsData
  <2>2. stream'[e] = t /\ stream'[p] = stream[p]
    BY <1>1, <1>2
  <2>3. At(e) /\ NoRead(e)
    BY <1>2, <2>2 DEF At, NoRead
  <2> QED BY <1>2, <2>1, <2>2, <2>3 DEF Takes
<1>6. CASE Plain(m)
  <2>1. StreamOK(s) /\ SenderOK(s) /\ WindowIntact(s) /\ "DATA" \notin m.typ
    BY <1>1, <1>6, SideFacts DEF Plain
  <2>2. /\ t.incoming = s.incoming /\ t.ack = s.ack /\ t.tx_bytes = s.tx_bytes
        /\ t.error = "none" => s.error = "none" /\ t.state = s.state
    <3> HIDE DEF s
    <3> QED BY <1>3, <2>1, HandlePlain
  <2>3. /\ t.seq = s.seq /\ t.remote_acked = s.remote_acked
        /\ t.read_cursor = s.read_cursor
        /\ DOMAIN t.outgoing \subseteq DOMAIN s.outgoing
        /\ \A i \in DOMAIN t.outgoing : t.outgoing[i] = s.outgoing[i]
        /\ \A i \in DOMAIN s.outgoing \ DOMAIN t.outgoing : "SACK" \in m.typ
        /\ \A q \in t.send_queue : q \in s.send_queue \/ q.typ \subseteq {"END"}
    <3> HIDE DEF s
    <3> QED BY <1>3, <2>1, HandleIncomingFrame
  <2> HIDE DEF t
  <2>4. KeepTo(s, t, SentBy(e), t.send_queue \cup net'[p])
    <3>0. s.remote_acked \in Nat /\ t.remote_acked = s.remote_acked
      BY <2>1, <2>3 DEF StreamOK
    <3>1. s.remote_acked <= t.remote_acked
      BY LeqRefl, <3>0
    <3>2. SackEnd = {} => \A i \in DOMAIN s.outgoing : i \in DOMAIN t.outgoing
      BY <1>6, <2>3 DEF Plain
    <3>3. ASSUME NEW q \in t.send_queue \cup net'[p] PROVE q \in SentBy(e) \/ Plain(q)
      <4>1. CASE q.typ \subseteq {"END"}
        BY <4>1 DEF Plain
      <4> QED BY <1>2, <2>3, <4>1 DEF SentBy
    <3> QED BY <2>2, <2>3, <3>1, <3>2, <3>3 DEF KeepTo
  <2>5. SameReader(s, t)
    BY <2>2, <2>3 DEF SameReader
  <2>6. /\ net'[e] = net[e] /\ phase'[p] = phase[p]
        /\ phase'[e] = "writing" => phase[e] = "writing" /\ t.error = s.error
    BY <1>2
  <2>7. Keeps(e)
    BY <1>1, <1>2, <2>4, <2>5, <2>6, KeepsAt
  <2> QED BY <2>7
<1> QED BY <1>4, <1>5, <1>6

=============================================================================
