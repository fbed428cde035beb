--------------------------- MODULE UdxBytesProofs ---------------------------
(***************************************************************************)
(* The bytes: readers are given what was written (IntactStream), for       *)
(* connections of any size whose readers pass buffers of a full packet,    *)
(* and two connected streams implement ByteStream.                         *)
(***************************************************************************)
EXTENDS UdxDeliveryProofs

-----------------------------------------------------------------------------
(* Steps of the driver, and every step is of one kind *)

\* The stream once acks and timeouts are handled.
LEMMA CheckedKeeps ==
  ASSUME IInv, NEW e \in End
  PROVE  LET s == stream[e]
             c == Checked(e)
         IN  /\ StreamOK(c) /\ SenderOK(c)
             /\ c.seq = s.seq /\ c.tx_bytes = s.tx_bytes /\ s.remote_acked <= c.remote_acked
             /\ \A i \in DOMAIN c.outgoing : /\ i \in DOMAIN s.outgoing
                                             /\ c.outgoing[i].packet = s.outgoing[i].packet
             /\ \A i \in DOMAIN s.outgoing : i \in DOMAIN c.outgoing \/ i < c.remote_acked
             /\ c.incoming = s.incoming /\ c.read_cursor = s.read_cursor /\ c.ack = s.ack
             /\ c.send_queue = s.send_queue /\ c.error = s.error /\ c.state = s.state
<1> USE ZenonT(30)
<1> DEFINE s == stream[e]
           a == remote_ack[e]
           u == HandleIncomingMaxRemoteAck(s, a)
           c == PollCheckTimeouts(u)
<1>1. StreamOK(s) /\ SenderOK(s) /\ a \in Nat
  BY SideFacts DEF IInv, EnvironmentOK
<1>2. c = Checked(e)
  BY SMT DEF Checked
<1>3. /\ StreamOK(u) /\ SenderOK(u) /\ u.remote_acked = Larger(s.remote_acked, a)
      /\ DOMAIN u.outgoing \subseteq DOMAIN s.outgoing
      /\ \A i \in DOMAIN u.outgoing : u.outgoing[i] = s.outgoing[i]
      /\ \A i \in DOMAIN s.outgoing \ DOMAIN u.outgoing : i < a
      /\ \A f \in StreamFields \ {"outgoing", "inflight", "inflight_bytes",
            "inflight_packets", "remote_acked", "write_waker", "rto_timeout"} : u[f] = s[f]
  <2> HIDE DEF s, a
  <2> QED BY <1>1, MaxRemoteAckFrame
<1> HIDE DEF u
<1>4. /\ StreamOK(c) /\ SenderOK(c)
      /\ DOMAIN c.outgoing = DOMAIN u.outgoing
      /\ \A i \in DOMAIN u.outgoing : c.outgoing[i].packet = u.outgoing[i].packet
      /\ \A f \in StreamFields \ {"rto_timeout", "cwnd", "outgoing", "inflight"} : c[f] = u[f]
  BY <1>3, PollCheckTimeoutsFrame
<1> HIDE DEF c
<1>5. /\ c.seq = s.seq /\ c.ack = s.ack /\ c.incoming = s.incoming /\ c.tx_bytes = s.tx_bytes
      /\ c.read_cursor = s.read_cursor /\ c.send_queue = s.send_queue
      /\ c.error = s.error /\ c.state = s.state
  BY <1>3, <1>4 DEF StreamFields
<1>6. c.remote_acked = u.remote_acked
  BY <1>4 DEF StreamFields
<1>7. s.remote_acked \in Nat /\ DOMAIN s.outgoing \subseteq Nat
  BY <1>1 DEF StreamOK, IsMapTo
<1>8. s.remote_acked <= c.remote_acked /\ a <= c.remote_acked /\ c.remote_acked \in Nat
  BY SMTT(30), <1>1, <1>3, <1>6, <1>7 DEF Larger
<1>9. \A i \in DOMAIN c.outgoing : /\ i \in DOMAIN s.outgoing
                                   /\ c.outgoing[i].packet = s.outgoing[i].packet
  BY <1>3, <1>4
<1>10. \A i \in DOMAIN s.outgoing : i \in DOMAIN c.outgoing \/ i < c.remote_acked
  <2> SUFFICES ASSUME NEW i \in DOMAIN s.outgoing \ DOMAIN c.outgoing
               PROVE  i < c.remote_acked
    OBVIOUS
  <2>1. i < a /\ i \in Nat
    BY <1>3, <1>4, <1>7
  <2> QED BY SMT, <1>1, <1>8, <2>1
<1> QED BY <1>2, <1>4, <1>5, <1>8, <1>9, <1>10

\* The rest of poll_drive.
LEMMA DriveKind ==
  ASSUME IInv, NEW e \in End, DriveBroken(e) \/ DriveFails(e) \/ Drive(e)
  PROVE  Keeps(e)
<1> USE ZenonT(30)
<1> DEFINE s == stream[e]
           p == Peer(e)
           c == Checked(e)
<1>1. p \in End /\ p # e
  BY SMT, PeerFacts
<1>2. /\ StreamOK(c) /\ SenderOK(c)
      /\ c.seq = s.seq /\ c.tx_bytes = s.tx_bytes /\ s.remote_acked <= c.remote_acked
      /\ \A i \in DOMAIN c.outgoing : /\ i \in DOMAIN s.outgoing
                                      /\ c.outgoing[i].packet = s.outgoing[i].packet
      /\ \A i \in DOMAIN s.outgoing : i \in DOMAIN c.outgoing \/ i < c.remote_acked
      /\ c.incoming = s.incoming /\ c.read_cursor = s.read_cursor /\ c.ack = s.ack
      /\ c.send_queue = s.send_queue /\ c.error = s.error /\ c.state = s.state
  BY CheckedKeeps
<1> HIDE DEF c
<1>3. phase' = [phase EXCEPT ![e] = "idle"] /\ delivered' = delivered /\ intact' = intact
  BY DEF DriveBroken, DriveFails, Drive, AppUnchanged
<1>4. phase'[p] = phase[p] /\ phase'[e] = "idle"
  BY <1>1, <1>3 DEF IInv, EnvironmentOK
<1>5. CASE DriveBroken(e)
  <2>1. PICK err \in Errors : err = "BrokenPipe"
    BY SMT DEF Errors
  <2> DEFINE u == Terminate(s, err)
             t == [u EXCEPT !.scheduled = TRUE]
  <2>2. stream' = [stream EXCEPT ![e] = t] /\ net' = net
    BY <1>5, <2>1 DEF DriveBroken, Failed
  <2>3. StreamOK(s) /\ StreamOK(u)
    <3>1. StreamOK(s)
      BY SMT DEF IInv
    <3> HIDE DEF s
    <3> QED BY <3>1, TerminateFrame
  <2> HIDE DEF u
  <2>4. \A f \in StreamFields \ {"on_close", "scheduled"} : t[f] = u[f]
    BY <2>3 DEF StreamOK, StreamFields
  <2> HIDE DEF t
  <2>5. \A f \in StreamFields \ {"on_close", "scheduled"} : t[f] = Terminate(s, err)[f]
    BY <2>4 DEF u
  <2>6. phase'[e] # "writing"
    BY SMT, <1>4
  <2> QED BY <1>3, <1>4, <2>2, <2>3, <2>5, <2>6, TerminateKeeps
<1>6. CASE DriveFails(e)
  <2>1. PICK err \in Errors : err = "TimedOut"
    BY SMT DEF Errors
  <2> DEFINE u == Terminate(c, err)
             t == [u EXCEPT !.scheduled = TRUE]
  <2>2. stream' = [stream EXCEPT ![e] = t] /\ net' = net
    BY <1>6, <2>1 DEF DriveFails, Failed, c
  <2>3. /\ StreamOK(u) /\ u.error = err
        /\ \A f \in StreamFields \ {"drive_waker", "scheduled", "send_queue", "error", "state",
                                      "read_waker", "write_waker"} : u[f] = c[f]
        /\ \A q \in u.send_queue : q \in c.send_queue \/ q.typ \subseteq {"END"}
    BY <1>2, TerminateFrame
  <2> HIDE DEF u
  <2>4. \A f \in StreamFields \ {"scheduled"} : t[f] = u[f]
    BY <2>3 DEF StreamOK, StreamFields
  <2> HIDE DEF t
  <2>5. /\ t.seq = c.seq /\ t.tx_bytes = c.tx_bytes /\ t.remote_acked = c.remote_acked
        /\ t.outgoing = c.outgoing /\ t.incoming = c.incoming
        /\ t.read_cursor = c.read_cursor /\ t.ack = c.ack
        /\ t.send_queue = u.send_queue /\ t.error = u.error
    BY <2>3, <2>4 DEF StreamFields
  <2>6. t.error # "none"
    BY <2>1, <2>3, <2>5
  <2>7. ASSUME NEW q \in t.send_queue \cup net'[p] PROVE q \in SentBy(e) \/ Plain(q)
    <3>1. CASE q.typ \subseteq {"END"}
      BY <3>1 DEF Plain
    <3> QED BY <1>2, <2>2, <2>3, <2>5, <3>1 DEF SentBy
  <2>8. KeepTo(s, t, SentBy(e), t.send_queue \cup net'[p])
    BY <1>2, <2>5, <2>6, <2>7 DEF KeepTo
  <2>9. SameReader(s, t)
    BY <1>2, <2>5 DEF SameReader
  <2>10. net'[e] = net[e] /\ (phase'[e] = "writing" => phase[e] = "writing" /\ t.error = s.error)
    BY <1>4, <2>2
  <2> QED BY <1>3, <1>4, <2>2, <2>8, <2>9, <2>10, KeepsAt
<1>7. CASE Drive(e)
  <2> DEFINE f == FlushWaitingPackets(c)
             t == [f EXCEPT !.send_queue = {}, !.drive_waker = TRUE]
  <2>1. stream' = [stream EXCEPT ![e] = t] /\ net' = [net EXCEPT ![p] = @ \cup f.send_queue]
    BY <1>7 DEF Drive, c
  <2>2. /\ StreamOK(f)
        /\ DOMAIN f.outgoing = DOMAIN c.outgoing
        /\ \A i \in DOMAIN c.outgoing : f.outgoing[i].packet = c.outgoing[i].packet
        /\ \A q \in f.send_queue :
              q \in c.send_queue \/ \E i \in DOMAIN c.outgoing : q = c.outgoing[i].packet
        /\ \A g \in StreamFields \ {"outgoing", "inflight", "send_queue"} : f[g] = c[g]
    BY <1>2, FlushWaitingPacketsFrame
  <2> HIDE DEF f
  <2>3. /\ t.send_queue = {}
        /\ \A g \in StreamFields \ {"send_queue", "drive_waker"} : t[g] = f[g]
    BY <2>2 DEF StreamOK, StreamFields
  <2> HIDE DEF t
  <2>4. /\ t.seq = c.seq /\ t.tx_bytes = c.tx_bytes /\ t.remote_acked = c.remote_acked
        /\ t.outgoing = f.outgoing /\ t.incoming = c.incoming
        /\ t.read_cursor = c.read_cursor /\ t.ack = c.ack
        /\ t.error = c.error /\ t.state = c.state
    BY <2>2, <2>3 DEF StreamFields
  <2>5. net'[p] = net[p] \cup f.send_queue /\ net'[e] = net[e]
    BY <1>1, <2>1 DEF IInv, EnvironmentOK
  <2>6. ASSUME NEW q \in t.send_queue \cup net'[p]
        PROVE  q \in SentBy(e) \/ \E i \in DOMAIN s.outgoing : q = s.outgoing[i].packet
    <3>1. q \in net[p] \/ q \in f.send_queue
      BY <2>3, <2>5
    <3>2. CASE q \in f.send_queue
      BY <1>2, <2>2, <3>2 DEF SentBy
    <3> QED BY <3>1, <3>2 DEF SentBy
  <2>7. \A i \in DOMAIN t.outgoing : /\ i \in DOMAIN s.outgoing
                                     /\ t.outgoing[i].packet = s.outgoing[i].packet
    BY <1>2, <2>2, <2>4
  <2>8. \A i \in DOMAIN s.outgoing : i \in DOMAIN t.outgoing \/ i < t.remote_acked
    BY <1>2, <2>2, <2>4
  <2>9. KeepTo(s, t, SentBy(e), t.send_queue \cup net'[p])
    BY <1>2, <2>4, <2>6, <2>7, <2>8 DEF KeepTo
  <2>10. SameReader(s, t)
    BY <1>2, <2>4 DEF SameReader
  <2>11. phase'[e] = "writing" => phase[e] = "writing" /\ t.error = s.error
    BY <1>4
  <2> QED BY <1>3, <1>4, <2>1, <2>5, <2>9, <2>10, <2>11, KeepsAt
<1> QED BY <1>5, <1>6, <1>7

\* The peer's SACKs carry no data.
LEMMA SackKind ==
  ASSUME IInv, NEW e \in End, SendSack(e)
  PROVE  Keeps(e)
<1> USE ZenonT(30)
<1> DEFINE s == stream[e]
           p == Peer(e)
<1>1. p \in End /\ p # e
  BY SMT, PeerFacts
<1>2. /\ stream' = stream /\ phase' = phase /\ delivered' = delivered /\ intact' = intact
      /\ SackEnd # {}
  BY SMT DEF SendSack, AppUnchanged
<1>3. PICK q, r \in SackRanges(s) :
        net' = [net EXCEPT ![p] = @ \cup
                  {[CreatePacket(s, {"SACK"}, 0, 0) EXCEPT !.sacks = <<q, r>>]}]
  BY DEF SendSack
<1> DEFINE k == CreatePacket(s, {"SACK"}, 0, 0)
           m == [k EXCEPT !.sacks = <<q, r>>]
<1>4. Plain(m)
  <2>1. "DATA" \notin k.typ /\ DOMAIN k = {"typ", "seq", "ack", "off", "len", "sacks"}
    BY DEF CreatePacket
  <2> HIDE DEF k
  <2>2. m.typ = k.typ
    BY <2>1
  <2> QED BY <1>2, <2>1, <2>2 DEF Plain
<1> HIDE DEF m
<1>5. net'[p] = net[p] \cup {m} /\ net'[e] = net[e]
  BY <1>1, <1>3 DEF IInv, EnvironmentOK, m, k
<1>6. s.remote_acked <= s.remote_acked
  <2>1. s.remote_acked \in Nat
    BY DEF IInv, StreamOK
  <2> QED BY SMTT(30), <2>1
<1>7. \A n \in s.send_queue \cup net'[p] : n \in SentBy(e) \/ Plain(n)
  BY <1>4, <1>5 DEF SentBy
<1>8. KeepTo(s, s, SentBy(e), s.send_queue \cup net'[p])
  BY <1>6, <1>7 DEF KeepTo
<1> QED BY <1>2, <1>5, <1>8 DEF Keeps, At, NoRead, SameReader

-----------------------------------------------------------------------------
(* The bytes are kept *)

\* Every step is of one of the four kinds.
LEMMA NextKind ==
  ASSUME BInv, Next
  PROVE  \E e \in End : \/ Keeps(e) \/ Sends(e) \/ Takes(e)
                       \/ \E cap \in ReadCaps : Read(e, cap)
<1> USE ZenonT(30)
<1>0. IInv
  BY DEF BInv
<1>1. PICK e \in End :
         \/ AppNext(e)
         \/ PollWriteMore(e)
         \/ DriverNext(e)
         \/ TimerElapses(e)
         \/ \E m \in net[e] : Deliver(e, m)
         \/ SocketGone(e)
         \/ SendSack(e)
  BY SMT DEF Next
<1>2. ASSUME NEW n \in WriteLens, PollWrite(e, n) PROVE Keeps(e) \/ Sends(e)
  <2>1. n \in Nat \ {0}
    BY SMT, EndsAssumption
  <2>2. /\ WriteChunk(e, n, TRUE) /\ stream[e].error = "none"
        /\ UNCHANGED <<net, recv_rx, remote_ack>> /\ AppUnchanged
    BY <1>2 DEF PollWrite
  <2> QED BY <2>1, <2>2, WriteKind
<1>3. ASSUME PollWriteMore(e) PROVE Keeps(e) \/ Sends(e)
  <2>1. /\ WriteChunk(e, left[e], FALSE) /\ phase[e] = "writing"
        /\ UNCHANGED <<net, recv_rx, remote_ack>> /\ AppUnchanged
    BY <1>3 DEF PollWriteMore
  <2>2. left[e] \in Nat \ {0} /\ stream[e].error = "none"
    BY <1>0, <2>1 DEF BInv, KindOK, IInv, EnvironmentOK
  <2> QED BY <2>1, <2>2, WriteKind
<1>4. CASE AppNext(e)
  BY <1>0, <1>2, <1>4, CloseKind DEF AppNext
<1>5. CASE DriverNext(e)
  BY <1>0, <1>5, CloseKind, WakeKind, PollIncomingKind, DriveKind DEF DriverNext
<1>6. CASE TimerElapses(e) \/ (\E m \in net[e] : Deliver(e, m)) \/ SocketGone(e)
  BY <1>0, <1>6, WakeKind
<1>7. CASE SendSack(e)
  BY <1>0, <1>7, SackKind
<1> QED BY <1>1, <1>3, <1>4, <1>5, <1>6, <1>7

\* Readers pass buffers that a full packet fits into.
FullBuffers == \A cap \in ReadCaps : MAX_DATA_SIZE <= cap

\* Each kind keeps the bytes of both directions.
LEMMA NextKept ==
  ASSUME FullBuffers, BInv, Next, IInv'
  PROVE  Kept
<1> USE ZenonT(30)
<1>1. PICK e \in End : \/ Keeps(e) \/ Sends(e) \/ Takes(e)
                      \/ \E cap \in ReadCaps : Read(e, cap)
  BY NextKind
<1>2. ASSUME NEW cap \in ReadCaps, Read(e, cap) PROVE Kept
  <2>1. MAX_DATA_SIZE <= cap
    BY DEF FullBuffers
  <2> QED BY SMT, <1>2, <2>1, ReadsStep
<1> QED BY <1>1, <1>2, KeepsStep, SendsStep, TakesStep

\* Two new streams have written and read nothing.
LEMMA InitBInv == Init => BInv
<1> USE ZenonT(30)
<1> SUFFICES ASSUME Init PROVE BInv
  BY SMT
<1> DEFINE off == [i \in 0 .. 0 |-> 0]
<1>1. IInv
  BY SMT, InitIInv
<1>2. /\ \A e \in End : stream[e] = InitialStream /\ net[e] = {} /\ phase[e] = "idle"
      /\ \A e \in End : delivered[e] = 0 /\ intact[e]
  BY DEF Init
<1>3. /\ InitialStream.error = "none" /\ InitialStream.state = "Open"
      /\ InitialStream.seq = 0 /\ InitialStream.tx_bytes = 0
      /\ InitialStream.remote_acked = 0 /\ InitialStream.read_cursor = 0
      /\ DOMAIN InitialStream.outgoing = {} /\ DOMAIN InitialStream.incoming = {}
      /\ InitialStream.send_queue = {}
  BY DEF InitialStream, NoPackets
<1>4. Cumulative(InitialStream)
  BY SMT, <1>3 DEF Cumulative
<1>5. Cuts(off, 0) /\ off[0] = 0
  BY SMTT(30), ConstantsAssumption DEF Cuts
<1> HIDE DEF off
<1>6. Layout(InitialStream, {}, off)
  BY <1>3, <1>5 DEF Layout, CutAt
<1>7. Reading(InitialStream, 0, off)
  BY SMTT(30), <1>3, <1>5 DEF Reading, InPacket
<1>8. ASSUME NEW e \in End PROVE Direction(e, off)
  <2>1. SentBy(e) = {} /\ stream[Peer(e)] = InitialStream /\ delivered[Peer(e)] = 0
    BY <1>2, <1>3, PeerFacts DEF SentBy
  <2> QED BY <1>2, <1>6, <1>7, <2>1 DEF Direction
<1>9. \A e \in End : KindOK(stream[e], phase[e])
  BY <1>2, <1>3, <1>4 DEF KindOK
<1> QED BY <1>1, <1>2, <1>8, <1>9 DEF BInv

\* Every step of either end keeps the invariant.
LEMMA NextBInv ==
  ASSUME FullBuffers
  PROVE  BInv /\ [Next]_vars => BInv'
<1> USE ZenonT(30)
<1> SUFFICES ASSUME BInv, [Next]_vars PROVE BInv'
  BY SMT
<1>1. IInv'
  BY NextIInv DEF BInv
<1>2. CASE Next
  <2>1. Kept
    BY <1>1, <1>2, NextKept
  <2>2. \A d \in End : \E off : Direction(d, off)'
    BY <2>1 DEF BInv, Kept
  <2> QED BY <1>1, <2>1, <2>2 DEF BInv, Kept
<1>3. CASE UNCHANGED vars
  BY <1>1, <1>3 DEF vars, BInv, Direction, SentBy
<1> QED BY SMT, <1>2, <1>3

\* Where the cursors of the direction from d are in a cut of its bytes.
LEMMA CursorsAt ==
  ASSUME BInv, NEW d \in End, NEW off, Direction(d, off)
  PROVE  LET s == stream[d]
             r == stream[Peer(d)]
         IN  /\ delivered[Peer(d)] \in Nat
             /\ delivered[Peer(d)] <= off[r.ack]
             /\ delivered[Peer(d)] + Readable(Peer(d)) = off[r.ack]
             /\ s.tx_bytes = off[s.seq]
             /\ SackEnd = {} => s.tx_bytes - s.inflight_bytes = off[s.remote_acked]
             /\ Cuts(off, s.seq) /\ s.seq \in Nat
             /\ r.ack \in 0 .. s.seq /\ s.remote_acked \in 0 .. r.ack
<1> USE ZenonT(30)
<1> DEFINE s == stream[d]
           r == stream[Peer(d)]
<1>1. /\ StreamOK(s) /\ StreamOK(r) /\ SenderOK(s) /\ WindowIntact(r)
      /\ s.remote_acked <= r.ack /\ r.ack <= s.seq /\ s.remote_acked <= s.seq
  BY SideFacts DEF BInv
<1>2. s.seq \in Nat /\ r.ack \in Nat /\ s.remote_acked \in Nat
  BY <1>1 DEF StreamOK
<1>3. Reading(r, delivered[Peer(d)], off) /\ CutAt(s, off) /\ Cuts(off, s.seq)
      /\ off[s.seq] = s.tx_bytes
  BY DEF Direction, Layout, CutAt
<1>4. Readable(Peer(d)) = Total(Run(r), Unread(r.incoming))
  BY SMT DEF Readable
<1>5. SackEnd = {} => Cumulative(s)
  BY DEF BInv, KindOK
<1> HIDE DEF s, r
<1>6. /\ delivered[Peer(d)] \in Nat /\ off[r.ack] \in Nat /\ delivered[Peer(d)] <= off[r.ack]
      /\ Total(Run(r), Unread(r.incoming)) = off[r.ack] - delivered[Peer(d)]
  BY <1>1, <1>2, <1>3, ReadableEnd
<1>7. SackEnd = {} => s.tx_bytes - s.inflight_bytes = off[s.remote_acked]
  BY <1>1, <1>3, <1>5, ConfirmedBytes
<1>8. delivered[Peer(d)] + Readable(Peer(d)) = off[r.ack]
  BY SMTT(30), <1>4, <1>6
<1>9. r.ack \in 0 .. s.seq /\ s.remote_acked \in 0 .. r.ack
  BY SMT, <1>1, <1>2
<1> QED BY <1>2, <1>3, <1>6, <1>7, <1>8, <1>9 DEF s, r

-----------------------------------------------------------------------------
(* The theorems *)

\* The cut of the bytes stays with the written bytes throughout.
THEOREM BytesInvariance ==
  ASSUME FullBuffers
  PROVE  Spec => []BInv
BY InitBInv, NextBInv, PTL DEF Spec

\* The reader of every stream is given the bytes its peer wrote, in order,
\* without gap or repetition, and never more than were written: poll_read,
\* over any loss, duplication and reordering and any number of
\* retransmissions, when buffers hold a full packet.
THEOREM ReadsWhatWasWritten ==
  ASSUME FullBuffers
  PROVE  Spec => []IntactStream
<1>1. BInv => IntactStream
  <2> SUFFICES ASSUME BInv, NEW e \in End
               PROVE  intact[e] /\ delivered[e] <= stream[Peer(e)].tx_bytes
    BY DEF IntactStream
  <2> DEFINE d == Peer(e)
             s == stream[d]
             r == stream[Peer(d)]
  <2>1. d \in End /\ Peer(d) = e
    BY ZenonT(30), PeerFacts
  <2>2. PICK off : Direction(d, off)
    BY <2>1 DEF BInv
  <2>3. /\ delivered[e] \in Nat /\ delivered[e] <= off[r.ack]
        /\ s.tx_bytes = off[s.seq] /\ Cuts(off, s.seq) /\ s.seq \in Nat /\ r.ack \in 0 .. s.seq
    BY ZenonT(30), <2>1, <2>2, CursorsAt
  <2> HIDE DEF s, r
  <2>4. off[r.ack] <= off[s.seq] /\ off[r.ack] \in Nat /\ off[s.seq] \in Nat
    <3>1. s.seq \in 0 .. s.seq
      BY <2>3
    <3>2. off[r.ack] \in Nat /\ off[s.seq] \in Nat
      BY ZenonT(30), <2>3, <3>1 DEF Cuts
    <3>3. r.ack < s.seq => off[r.ack] < off[s.seq]
      BY ZenonT(30), <2>3, <3>1 DEF Cuts
    <3>4. r.ack < s.seq \/ r.ack = s.seq
      BY SMTT(30), <2>3
    <3> QED BY SMTT(30), <3>2, <3>3, <3>4
  <2>5. delivered[e] <= s.tx_bytes
    BY SMTT(30), <2>3, <2>4
  <2> QED BY ZenonT(30), <2>5 DEF BInv, s
<1> QED BY <1>1, BytesInvariance, PTL

\* No wake-up of a reader is lost: one that waits, waits on a live stream
\* with nothing to read, whatever arrives or fails between poll_read and the
\* driver's polls (poll_read, handle_incoming, terminate).
THEOREM ReaderIsWoken ==
  ASSUME FullBuffers
  PROVE  Spec => []BlockedReader
<1>1. Init => BlockedReader
  <2> SUFFICES ASSUME Init, NEW e \in End
               PROVE  ~ stream[e].read_waker
    BY ZenonT(30) DEF BlockedReader
  <2> QED BY ZenonT(30) DEF Init, InitialStream
<1>2. BInv /\ BlockedReader /\ [Next]_vars => BlockedReader'
  <2> SUFFICES ASSUME BInv, BlockedReader, [Next]_vars, NEW x \in End, stream'[x].read_waker
               PROVE  stream'[x].error = "none" /\ stream'[x].read_cursor = stream'[x].ack
    BY ZenonT(30) DEF BlockedReader
  <2>1. IInv
    BY ZenonT(30) DEF BInv
  <2>2. stream[x].read_waker =>
           stream[x].error = "none" /\ stream[x].read_cursor = stream[x].ack
    BY ZenonT(30) DEF BlockedReader
  <2>3. CASE WaitsOn
    BY ZenonT(30), <2>2, <2>3 DEF WaitsOn, StillWaits
  <2>4. ASSUME NEW e \in End, NEW cap \in ReadCaps, Read(e, cap)
        PROVE  stream'[x].error = "none" /\ stream'[x].read_cursor = stream'[x].ack
    <3> DEFINE s == stream[e]
               t == PollRead(s, cap)
               p == Peer(e)
    <3>1. /\ StreamOK(s) /\ WindowIntact(s) /\ DOMAIN stream = End
          /\ cap \in Nat /\ MAX_DATA_SIZE <= cap
      BY ZenonT(30), <2>1, SideFacts, EndsAssumption DEF IInv, FullBuffers
    <3>2. stream' = [stream EXCEPT ![e] = t]
      BY ZenonT(30), <2>4 DEF Read
    <3>3. CASE x # e
      <4>1. stream'[x] = stream[x]
        BY ZenonT(30), <3>1, <3>2, <3>3
      <4> QED BY ZenonT(30), <2>2, <4>1
    <3>4. CASE x = e
      <4>1. stream'[x] = t
        BY ZenonT(30), <3>1, <3>2, <3>4
      <4>2. t.error = s.error /\ t.ack = s.ack
        <5>1. \A f \in StreamFields \ {"incoming", "read_cursor", "read_waker"} : t[f] = s[f]
          BY ZenonT(30), <3>1, PollReadFrame
        <5> HIDE DEF t
        <5> QED BY <5>1 DEF StreamFields
      <4>3. /\ t.read_waker => s.read_waker \/ (~ DidRead(s, cap) /\ s.error = "none")
            /\ s.read_cursor = s.ack => t.read_cursor = s.ack
        BY ZenonT(30), <3>1, PollReadWaits
      <4>4. ~ DidRead(s, cap) => s.read_cursor = s.ack
        <5>1. p \in End /\ Peer(p) = e
          BY ZenonT(30), PeerFacts
        <5>2. PICK off : Direction(p, off)
          BY ZenonT(30), <5>1 DEF BInv
        <5> DEFINE given == delivered[e]
                   n == stream[p].seq
        <5>3. Reading(s, given, off) /\ Cuts(off, n)
          BY ZenonT(30), <5>1, <5>2 DEF Direction, Layout, CutAt
        <5>4. n \in Nat /\ s.ack <= n
          BY ZenonT(30), <2>1, <5>1, SideFacts DEF StreamOK
        <5> HIDE DEF s, given, n
        <5>5. ReadOn(s, cap, given, off)
          BY ZenonT(30), <3>1, <5>3, <5>4, PollReadBytes
        <5> QED BY ZenonT(30), <5>5 DEF ReadOn
      <4> HIDE DEF t
      <4> QED BY ZenonT(30), <2>2, <3>4, <4>1, <4>2, <4>3, <4>4
    <3> QED BY ZenonT(30), <3>3, <3>4
  <2> QED BY ZenonT(30), <2>1, <2>3, <2>4, NextWaits
<1> QED BY <1>1, <1>2, BytesInvariance, PTL DEF Spec

-----------------------------------------------------------------------------
(* The refinement *)

\* A cut is monotone.
LEMMA CutMonotone ==
  ASSUME NEW n \in Nat, NEW off, Cuts(off, n), NEW j \in 0 .. n, NEW i \in 0 .. j
  PROVE  off[i] \in Nat /\ off[j] \in Nat /\ off[i] <= off[j]
<1>1. i \in 0 .. n /\ j \in 0 .. n /\ (i = j \/ i < j)
  OBVIOUS
<1>2. off[i] \in Nat /\ off[j] \in Nat
  BY <1>1 DEF Cuts
<1>3. i < j => off[i] < off[j]
  BY ZenonT(30), <1>1 DEF Cuts
<1> QED BY SMTT(30), <1>1, <1>2, <1>3

\* The cursors of a direction, in a state.
LEMMA CursorsNow ==
  ASSUME BInv, SackEnd = {}, NEW d \in End, NEW off, Direction(d, off)
  PROVE  /\ Written[d] = off[stream[d].seq] /\ Received[d] = off[stream[Peer(d)].ack]
         /\ Confirmed[d] = off[stream[d].remote_acked] /\ Given[d] = delivered[Peer(d)]
         /\ Given[d] \in Nat /\ Confirmed[d] \in Nat /\ Received[d] \in Nat /\ Written[d] \in Nat
         /\ Given[d] <= Received[d] /\ Confirmed[d] <= Received[d] /\ Received[d] <= Written[d]
<1> USE ZenonT(30)
<1> DEFINE s == stream[d]
           r == stream[Peer(d)]
<1>1. Peer(d) \in End
  BY SMT, PeerFacts
<1>2. /\ delivered[Peer(d)] \in Nat /\ delivered[Peer(d)] <= off[r.ack]
      /\ delivered[Peer(d)] + Readable(Peer(d)) = off[r.ack]
      /\ s.tx_bytes = off[s.seq]
      /\ s.tx_bytes - s.inflight_bytes = off[s.remote_acked]
      /\ Cuts(off, s.seq) /\ s.seq \in Nat
      /\ r.ack \in 0 .. s.seq /\ s.remote_acked \in 0 .. r.ack
  BY CursorsAt
<1>3. /\ Written[d] = s.tx_bytes /\ Received[d] = delivered[Peer(d)] + Readable(Peer(d))
      /\ Confirmed[d] = s.tx_bytes - s.inflight_bytes /\ Given[d] = Cursor(Peer(d))
  BY DEF Written, Received, Confirmed, Given
<1>4. Cursor(Peer(d)) = delivered[Peer(d)]
  BY <1>1 DEF BInv, Cursor
<1> HIDE DEF s, r
<1>5. s.seq \in 0 .. s.seq
  BY SMT, <1>2
<1>6. off[r.ack] \in Nat /\ off[s.seq] \in Nat /\ off[r.ack] <= off[s.seq]
  BY <1>2, <1>5, CutMonotone
<1>7. off[s.remote_acked] \in Nat /\ off[s.remote_acked] <= off[r.ack]
  BY <1>2, CutMonotone
<1> QED BY <1>2, <1>3, <1>4, <1>6, <1>7 DEF s, r

CursorsOK ==
  \A d \in End : \A off : Direction(d, off) =>
     /\ Received[d] = off[stream[Peer(d)].ack] /\ Confirmed[d] = off[stream[d].remote_acked]
     /\ Given[d] = delivered[Peer(d)]
     /\ Confirmed[d] \in Nat /\ Received[d] \in Nat /\ Written[d] \in Nat
     /\ Given[d] <= Received[d] /\ Confirmed[d] <= Received[d] /\ Received[d] <= Written[d]
     /\ Cuts(off, stream[d].seq) /\ stream[d].seq \in Nat
     /\ stream[Peer(d)].ack \in 0 .. stream[d].seq
     /\ stream[d].remote_acked \in 0 .. stream[Peer(d)].ack

\* The same of the next state.
LEMMA CursorsNext ==
  ASSUME SackEnd = {}
  PROVE  BInv' => CursorsOK'
<1>1. BInv => CursorsOK
  <2> SUFFICES ASSUME BInv, NEW d \in End, NEW off, Direction(d, off)
               PROVE  /\ Received[d] = off[stream[Peer(d)].ack]
                      /\ Confirmed[d] = off[stream[d].remote_acked]
                      /\ Given[d] = delivered[Peer(d)]
                      /\ Confirmed[d] \in Nat /\ Received[d] \in Nat /\ Written[d] \in Nat
                      /\ Given[d] <= Received[d] /\ Confirmed[d] <= Received[d]
                      /\ Received[d] <= Written[d]
                      /\ Cuts(off, stream[d].seq) /\ stream[d].seq \in Nat
                      /\ stream[Peer(d)].ack \in 0 .. stream[d].seq
                      /\ stream[d].remote_acked \in 0 .. stream[Peer(d)].ack
    BY ZenonT(30) DEF CursorsOK
  <2> QED BY ZenonT(30), CursorsNow, CursorsAt
<1> QED BY <1>1, PTL

\* The cursors of a direction, across a step.
LEMMA CursorsMove ==
  ASSUME BInv, BInv', Kept, SackEnd = {}, NEW d \in End
  PROVE  /\ Given[d] = delivered[Peer(d)] /\ Given'[d] = delivered'[Peer(d)]
         /\ Confirmed[d] \in Nat /\ Received[d] \in Nat
         /\ Confirmed'[d] \in Nat /\ Received'[d] \in Nat /\ Written'[d] \in Nat
         /\ Given'[d] <= Received'[d] /\ Confirmed'[d] <= Received'[d]
         /\ Received'[d] <= Written'[d]
         /\ stream[Peer(d)].ack <= stream'[Peer(d)].ack => Received[d] <= Received'[d]
         /\ stream[Peer(d)].ack = stream'[Peer(d)].ack => Received[d] = Received'[d]
         /\ stream[d].remote_acked <= stream'[d].remote_acked => Confirmed[d] <= Confirmed'[d]
         /\ stream[d].remote_acked = stream'[d].remote_acked => Confirmed[d] = Confirmed'[d]
<1> USE ZenonT(30)
<1> DEFINE s == stream[d]
           r == stream[Peer(d)]
           t == stream'[d]
           u == stream'[Peer(d)]
<1>1. PICK off : Direction(d, off)
  BY DEF BInv
<1>2. PICK wide : Direction(d, wide)' /\ \A i \in 0 .. s.seq : wide[i] = off[i]
  BY SMT, <1>1 DEF Kept
<1>3. /\ Received[d] = off[r.ack] /\ Confirmed[d] = off[s.remote_acked]
      /\ Given[d] = delivered[Peer(d)] /\ Received[d] \in Nat /\ Confirmed[d] \in Nat
  BY <1>1, CursorsNow
<1>4. /\ s.seq \in Nat /\ r.ack \in 0 .. s.seq /\ s.remote_acked \in 0 .. r.ack
  BY <1>1, CursorsAt
<1>5. /\ Received'[d] = wide[u.ack] /\ Confirmed'[d] = wide[t.remote_acked]
      /\ Given'[d] = delivered'[Peer(d)]
      /\ Confirmed'[d] \in Nat /\ Received'[d] \in Nat /\ Written'[d] \in Nat
      /\ Given'[d] <= Received'[d] /\ Confirmed'[d] <= Received'[d]
      /\ Received'[d] <= Written'[d]
  BY <1>2, CursorsNext DEF CursorsOK
<1>6. /\ Cuts(wide, t.seq) /\ t.seq \in Nat
      /\ u.ack \in 0 .. t.seq /\ t.remote_acked \in 0 .. u.ack
  BY <1>2, CursorsNext DEF CursorsOK
<1> HIDE DEF s, r, t, u
<1>7. wide[r.ack] = off[r.ack] /\ wide[s.remote_acked] = off[s.remote_acked]
  BY SMTT(30), <1>2, <1>4
<1>8. ASSUME r.ack <= u.ack PROVE off[r.ack] <= wide[u.ack]
  <2>1. r.ack \in 0 .. u.ack
    BY SMTT(30), <1>4, <1>6, <1>8
  <2> QED BY <1>6, <1>7, <2>1, CutMonotone
<1>9. ASSUME s.remote_acked <= t.remote_acked PROVE off[s.remote_acked] <= wide[t.remote_acked]
  <2>1. s.remote_acked \in 0 .. t.remote_acked /\ t.remote_acked \in 0 .. t.seq
    BY SMTT(30), <1>4, <1>6, <1>9
  <2> QED BY <1>6, <1>7, <2>1, CutMonotone
<1> QED BY <1>3, <1>5, <1>7, <1>8, <1>9 DEF s, r, t, u

\* The cursors are functions on the ends.
LEMMA CursorFunctions ==
  /\ Written = [d \in End |-> Written[d]] /\ Written' = [d \in End |-> Written'[d]]
  /\ Received = [d \in End |-> Received[d]] /\ Received' = [d \in End |-> Received'[d]]
  /\ Confirmed = [d \in End |-> Confirmed[d]] /\ Confirmed' = [d \in End |-> Confirmed'[d]]
  /\ Given = [d \in End |-> Given[d]] /\ Given' = [d \in End |-> Given'[d]]
<1>1. Written = [d \in End |-> Written[d]] /\ Written' = [d \in End |-> Written'[d]]
  BY DEF Written
<1>2. Received = [d \in End |-> Received[d]] /\ Received' = [d \in End |-> Received'[d]]
  BY DEF Received
<1>3. Confirmed = [d \in End |-> Confirmed[d]] /\ Confirmed' = [d \in End |-> Confirmed'[d]]
  BY DEF Confirmed
<1>4. Given = [d \in End |-> Given[d]] /\ Given' = [d \in End |-> Given'[d]]
  BY DEF Given
<1> QED BY ZenonT(30), <1>1, <1>2, <1>3, <1>4

\* A function that changes at one argument.
LEMMA ChangesAt ==
  ASSUME NEW f, NEW g, f = [d \in End |-> f[d]], g = [d \in End |-> g[d]], NEW e \in End,
         \A d \in End : d # e => g[d] = f[d]
  PROVE  g = [f EXCEPT ![e] = g[e]]
OBVIOUS

\* Sending data is a write.
LEMMA SendsIsWrite ==
  ASSUME BInv, BInv', SackEnd = {}, NEW e \in End, Sends(e)
  PROVE  Abstract!Write(e)
<1> USE ZenonT(30)
<1> DEFINE p == Peer(e)
<1>1. p \in End /\ p # e /\ Peer(p) = e /\ \A x \in End : x = e \/ x = p
  BY PeerFacts
<1>2. /\ Kept /\ stream'[e].tx_bytes > stream[e].tx_bytes
      /\ stream'[e].remote_acked = stream[e].remote_acked
      /\ SameReader(stream[e], stream'[e]) /\ stream'[e].error = stream[e].error
  BY SendsStep DEF BInv
<1>3. stream'[p] = stream[p] /\ \A d \in End : delivered'[d] = delivered[d]
  BY <1>1 DEF Sends, At, NoRead
<1>4. \A d \in End : stream'[d].ack = stream[d].ack
                   /\ stream'[d].remote_acked = stream[d].remote_acked
                   /\ stream'[d].error = stream[d].error
  BY <1>1, <1>2, <1>3 DEF SameReader
<1>5. \A d \in End : /\ Received'[d] = Received[d] /\ Confirmed'[d] = Confirmed[d]
                     /\ Given'[d] = Given[d]
  <2> SUFFICES ASSUME NEW d \in End
               PROVE  /\ Received'[d] = Received[d] /\ Confirmed'[d] = Confirmed[d]
                      /\ Given'[d] = Given[d]
    BY SMT
  <2>1. Peer(d) \in End
    BY PeerFacts
  <2>2. stream[Peer(d)].ack = stream'[Peer(d)].ack
        /\ stream[d].remote_acked = stream'[d].remote_acked
        /\ delivered'[Peer(d)] = delivered[Peer(d)]
    BY <1>3, <1>4, <2>1
  <2>3. /\ Given[d] = delivered[Peer(d)] /\ Given'[d] = delivered'[Peer(d)]
        /\ Received[d] = Received'[d] /\ Confirmed[d] = Confirmed'[d]
    BY <1>2, <2>2, CursorsMove
  <2> QED BY <2>2, <2>3
<1>6. Received' = Received /\ Confirmed' = Confirmed /\ Given' = Given
  BY <1>5, CursorFunctions
<1>7. Written'[e] > Written[e] /\ \A d \in End : d # e => Written'[d] = Written[d]
  BY <1>1, <1>2, <1>3 DEF Written
<1>8. Written' = [Written EXCEPT ![e] = Written'[e]]
  BY <1>7, CursorFunctions, ChangesAt
<1>9. Ended' = Ended /\ e \notin Ended
  BY <1>4 DEF Ended, Sends
<1> QED BY <1>6, <1>7, <1>8, <1>9 DEF Abstract!Write, Abstract!Advances

\* Taking data from the channel is an arrival of bytes, or nothing.
LEMMA TakesIsReceive ==
  ASSUME BInv, BInv', SackEnd = {}, NEW e \in End, Takes(e)
  PROVE  Abstract!Receive(Peer(e)) \/ UNCHANGED Abstract!vars
<1> USE ZenonT(30)
<1> DEFINE p == Peer(e)
<1>1. p \in End /\ p # e /\ Peer(p) = e /\ \A x \in End : x = e \/ x = p
  BY SMT, PeerFacts
<1>2. /\ Kept /\ stream[e].ack <= stream'[e].ack
      /\ stream'[e].tx_bytes = stream[e].tx_bytes
      /\ stream'[e].remote_acked = stream[e].remote_acked
      /\ stream'[e].error = stream[e].error
  BY TakesStep DEF BInv
<1>3. stream'[p] = stream[p] /\ \A d \in End : delivered'[d] = delivered[d]
  BY <1>1 DEF Takes, At, NoRead
<1>4. \A d \in End : /\ stream'[d].remote_acked = stream[d].remote_acked
                     /\ stream'[d].error = stream[d].error
                     /\ stream'[d].tx_bytes = stream[d].tx_bytes
  BY <1>1, <1>2, <1>3
<1>5. \A d \in End : Confirmed'[d] = Confirmed[d] /\ Given'[d] = Given[d]
  <2> SUFFICES ASSUME NEW d \in End PROVE Confirmed'[d] = Confirmed[d] /\ Given'[d] = Given[d]
    OBVIOUS
  <2>1. Peer(d) \in End
    BY SMT, PeerFacts
  <2>2. stream[d].remote_acked = stream'[d].remote_acked
        /\ delivered'[Peer(d)] = delivered[Peer(d)]
    BY <1>3, <1>4, <2>1
  <2>3. /\ Given[d] = delivered[Peer(d)] /\ Given'[d] = delivered'[Peer(d)]
        /\ Confirmed[d] = Confirmed'[d]
    BY <1>2, <2>2, CursorsMove
  <2> QED BY <2>2, <2>3
<1>6. Confirmed' = Confirmed /\ Given' = Given
  BY <1>5, CursorFunctions
<1>7. Written' = Written /\ Ended' = Ended
  BY <1>4 DEF Written, Ended
<1>8. /\ Received[p] \in Nat /\ Received'[p] \in Nat /\ Received'[p] <= Written[p]
      /\ Received[p] <= Received'[p]
  <2>1. stream[Peer(p)].ack <= stream'[Peer(p)].ack
    BY <1>1, <1>2
  <2>2. /\ Received[p] \in Nat /\ Received'[p] \in Nat /\ Received'[p] <= Written'[p]
        /\ Received[p] <= Received'[p]
    BY <1>1, <1>2, <2>1, CursorsMove
  <2> QED BY <1>7, <2>2
<1>9. \A d \in End : d # p => Received'[d] = Received[d]
  <2>1. stream[Peer(e)].ack = stream'[Peer(e)].ack
    BY <1>3
  <2>2. Received[e] = Received'[e]
    BY <1>2, <2>1, CursorsMove
  <2> QED BY <1>1, <2>2
<1>10. /\ Received' = [Received EXCEPT ![p] = Received'[p]]
       /\ Received'[p] = Received[p] => Received' = Received
  <2>1. Received = [d \in End |-> Received[d]] /\ Received' = [d \in End |-> Received'[d]]
    BY CursorFunctions
  <2>2. \A d \in End : d # p => Received'[d] = Received[d]
    BY SMT, <1>9
  <2> HIDE DEF p
  <2>3. Received' = [Received EXCEPT ![p] = Received'[p]]
    BY <1>1, <2>1, <2>2, ChangesAt
  <2>4. ASSUME Received'[p] = Received[p] PROVE Received' = Received
    BY <1>1, <2>1, <2>2, <2>4
  <2> QED BY <2>3, <2>4
<1>11. CASE Received'[p] = Received[p]
  BY <1>6, <1>7, <1>10, <1>11 DEF Abstract!vars
<1>12. CASE Received'[p] # Received[p]
  <2>1. Received'[p] > Received[p]
    BY SMTT(30), <1>8, <1>12
  <2>2. Abstract!Receive(p)
    BY <1>6, <1>7, <1>8, <1>10, <2>1 DEF Abstract!Receive, Abstract!Advances
  <2> QED BY <2>2
<1> QED BY <1>11, <1>12

\* poll_read gives the reader bytes that have arrived, or nothing.
LEMMA ReadIsRead ==
  ASSUME BInv, BInv', SackEnd = {}, NEW e \in End,
         NEW cap \in ReadCaps, MAX_DATA_SIZE <= cap, Read(e, cap)
  PROVE  Abstract!Read(Peer(e)) \/ UNCHANGED Abstract!vars
<1> USE ZenonT(30)
<1> DEFINE p == Peer(e)
<1>1. p \in End /\ p # e /\ Peer(p) = e /\ \A x \in End : x = e \/ x = p
  BY PeerFacts
<1>2. /\ Kept /\ stream'[e].ack = stream[e].ack
      /\ stream'[e].tx_bytes = stream[e].tx_bytes
      /\ stream'[e].remote_acked = stream[e].remote_acked
      /\ stream'[e].error = stream[e].error
      /\ delivered'[e] \in Nat /\ delivered'[e] >= delivered[e]
  BY ReadsStep DEF BInv
<1>3. stream'[p] = stream[p] /\ delivered'[p] = delivered[p] /\ delivered[e] \in Nat
  <2>1. DOMAIN stream = End /\ delivered \in [End -> Nat]
    BY DEF BInv, IInv, EnvironmentOK
  <2>2. stream' = [stream EXCEPT ![e] = PollRead(@, cap)]
    BY DEF Read
  <2>3. \E x : delivered' = [delivered EXCEPT ![e] = x] \/ delivered' = delivered
    BY <2>1 DEF Read
  <2> QED BY <1>1, <2>1, <2>2, <2>3
<1>4. \A d \in End : /\ stream'[d].remote_acked = stream[d].remote_acked
                     /\ stream'[d].error = stream[d].error
                     /\ stream'[d].tx_bytes = stream[d].tx_bytes
                     /\ stream'[d].ack = stream[d].ack
  BY <1>1, <1>2, <1>3
<1>5. \A d \in End : /\ Confirmed'[d] = Confirmed[d] /\ Received'[d] = Received[d]
                     /\ Given[d] = delivered[Peer(d)] /\ Given'[d] = delivered'[Peer(d)]
                     /\ Given'[d] <= Received'[d]
  <2> SUFFICES ASSUME NEW d \in End
               PROVE  /\ Confirmed'[d] = Confirmed[d] /\ Received'[d] = Received[d]
                      /\ Given[d] = delivered[Peer(d)] /\ Given'[d] = delivered'[Peer(d)]
                      /\ Given'[d] <= Received'[d]
    OBVIOUS
  <2>1. Peer(d) \in End
    BY PeerFacts
  <2>2. /\ stream[d].remote_acked = stream'[d].remote_acked
        /\ stream[Peer(d)].ack = stream'[Peer(d)].ack
    BY <1>4, <2>1
  <2> QED BY <1>2, <2>2, CursorsMove
<1>6. Confirmed' = Confirmed /\ Received' = Received
  BY <1>5, CursorFunctions
<1>7. Written' = Written /\ Ended' = Ended
  BY <1>4 DEF Written, Ended
<1>8. /\ Given[p] = delivered[e] /\ Given'[p] = delivered'[e] /\ Given'[p] <= Received[p]
      /\ \A d \in End : d # p => Given'[d] = Given[d]
  BY <1>1, <1>3, <1>5
<1>9. /\ Given' = [Given EXCEPT ![p] = Given'[p]]
      /\ Given'[p] = Given[p] => Given' = Given
  <2>1. Given = [d \in End |-> Given[d]] /\ Given' = [d \in End |-> Given'[d]]
    BY CursorFunctions
  <2>2. \A d \in End : d # p => Given'[d] = Given[d]
    BY <1>8
  <2> HIDE DEF p
  <2>3. Given' = [Given EXCEPT ![p] = Given'[p]]
    BY <1>1, <2>1, <2>2, ChangesAt
  <2>4. ASSUME Given'[p] = Given[p] PROVE Given' = Given
    BY <1>1, <2>1, <2>2, <2>4
  <2> QED BY <2>3, <2>4
<1>10. CASE delivered'[e] = delivered[e]
  BY <1>6, <1>7, <1>8, <1>9, <1>10 DEF Abstract!vars
<1>11. CASE delivered'[e] # delivered[e]
  <2>0. delivered'[e] > delivered[e]
    BY SMTT(30), <1>2, <1>3, <1>11
  <2>1. Given'[p] > Given[p]
    BY <1>8, <2>0
  <2>2. Abstract!Read(p)
    BY <1>6, <1>7, <1>8, <1>9, <2>1 DEF Abstract!Read, Abstract!Advances
  <2> QED BY <2>2
<1> QED BY <1>10, <1>11

\* Any other step confirms bytes, ends the stream, both, or nothing.
LEMMA KeepsIsConfirm ==
  ASSUME BInv, BInv', SackEnd = {}, NEW e \in End, Keeps(e)
  PROVE  Abstract!Confirm(e) \/ Abstract!Fail(e) \/ UNCHANGED Abstract!vars
<1> USE ZenonT(30)
<1> DEFINE p == Peer(e)
<1>1. p \in End /\ p # e /\ Peer(p) = e /\ \A x \in End : x = e \/ x = p
  BY SMT, PeerFacts
<1>2. Kept
  BY KeepsStep DEF BInv
<1>3. stream'[p] = stream[p] /\ \A d \in End : delivered'[d] = delivered[d]
  BY <1>1 DEF Keeps, At, NoRead
<1>4. /\ stream'[e].tx_bytes = stream[e].tx_bytes /\ stream'[e].ack = stream[e].ack
      /\ stream[e].remote_acked <= stream'[e].remote_acked
      /\ stream'[e].error = "none" => stream[e].error = "none"
  BY DEF Keeps, KeepTo, SameReader
<1>5. \A d \in End : /\ stream'[d].tx_bytes = stream[d].tx_bytes
                     /\ stream'[d].ack = stream[d].ack
  BY <1>1, <1>3, <1>4
<1>6. \A d \in End : Received'[d] = Received[d] /\ Given'[d] = Given[d]
  <2> SUFFICES ASSUME NEW d \in End PROVE Received'[d] = Received[d] /\ Given'[d] = Given[d]
    OBVIOUS
  <2>1. Peer(d) \in End
    BY SMT, PeerFacts
  <2>2. /\ stream[Peer(d)].ack = stream'[Peer(d)].ack
        /\ delivered'[Peer(d)] = delivered[Peer(d)]
    BY <1>3, <1>5, <2>1
  <2>3. /\ Given[d] = delivered[Peer(d)] /\ Given'[d] = delivered'[Peer(d)]
        /\ Received[d] = Received'[d]
    BY <1>2, <2>2, CursorsMove
  <2> QED BY <2>2, <2>3
<1>7. Received' = Received /\ Given' = Given /\ Written' = Written
  BY <1>5, <1>6, CursorFunctions DEF Written
<1>8. /\ Confirmed[e] \in Nat /\ Confirmed'[e] \in Nat /\ Confirmed[e] <= Confirmed'[e]
      /\ Confirmed'[e] <= Received'[e]
  BY <1>2, <1>4, CursorsMove
<1>9. \A d \in End : d # e => Confirmed'[d] = Confirmed[d]
  <2>1. stream[p].remote_acked = stream'[p].remote_acked
    BY <1>3
  <2>2. Confirmed[p] = Confirmed'[p]
    BY <1>1, <1>2, <2>1, CursorsMove
  <2> QED BY <1>1, <2>2
<1>10. Confirmed' = [Confirmed EXCEPT ![e] = Confirmed'[e]]
  <2>1. Confirmed = [d \in End |-> Confirmed[d]] /\ Confirmed' = [d \in End |-> Confirmed'[d]]
    BY CursorFunctions
  <2> QED BY <1>9, <2>1, ChangesAt
<1>11. Ended' = Ended \/ Ended' = Ended \cup {e}
  <2>1. \A d \in End : d # e => stream'[d].error = stream[d].error
    BY <1>1, <1>3
  <2> QED BY <1>4, <2>1 DEF Ended
<1>12. CASE Confirmed'[e] # Confirmed[e]
  <2>0. Confirmed'[e] > Confirmed[e]
    BY SMT, <1>8, <1>12
  <2>1. Confirmed'[e] > Confirmed[e] /\ Confirmed'[e] <= Received[e]
    BY <1>7, <1>8, <2>0
  <2>2. Abstract!Confirm(e)
    BY <1>7, <1>10, <1>11, <2>1 DEF Abstract!Confirm, Abstract!Advances
  <2> QED BY <2>2
<1>13. CASE Confirmed'[e] = Confirmed[e]
  <2>1. Confirmed' = Confirmed
    BY <1>9, <1>13, CursorFunctions
  <2>2. CASE Ended' = Ended
    BY <1>7, <2>1, <2>2 DEF Abstract!vars
  <2>3. CASE Ended' = Ended \cup {e}
    <3>1. Abstract!Fail(e)
      BY <1>7, <2>1, <2>3 DEF Abstract!Fail
    <3> QED BY SMT, <3>1
  <2> QED BY <1>11, <2>2, <2>3
<1> QED BY <1>12, <1>13

\* Two new streams are two empty byte streams.
LEMMA InitAbstract == Init => Abstract!Init
<1> USE ZenonT(30)
<1> SUFFICES ASSUME Init PROVE Abstract!Init
  BY SMT
<1>1. /\ \A e \in End : stream[e] = InitialStream /\ delivered[e] = 0 /\ intact[e]
      /\ \A e \in End : Peer(e) \in End
  BY PeerFacts DEF Init
<1>2. /\ InitialStream.error = "none" /\ InitialStream.tx_bytes = 0
      /\ InitialStream.inflight_bytes = 0 /\ DOMAIN InitialStream.incoming = {}
  BY DEF InitialStream, NoPackets
<1>3. ASSUME NEW e \in End PROVE Readable(e) = 0
  <2>1. Run(stream[e]) = {}
    BY <1>1, <1>2 DEF Run
  <2> QED BY <2>1, TotalEmpty DEF Readable
<1>4. Written = [d \in End |-> 0] /\ Confirmed = [d \in End |-> 0]
  BY SMT, <1>1, <1>2 DEF Written, Confirmed
<1>5. Received = [d \in End |-> 0]
  BY SMTT(30), <1>1, <1>3 DEF Received
<1>6. Given = [d \in End |-> 0]
  BY <1>1 DEF Given, Cursor
<1>7. Ended = {}
  BY <1>1, <1>2 DEF Ended
<1> QED BY <1>4, <1>5, <1>6, <1>7 DEF Abstract!Init

\* Two connected streams implement two byte streams: whatever the network
\* does, poll_write, poll_read, the driver, close() and drops together write
\* only to open streams, confirm only what has arrived, and read in order
\* what has arrived.
THEOREM Refinement ==
  ASSUME FullBuffers, SackEnd = {}
  PROVE  Spec => ImplementsByteStream
<1>1. Init => Abstract!Init
  BY InitAbstract
<1>2. BInv /\ BInv' /\ [Next]_vars => [Abstract!Next]_(Abstract!vars)
  <2> SUFFICES ASSUME BInv, BInv', [Next]_vars
               PROVE  Abstract!Next \/ UNCHANGED Abstract!vars
    BY ZenonT(30)
  <2>1. CASE Next
    <3>1. PICK e \in End : \/ Keeps(e) \/ Sends(e) \/ Takes(e)
                          \/ \E cap \in ReadCaps : Read(e, cap)
      BY ZenonT(30), <2>1, NextKind
    <3>2. Peer(e) \in End
      BY ZenonT(30), PeerFacts
    <3>3. CASE Keeps(e)
      BY ZenonT(30), <3>3, KeepsIsConfirm DEF Abstract!Next
    <3>4. CASE Sends(e)
      BY ZenonT(30), <3>4, SendsIsWrite DEF Abstract!Next
    <3>5. CASE Takes(e)
      BY ZenonT(30), <3>2, <3>5, TakesIsReceive DEF Abstract!Next
    <3>6. ASSUME NEW cap \in ReadCaps, Read(e, cap)
          PROVE  Abstract!Next \/ UNCHANGED Abstract!vars
      <4>1. MAX_DATA_SIZE <= cap
        BY ZenonT(30) DEF FullBuffers
      <4> QED BY ZenonT(30), <3>2, <3>6, <4>1, ReadIsRead DEF Abstract!Next
    <3> QED BY ZenonT(30), <3>1, <3>3, <3>4, <3>5, <3>6
  <2>2. CASE UNCHANGED vars
    <3>1. Written' = Written /\ Received' = Received /\ Confirmed' = Confirmed
      BY ZenonT(30), <2>2 DEF vars, Written, Received, Confirmed, Readable
    <3>2. Given' = Given /\ Ended' = Ended
      BY ZenonT(30), <2>2 DEF vars, Given, Ended, Cursor
    <3> QED BY ZenonT(30), <3>1, <3>2 DEF Abstract!vars
  <2> QED BY ZenonT(30), <2>1, <2>2
<1> QED BY <1>1, <1>2, BytesInvariance, PTL DEF Spec, ImplementsByteStream, Abstract!Spec

=============================================================================
