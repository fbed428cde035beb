-------------------------- MODULE UdxDriverProofs --------------------------
(***************************************************************************)
(* Waking, retransmitting and closing (module UdxConn): no wake-up of a    *)
(* driver task is lost, the congestion window is kept, the number of       *)
(* transmissions is bounded, a stream still held is not reset by drops,    *)
(* and close() resolves when the peer has every packet.  For connections   *)
(* of any size on a network that does what it likes.                       *)
(***************************************************************************)
EXTENDS UdxConnProofs

-----------------------------------------------------------------------------
(* The invariant *)

Tries(s) ==
  \A i \in DOMAIN s.outgoing : s.outgoing[i].transmits <= MAX_TRANSMITS + 1

InWindow(s) == s.error = "none" => s.inflight <= s.cwnd + HEADER_SIZE

\* The driver of s sleeps, and may.
Asleep(s, rx) ==
  /\ s.drive_waker /\ rx = {} /\ ~ s.rx_closed /\ s.send_queue = {}
  /\ DOMAIN s.outgoing # {} => s.rto_timeout = "armed"

Drained(s) == s.error # "none" /\ DOMAIN s.outgoing = {}

\* close() is called at most once at an end.
OneCloser == \A c, d \in Closers : c = d

\* The stream s of an end, its receive channel, and what phase, driver,
\* handles and closing are at that end.
EndOK(s, rx, ph, d, h, cl) ==
  /\ Tries(s) /\ InWindow(s)
  /\ d = "running" /\ ph # "incoming" /\ ~ s.scheduled => Asleep(s, rx)
  /\ ph = "writing" => s.error = "none"
  /\ d # "running" => Drained(s)
  /\ \A c \in Closers : cl[c] # "none" => s.error # "none"
  /\ OneCloser => \A c \in Closers : cl[c] = "resolved" => DOMAIN s.outgoing = {}
  /\ /\ s.error = "ConnectionReset" /\ d = "running"
     /\ \A c \in Closers : cl[c] = "none"
     => h = 0

EndInv(e) ==
  EndOK(stream[e], recv_rx[e], phase[e], driver[e], handles[e], closing[e])

EndsOK == \A e \in End : EndInv(e)

-----------------------------------------------------------------------------
(* The methods of a stream *)

\* What is sent and counted stays, and the stream does not come to life.
SameSending(s, t) ==
  /\ t.outgoing = s.outgoing /\ t.inflight = s.inflight /\ t.cwnd = s.cwnd
  /\ t.error = "none" => s.error = "none"

\* A step that leaves the send buffer alone keeps both bounds.
LEMMA SendingKept ==
  ASSUME NEW s, NEW t, SameSending(s, t), Tries(s), InWindow(s)
  PROVE  Tries(t) /\ InWindow(t)
BY ZenonT(30) DEF SameSending, Tries, InWindow

\* drive_waker.wake(): a driver that can be woken is.
LEMMA WakeDriverWakes ==
  ASSUME NEW s, DOMAIN s = StreamFields, s.drive_waker \/ s.scheduled
  PROVE  WakeDriver(s).scheduled
<1>1. CASE s.drive_waker
  BY <1>1 DEF WakeDriver, StreamFields
<1>2. CASE ~ s.drive_waker
  BY <1>2 DEF WakeDriver
<1> QED BY <1>1, <1>2

\* send_state_packet wakes the driver.
LEMMA SendStateWakes ==
  ASSUME NEW s, StreamOK(s), s.drive_waker \/ s.scheduled
  PROVE  SendStatePacket(s).scheduled
<1> DEFINE q == s.send_queue
             \cup {CreatePacket(s, IF s.error # "none" THEN {"END"} ELSE {}, 0, 0)}
           u == [s EXCEPT !.send_queue = q]
<1>1. SendStatePacket(s) = WakeDriver(u)
  BY DEF SendStatePacket
<1>2. DOMAIN s = StreamFields
  BY DEF StreamOK
<1> HIDE DEF q
<1>3. DOMAIN u = StreamFields /\ u.drive_waker = s.drive_waker /\ u.scheduled = s.scheduled
  BY <1>2 DEF StreamFields
<1> HIDE DEF u
<1>4. u.drive_waker \/ u.scheduled
  BY ZenonT(30), <1>3
<1> QED BY ZenonT(30), <1>1, <1>3, <1>4, WakeDriverWakes

\* terminate wakes the driver, and leaves the send buffer to it.
LEMMA TerminateWakes ==
  ASSUME NEW s, StreamOK(s), NEW err \in Errors
  PROVE  /\ s.drive_waker \/ s.scheduled => Terminate(s, err).scheduled
         /\ SameSending(s, Terminate(s, err))
<1> USE ZenonT(30)
<1> DEFINE s0 == [s EXCEPT !.error = err, !.state = CloseLocal(@)]
           s1 == SendStatePacket(s0)
           s2 == [s1 EXCEPT !.read_waker = FALSE, !.write_waker = FALSE]
           t == Terminate(s, err)
<1>1. t = WakeDriver(s2)
  BY SMT DEF Terminate
<1>2. SameSending(s, t)
  <2>1. /\ StreamOK(t) /\ t.error = err
        /\ \A f \in StreamFields \ {"drive_waker", "scheduled", "send_queue", "error",
                                    "state", "read_waker", "write_waker"} : t[f] = s[f]
    BY TerminateFrame
  <2> HIDE DEF t
  <2>2. t.outgoing = s.outgoing /\ t.inflight = s.inflight /\ t.cwnd = s.cwnd
    BY SMT, <2>1 DEF StreamFields
  <2>3. t.error # "none"
    BY SMT, <2>1 DEF Errors
  <2> QED BY <2>2, <2>3 DEF SameSending
<1>3. ASSUME s.drive_waker \/ s.scheduled PROVE t.scheduled
  <2>1. StreamOK(s0) /\ s0.drive_waker = s.drive_waker /\ s0.scheduled = s.scheduled
    <3>1. CloseLocal(s.state) \in StreamStates
      BY SMT DEF CloseLocal, StreamStates
    <3> QED BY <3>1 DEF StreamOK, StreamFields
  <2> HIDE DEF s0
  <2>2. s0.drive_waker \/ s0.scheduled
    BY <1>3, <2>1
  <2>3. s1.scheduled /\ StreamOK(s1)
    BY <2>1, <2>2, SendStateWakes, SendStatePacketFrame
  <2> HIDE DEF s1
  <2>4. DOMAIN s2 = StreamFields /\ s2.scheduled = s1.scheduled
    <3>1. DOMAIN s1 = StreamFields
      BY <2>3 DEF StreamOK
    <3> QED BY <3>1 DEF StreamFields
  <2> HIDE DEF s2
  <2>5. s2.drive_waker \/ s2.scheduled
    BY <2>3, <2>4
  <2> QED BY <1>1, <2>4, <2>5, WakeDriverWakes
<1> QED BY <1>2, <1>3

\* send_data_packet wakes the driver, and adds to the window one packet that
\* fits it but for its header.
LEMMA SendDataWakes ==
  ASSUME NEW s, StreamOK(s), SenderOK(s), s.remote_acked <= s.seq, NEW n \in Nat \ {0},
         ~ WindowFull(s, n), Tries(s)
  PROVE  LET t == SendDataPacket(s, n)
         IN  /\ s.drive_waker \/ s.scheduled => t.scheduled
             /\ Tries(t) /\ t.inflight <= t.cwnd + HEADER_SIZE
             /\ t.error = s.error
<1> DEFINE u == QueueData(s, n)
           t == SendDataPacket(s, n)
           len == ChunkLen(n)
           new == [packet |-> CreatePacket(s, {"DATA"}, s.tx_bytes, len),
                   waiting |-> FALSE, transmits |-> 0]
<1>1. t = WakeDriver(u)
  BY DEF SendDataPacket
<1>2. /\ DOMAIN u = StreamFields /\ u.drive_waker = s.drive_waker
      /\ u.scheduled = s.scheduled /\ u.cwnd = s.cwnd /\ u.error = s.error
      /\ u.inflight = s.inflight + HEADER_SIZE + len
      /\ u.outgoing = Insert(s.outgoing, s.seq, new)
  <2>1. DOMAIN s = StreamFields
    BY DEF StreamOK
  <2> HIDE DEF len
  <2> QED BY ZenonT(30), <2>1 DEF QueueData, StreamFields, len
<1> HIDE DEF u
<1>3. /\ \A f \in StreamFields \ {"drive_waker", "scheduled"} : t[f] = u[f]
  <2>1. DOMAIN u = StreamFields
    BY ZenonT(30), <1>2
  <2>2. \A f \in StreamFields \ {"drive_waker", "scheduled"} : WakeDriver(u)[f] = u[f]
    BY ZenonT(30), <2>1, WakeDriverFrame
  <2> HIDE DEF t
  <2> QED BY ZenonT(30), <1>1, <2>2
<1>4. s.drive_waker \/ s.scheduled => t.scheduled
  BY ZenonT(30), <1>1, <1>2, WakeDriverWakes
<1> HIDE DEF t
<1>5. t.cwnd = s.cwnd /\ t.error = s.error /\ t.inflight = u.inflight /\ t.outgoing = u.outgoing
  BY ZenonT(30), <1>2, <1>3 DEF StreamFields
<1>6. t.inflight <= t.cwnd + HEADER_SIZE
  <2>1. s.inflight \in Nat /\ s.cwnd \in Nat /\ len \in Nat /\ HEADER_SIZE \in Nat
    BY ZenonT(30), ChunkLenType, ConstantsAssumption DEF StreamOK
  <2>2. ~ (s.inflight + len > s.cwnd)
    BY DEF WindowFull
  <2> HIDE DEF len
  <2> QED BY <1>2, <1>5, <2>1, <2>2
<1>7. Tries(t)
  <2>1. ASSUME NEW i \in DOMAIN t.outgoing
        PROVE  t.outgoing[i].transmits <= MAX_TRANSMITS + 1
    <3>1. CASE i = s.seq
      <4>1. t.outgoing[i] = new
        BY ZenonT(30), <1>2, <1>5, <2>1, <3>1 DEF Insert
      <4>2. t.outgoing[i].transmits = 0
        BY <4>1
      <4> QED BY <4>2, ConstantsAssumption
    <3>2. CASE i # s.seq
      <4>1. i \in DOMAIN s.outgoing /\ t.outgoing[i] = s.outgoing[i]
        <5> HIDE DEF new
        <5> QED BY ZenonT(30), <1>2, <1>5, <2>1, <3>2 DEF Insert
      <4> QED BY <4>1 DEF Tries
    <3> QED BY <3>1, <3>2
  <2> QED BY <2>1 DEF Tries
<1> QED BY ZenonT(30), <1>4, <1>5, <1>6, <1>7 DEF t

\* Acknowledging packets only takes bytes out of flight.
LEMMA AckLowers ==
  ASSUME NEW s, StreamOK(s), NEW S, S \subseteq DOMAIN s.outgoing, NEW t, StreamOK(t),
         t = AckPackets(s, S)
  PROVE  t.inflight <= s.inflight
<1> DEFINE T == Total(S \cap NotWaiting(s), PacketLen(s.outgoing))
<1>1. T \in Nat
  <2>1. IsFiniteSet(S \cap NotWaiting(s))
    BY FiniteBuffer, FS_Subset
  <2> QED BY <2>1, BytesFinite
<1>2. t.inflight = s.inflight - T
  <2>1. DOMAIN s = StreamFields
    BY ZenonT(30) DEF StreamOK
  <2> QED BY ZenonT(30), <2>1 DEF AckPackets, StreamFields
<1> HIDE DEF T
<1>3. s.inflight \in Nat
  BY ZenonT(30) DEF StreamOK
<1> QED BY <1>1, <1>2, <1>3

\* The congestion window grows with acks.
LEMMA GrowWindowRaises ==
  ASSUME NEW s, StreamOK(s), NEW ack \in Nat
  PROVE  s.cwnd <= GrowWindow(s, ack).cwnd
<1> DEFINE x == (MTU * MTU) \div s.cwnd
           d == IF s.cwnd < SSTHRESH THEN MTU ELSE Larger(x, 1)
<1>1. s.cwnd \in Nat \ {0} /\ DOMAIN s = StreamFields
  BY ZenonT(30) DEF StreamOK
<1>2. MTU \in Nat
  BY ConstantsAssumption DEF MTU
<1>3. d \in Nat
  <2>1. MTU * MTU \in Nat
    BY <1>2
  <2>2. x \in Int
    <3> DEFINE y == MTU * MTU
    <3>1. y \in Nat
      BY <2>1
    <3> HIDE DEF y
    <3>2. y \div s.cwnd \in Int
      BY <1>1, <3>1
    <3> QED BY <3>2 DEF y
  <2> HIDE DEF x
  <2> QED BY <1>2, <2>2 DEF Larger
<1>4. GrowWindow(s, ack) = s \/ GrowWindow(s, ack).cwnd = s.cwnd + d
  BY ZenonT(30), <1>1 DEF GrowWindow, StreamFields
<1> HIDE DEF d
<1> QED BY <1>1, <1>3, <1>4

\* handle_incoming takes bytes out of flight, raises the window, and ends the
\* stream only for a packet of type END.
LEMMA HandleIncomingBounds ==
  ASSUME NEW s, StreamOK(s), SenderOK(s), WindowIntact(s), NEW p \in Packet
  PROVE  LET t == HandleIncoming(s, p)
         IN  /\ t.inflight <= s.inflight /\ s.cwnd <= t.cwnd
             /\ t.error = s.error \/ t.error = "UnexpectedEof"
<1> USE ZenonT(30)
<1> DEFINE s1 == IF "SACK" \in p.typ THEN HandleIncomingSacks(s, p) ELSE s
           r == [s1 EXCEPT !.state = CloseRemote(@)]
           s2 == IF "END" \in p.typ THEN Terminate(r, "UnexpectedEof") ELSE s1
           s3 == IF "DATA" \in p.typ THEN ReceiveData(s2, p) ELSE s2
           t == HandleIncoming(s, p)
<1>0. s.inflight \in Nat /\ s.cwnd \in Nat
  BY DEF StreamOK
<1>1. t = GrowWindow(s3, p.ack)
  BY SMT DEF HandleIncoming
<1>2. /\ StreamOK(s1) /\ s1.inflight <= s.inflight /\ s1.inflight \in Nat
      /\ \A f \in StreamFields \ {"outgoing", "inflight", "inflight_bytes",
                                  "inflight_packets"} : s1[f] = s[f]
  <2>1. CASE "SACK" \in p.typ
    <3> DEFINE S == {i \in DOMAIN s.outgoing : \E k \in 1 .. (Len(p.sacks) - 1) :
                        p.sacks[k][1] <= i /\ i < p.sacks[k][2]}
    <3>1. s1 = AckPackets(s, S) /\ s1 = HandleIncomingSacks(s, p)
      BY <2>1 DEF HandleIncomingSacks
    <3> HIDE DEF s1
    <3>2. /\ StreamOK(s1)
          /\ \A f \in StreamFields \ {"outgoing", "inflight", "inflight_bytes",
                                      "inflight_packets"} : s1[f] = s[f]
      <4>1. s1 = HandleIncomingSacks(s, p)
        BY <3>1
      <4> QED BY <4>1, HandleIncomingSacksFrame
    <3>3. s1.inflight <= s.inflight
      <4>1. S \subseteq DOMAIN s.outgoing
        BY SMT
      <4> HIDE DEF S
      <4> QED BY <3>1, <3>2, <4>1, AckLowers
    <3> QED BY <3>2, <3>3 DEF StreamOK
  <2>2. CASE "SACK" \notin p.typ
    <3>1. s1 = s
      BY SMT, <2>2
    <3> HIDE DEF s1
    <3> QED BY SMT, <1>0, <3>1
  <2> QED BY <2>1, <2>2
<1> HIDE DEF s1
<1>3. s1.ack = s.ack /\ s1.incoming = s.incoming /\ s1.read_cursor = s.read_cursor
      /\ s1.cwnd = s.cwnd /\ s1.error = s.error
  BY SMT, <1>2 DEF StreamFields
<1>4. StreamOK(r) /\ \A f \in StreamFields \ {"state"} : r[f] = s1[f]
  <2>1. CloseRemote(s1.state) \in StreamStates
    BY SMT DEF CloseRemote, StreamStates
  <2> QED BY <1>2, <2>1 DEF StreamOK, StreamFields
<1> HIDE DEF r
<1>5. /\ StreamOK(s2) /\ s2.inflight = s1.inflight /\ s2.cwnd = s1.cwnd
      /\ s2.ack = s1.ack /\ s2.incoming = s1.incoming /\ s2.read_cursor = s1.read_cursor
      /\ s2.error = s1.error \/ s2.error = "UnexpectedEof"
  <2>1. CASE "END" \in p.typ
    <3>1. PICK err \in Errors : err = "UnexpectedEof"
      BY SMT DEF Errors
    <3>2. s2 = Terminate(r, err)
      BY <2>1, <3>1
    <3> HIDE DEF s2
    <3>3. /\ StreamOK(s2) /\ s2.error = err
          /\ \A f \in StreamFields \ {"drive_waker", "scheduled", "send_queue", "error",
                                      "state", "read_waker", "write_waker"} : s2[f] = r[f]
      <4>1. StreamOK(Terminate(r, err)) /\ Terminate(r, err).error = err
        BY <1>4, TerminateFrame
      <4>2. \A f \in StreamFields \ {"drive_waker", "scheduled", "send_queue", "error",
                                      "state", "read_waker", "write_waker"} :
               Terminate(r, err)[f] = r[f]
        BY <1>4, TerminateFrame
      <4> QED BY <3>2, <4>1, <4>2
    <3>4. \A f \in {"inflight", "cwnd", "ack", "incoming", "read_cursor"} : s2[f] = s1[f]
      BY <1>4, <3>3 DEF StreamFields
    <3> QED BY SMT, <3>1, <3>3, <3>4
  <2>2. CASE "END" \notin p.typ
    <3>1. s2 = s1
      BY SMT, <2>2
    <3> HIDE DEF s2
    <3> QED BY SMT, <1>2, <3>1
  <2> QED BY <2>1, <2>2
<1> HIDE DEF s2
<1>6. /\ StreamOK(s3) /\ s3.inflight = s2.inflight /\ s3.cwnd = s2.cwnd
      /\ s3.error = s2.error
  <2>1. CASE "DATA" \in p.typ
    <3>1. WindowIntact(s2)
      <4>1. s2.incoming = s.incoming /\ s2.ack = s.ack /\ s2.read_cursor = s.read_cursor
        BY <1>3, <1>5
      <4> QED BY <4>1, SameWindow
    <3>2. s3 = ReceiveData(s2, p)
      BY SMT, <2>1
    <3> HIDE DEF s3
    <3>3. /\ StreamOK(s3)
          /\ \A f \in StreamFields \ {"incoming", "ack", "read_waker", "drive_waker",
                                      "scheduled", "send_queue"} : s3[f] = s2[f]
      <4>1. StreamOK(s2)
        BY <1>5
      <4> DEFINE u == ReceiveData(s2, p)
      <4>2. /\ StreamOK(u)
            /\ \A f \in StreamFields \ {"incoming", "ack", "read_waker", "drive_waker",
                                        "scheduled", "send_queue"} : u[f] = s2[f]
        BY <3>1, <4>1, ReceiveDataFrame
      <4> HIDE DEF u
      <4> QED BY <3>2, <4>2 DEF u
    <3> QED BY SMT, <3>3 DEF StreamFields
  <2>2. CASE "DATA" \notin p.typ
    <3>1. s3 = s2
      BY SMT, <2>2
    <3> HIDE DEF s3
    <3> QED BY SMT, <1>5, <3>1
  <2> QED BY <2>1, <2>2
<1> HIDE DEF s3
<1>7. p.ack \in Nat
  BY SMT DEF Packet
<1>8. /\ s3.cwnd <= t.cwnd
      /\ \A f \in StreamFields \ {"cwnd"} : t[f] = s3[f]
  BY <1>1, <1>6, <1>7, GrowWindowFrame, GrowWindowRaises
<1> HIDE DEF t
<1>9. t.inflight = s3.inflight /\ t.error = s3.error
  BY SMT, <1>8 DEF StreamFields
<1>10. t.inflight <= s.inflight /\ s.cwnd <= t.cwnd
  BY <1>2, <1>3, <1>5, <1>6, <1>8, <1>9
<1> QED BY <1>3, <1>5, <1>6, <1>9, <1>10 DEF t

\* handle_incoming_max_remote_ack takes bytes out of flight.
LEMMA MaxRemoteAckBounds ==
  ASSUME NEW s, StreamOK(s), SenderOK(s), NEW ack \in Nat, Tries(s), InWindow(s)
  PROVE  LET t == HandleIncomingMaxRemoteAck(s, ack)
         IN  Tries(t) /\ InWindow(t) /\ t.error = s.error
<1> USE ZenonT(30)
<1> DEFINE t == HandleIncomingMaxRemoteAck(s, ack)
           S == {i \in DOMAIN s.outgoing : s.remote_acked <= i /\ i < ack}
           u == AckPackets(s, S)
<1>1. /\ StreamOK(t) /\ DOMAIN t.outgoing \subseteq DOMAIN s.outgoing
      /\ \A i \in DOMAIN t.outgoing : t.outgoing[i] = s.outgoing[i]
      /\ \A f \in StreamFields \ {"outgoing", "inflight", "inflight_bytes",
            "inflight_packets", "remote_acked", "write_waker", "rto_timeout"} : t[f] = s[f]
  BY MaxRemoteAckFrame
<1>2. t = s \/ t.inflight = u.inflight
  <2>1. CASE ack <= s.remote_acked
    BY SMT, <2>1 DEF HandleIncomingMaxRemoteAck
  <2>2. CASE ~ (ack <= s.remote_acked)
    <3>1. DOMAIN u = StreamFields
      BY LeqTrans, AckPacketsFrame DEF StreamOK
    <3>2. t = [u EXCEPT !.remote_acked = ack,
                        !.write_waker = @ /\ u.inflight + MTU > u.cwnd,
                        !.rto_timeout = "armed"]
      BY <2>2 DEF HandleIncomingMaxRemoteAck
    <3> HIDE DEF u, t
    <3> QED BY <3>1, <3>2 DEF StreamFields
  <2> QED BY <2>1, <2>2
<1>3. u.inflight <= s.inflight /\ u.inflight \in Nat
  <2>1. S \subseteq DOMAIN s.outgoing
    BY SMT
  <2> HIDE DEF S
  <2>2. StreamOK(u)
    BY <2>1, AckPacketsFrame
  <2>3. u.inflight <= s.inflight
    BY <2>1, <2>2, AckLowers
  <2> HIDE DEF u
  <2> QED BY <2>2, <2>3 DEF StreamOK
<1> HIDE DEF t, u
<1>4. t.cwnd = s.cwnd /\ t.error = s.error
  BY SMT, <1>1 DEF StreamFields
<1>5. s.inflight \in Nat /\ s.cwnd \in Nat /\ HEADER_SIZE \in Nat
  BY ConstantsAssumption DEF StreamOK
<1>6. t.inflight <= s.inflight
  BY SMT, <1>2, <1>3, <1>5
<1>7. t.inflight \in Nat
  BY <1>1 DEF StreamOK
<1>8. InWindow(t)
  BY SMT, <1>4, <1>5, <1>6, <1>7 DEF InWindow
<1>9. Tries(t)
  BY <1>1 DEF Tries
<1> QED BY <1>4, <1>8, <1>9 DEF t

\* poll_check_timeouts: a packet that may be sent again has been counted less
\* than MAX_TRANSMITS + 1 times; unless the stream gives up nothing is left
\* in flight; and the timer runs again while packets are unacknowledged.
LEMMA CheckBounds ==
  ASSUME NEW s, StreamOK(s), SenderOK(s), Tries(s), InWindow(s)
  PROVE  LET t == PollCheckTimeouts(s)
         IN  /\ Tries(t)
             /\ ~ TimesOut(s) => InWindow(t)
             /\ DOMAIN t.outgoing # {} => t.rto_timeout = "armed"
<1> USE ZenonT(30)
<1> DEFINE t == PollCheckTimeouts(s)
           T == Total(Lost(s), PacketLen(s.outgoing))
           w == Larger(MTU, s.cwnd \div 2)
           out == [i \in DOMAIN s.outgoing |->
                     IF i \in Lost(s)
                     THEN [packet |-> s.outgoing[i].packet, waiting |-> TRUE,
                           transmits |-> s.outgoing[i].transmits + 1]
                     ELSE s.outgoing[i]]
<1>0. s.inflight \in Nat /\ HEADER_SIZE \in Nat /\ DOMAIN s = StreamFields
      /\ s.rto_timeout \in {"armed", "elapsed"}
  BY ConstantsAssumption DEF StreamOK
<1>1. CASE ~ RtoFires(s)
  <2>1. t = s
    BY SMT, <1>1 DEF PollCheckTimeouts
  <2> HIDE DEF t
  <2>2. ASSUME DOMAIN s.outgoing # {} PROVE s.rto_timeout = "armed"
    <3>1. PICK i \in DOMAIN s.outgoing : TRUE
      BY SMT, <2>2
    <3>2. s.remote_acked <= i /\ i < s.seq
      BY DEF SenderOK
    <3>3. i \in Nat /\ s.seq \in Nat /\ s.remote_acked \in Nat
      BY DEF StreamOK, IsMapTo
    <3>4. s.remote_acked # s.seq
      BY SMT, <3>2, <3>3
    <3> QED BY <1>0, <1>1, <3>4 DEF RtoFires
  <2> QED BY SMT, <2>1, <2>2 DEF t
<1>2. CASE RtoFires(s)
  <2>1. t = [s EXCEPT !.rto_timeout = "armed", !.cwnd = w, !.outgoing = out, !.inflight = @ - T]
    BY <1>2 DEF PollCheckTimeouts
  <2> HIDE DEF out, w, T
  <2>2. /\ t.rto_timeout = "armed" /\ t.cwnd = w /\ t.outgoing = out
        /\ t.inflight = s.inflight - T /\ t.error = s.error
    <3> HIDE DEF t
    <3> QED BY <1>0, <2>1 DEF StreamFields
  <2> HIDE DEF t
  <2>3. Tries(t)
    <3>1. ASSUME NEW i \in DOMAIN out PROVE out[i].transmits <= MAX_TRANSMITS + 1
      <4>1. i \in DOMAIN s.outgoing /\ i \in Nat /\ s.outgoing[i].transmits \in Nat
        BY DEF out, StreamOK, IsMapTo, OutgoingPacket
      <4>2. CASE i \in Lost(s)
        <5>1. ~ (s.outgoing[i].transmits > MAX_TRANSMITS)
          BY SMT, <4>1, <4>2 DEF Lost, Exhausted
        <5>2. out[i].transmits = s.outgoing[i].transmits + 1
          BY <4>1, <4>2 DEF out
        <5> QED BY SMT, <4>1, <5>1, <5>2, ConstantsAssumption
      <4>3. CASE i \notin Lost(s)
        BY <4>1, <4>3 DEF out, Tries
      <4> QED BY <4>2, <4>3
    <3> QED BY <2>2, <3>1 DEF Tries
  <2>4. ASSUME ~ TimesOut(s) PROVE InWindow(t)
    <3>1. Lost(s) = NotWaiting(s)
      <4>1. Exhausted(s) = {}
        BY SMT, <1>2, <2>4 DEF TimesOut
      <4>2. Unacked(s) = DOMAIN s.outgoing
        BY DEF Unacked, SenderOK
      <4> QED BY <4>1, <4>2 DEF Lost, NotWaiting
    <3>2. T = s.inflight
      BY <3>1 DEF T, SenderOK, CountersExact
    <3>3. t.inflight = 0
      BY SMT, <1>0, <2>2, <3>2
    <3>4. w \in Nat
      <4>1. s.cwnd \in Nat /\ MTU \in Nat
        BY SMT, ConstantsAssumption DEF StreamOK, MTU
      <4>2. s.cwnd \div 2 \in Nat
        BY SMT, <4>1
      <4> QED BY <4>1, <4>2 DEF w, Larger
    <3> QED BY SMT, <1>0, <2>2, <3>3, <3>4 DEF InWindow
  <2> QED BY <2>2, <2>3, <2>4 DEF t
<1> QED BY <1>1, <1>2

\* A non-empty finite set of numbers has a greatest element.
LEMMA GreatestElement ==
  ASSUME NEW D, D \subseteq Nat, D # {}, NEW b \in Nat, \A x \in D : x < b
  PROVE  \E m \in D : \A x \in D : x <= m
<1>0. \E x \in Nat : x \in D
  <2>1. \E x : x \in D
    BY ZenonT(30)
  <2> QED BY <2>1
<1> DEFINE B == {n \in Nat : \A x \in D : x < n}
<1>1. PICK n \in B : \A y \in B : n <= y
  <2>1. B \subseteq Nat /\ B # {}
    OBVIOUS
  <2> HIDE DEF B
  <2> QED BY ZenonT(30), <2>1, LeastElement
<1>2. PICK m \in D : m >= n - 1
  <2> SUFFICES ASSUME \A m \in D : ~ (m >= n - 1) PROVE FALSE
    OBVIOUS
  <2>1. n \in Nat /\ n # 0
    <3>1. n \in Nat /\ \A x \in D : x < n
      BY <1>1
    <3> QED BY <1>0, <3>1
  <2>2. n - 1 \in B
    BY <2>1
  <2> QED BY <1>1, <2>1, <2>2
<1> QED BY <1>1, <1>2

\* flush_waiting_packets sends again what fits the window.
LEMMA FlushBounds ==
  ASSUME NEW s, StreamOK(s), SenderOK(s), Tries(s), InWindow(s)
  PROVE  LET t == FlushWaitingPackets(s)
         IN  Tries(t) /\ InWindow(t)
<1> USE ZenonT(30)
<1> DEFINE t == FlushWaitingPackets(s)
           flushed == Flushable(s)
           W == Unacked(s) \ NotWaiting(s)
           size == PacketLen(s.outgoing)
           T == Total(flushed, size)
           out == [i \in DOMAIN s.outgoing |->
                     IF i \in flushed THEN [s.outgoing[i] EXCEPT !.waiting = FALSE]
                     ELSE s.outgoing[i]]
           q == s.send_queue \cup {s.outgoing[i].packet : i \in flushed}
<1>0. s.inflight \in Nat /\ HEADER_SIZE \in Nat /\ DOMAIN s = StreamFields /\ s.cwnd \in Nat
  BY ConstantsAssumption DEF StreamOK
<1>1. t = [s EXCEPT !.outgoing = out, !.inflight = @ + T, !.send_queue = q]
  BY DEF FlushWaitingPackets
<1>2. flushed = {i \in W : s.inflight + Total({j \in W : j <= i}, size) <= s.cwnd}
  BY DEF Flushable
<1>3. W \subseteq DOMAIN s.outgoing /\ W \subseteq Nat /\ IsFiniteSet(W)
  <2>1. DOMAIN s.outgoing \subseteq Nat /\ IsFiniteSet(DOMAIN s.outgoing)
    BY DEF StreamOK, IsMapTo
  <2>2. W \subseteq DOMAIN s.outgoing
    BY DEF Unacked
  <2> QED BY <2>1, <2>2, FS_Subset
<1> HIDE DEF out, q, T, flushed
<1>4. t.outgoing = out /\ t.inflight = s.inflight + T /\ t.cwnd = s.cwnd /\ t.error = s.error
  <2> HIDE DEF t
  <2> QED BY <1>0, <1>1 DEF StreamFields
<1> HIDE DEF t
<1>5. Tries(t)
  <2>1. ASSUME NEW i \in DOMAIN out PROVE out[i].transmits <= MAX_TRANSMITS + 1
    <3>1. i \in DOMAIN s.outgoing /\ s.outgoing[i] \in OutgoingPacket
      BY DEF out, StreamOK, IsMapTo
    <3>2. out[i].transmits = s.outgoing[i].transmits
      BY SMT, <3>1 DEF out, OutgoingPacket
    <3> QED BY <3>1, <3>2 DEF Tries
  <2> QED BY <1>4, <2>1 DEF Tries
<1>6. T \in Nat /\ (s.inflight + T <= s.cwnd \/ T = 0)
  <2>1. CASE flushed = {}
    <3>1. T = Cardinality({})
      BY SMT, <2>1 DEF T, Total, Bytes
    <3> QED BY SMT, <3>1, FS_EmptySet
  <2>2. CASE flushed # {}
    <3> HIDE DEF W
    <3>1. flushed \subseteq W
      BY <1>2
    <3>2. \A x \in flushed : x < s.seq
      BY <1>3, <3>1 DEF SenderOK
    <3>3. s.seq \in Nat /\ flushed \subseteq Nat
      BY <1>3, <3>1 DEF StreamOK
    <3>4. PICK m \in flushed : \A x \in flushed : x <= m
      BY <2>2, <3>2, <3>3, GreatestElement
    <3> DEFINE U == {j \in W : j <= m}
    <3>5. s.inflight + Total(U, size) <= s.cwnd
      BY <1>2
    <3>6. flushed \subseteq U
      BY SMT, <3>1, <3>4
    <3>7. IsFiniteSet(U)
      BY <1>3, FS_Subset
    <3> HIDE DEF U, size
    <3>8. T \in Nat /\ T <= Total(U, size) /\ Total(U, size) \in Nat
      BY <3>6, <3>7, TotalRemove, BytesFinite DEF T
    <3> QED BY SMT, <1>0, <3>5, <3>8
  <2> QED BY SMT, <2>1, <2>2
<1>7. InWindow(t)
  <2>1. ASSUME s.error = "none" PROVE t.inflight <= t.cwnd + HEADER_SIZE
    <3>1. s.inflight <= s.cwnd + HEADER_SIZE
      BY SMT, <2>1 DEF InWindow
    <3> QED BY SMT, <1>0, <1>4, <1>6, <3>1
  <2> QED BY <1>4, <2>1 DEF InWindow
<1> QED BY <1>5, <1>7 DEF t

-----------------------------------------------------------------------------
(* Kinds of steps at one end *)

\* A step leaves the ends other than e alone.
Local(e) ==
  \A x \in End \ {e} :
     /\ stream'[x] = stream[x] /\ recv_rx'[x] = recv_rx[x] /\ phase'[x] = phase[x]
     /\ driver'[x] = driver[x] /\ handles'[x] = handles[x] /\ closing'[x] = closing[x]

\* A step of one end need only be looked at there.
LEMMA OneEnd ==
  ASSUME EndsOK, NEW e \in End, Local(e),
         EndOK(stream'[e], recv_rx'[e], phase'[e], driver'[e], handles'[e], closing'[e])
  PROVE  EndsOK'
<1> USE ZenonT(30)
<1>1. ASSUME NEW x \in End PROVE EndInv(x)'
  <2>1. CASE x = e
    BY <2>1 DEF EndInv
  <2>2. CASE x # e
    BY <2>2 DEF EndInv, EndsOK, Local
  <2> QED BY <2>1, <2>2
<1> QED BY <1>1 DEF EndsOK

\* A driver that is not being polled can be woken, or has been.
LEMMA Wakeable ==
  ASSUME NEW s, NEW rx, NEW ph, NEW h, NEW cl, EndOK(s, rx, ph, "running", h, cl),
         ph # "incoming"
  PROVE  s.drive_waker \/ s.scheduled
BY ZenonT(30) DEF EndOK, Asleep

\* A step that sends nothing and ends nothing: the driver's sleep is the only
\* thing to show.
LEMMA QuietEnd ==
  ASSUME NEW s, NEW t, NEW rx, NEW rx2, NEW ph, NEW ph2, NEW d, NEW h, NEW cl,
         EndOK(s, rx, ph, d, h, cl), SameSending(s, t), t.error = s.error,
         ph2 = "writing" => ph = "writing",
         d = "running" /\ ph2 # "incoming" /\ ~ t.scheduled => Asleep(t, rx2)
  PROVE  EndOK(t, rx2, ph2, d, h, cl)
<1> USE ZenonT(30)
<1>1. Tries(t) /\ InWindow(t)
  BY SendingKept DEF EndOK
<1>2. t.outgoing = s.outgoing
  BY DEF SameSending
<1> QED BY <1>1, <1>2 DEF EndOK, Drained

\* A step that terminates the stream s, which the driver then must know of.
LEMMA TerminateEnd ==
  ASSUME NEW s, StreamOK(s), NEW err \in Errors, NEW t,
         \A f \in StreamFields \ {"on_close", "scheduled"} : t[f] = Terminate(s, err)[f],
         NEW rx, NEW ph, NEW d, NEW h, NEW cl, Tries(s), ph # "writing",
         d = "running" => t.scheduled,
         d # "running" => DOMAIN s.outgoing = {},
         OneCloser => \A c \in Closers : cl[c] = "resolved" => DOMAIN s.outgoing = {},
         err = "ConnectionReset" /\ d = "running" /\ (\A c \in Closers : cl[c] = "none")
           => h = 0
  PROVE  EndOK(t, rx, ph, d, h, cl)
<1> USE ZenonT(30)
<1> DEFINE u == Terminate(s, err)
<1>1. SameSending(s, u) /\ u.error = err
  BY TerminateWakes, TerminateFrame
<1> HIDE DEF u
<1>2. t.outgoing = u.outgoing /\ t.error = u.error
  BY DEF StreamFields, u
<1>3. t.outgoing = s.outgoing /\ t.error = err
  BY <1>1, <1>2 DEF SameSending
<1>4. t.error # "none"
  BY <1>3 DEF Errors
<1>5. Tries(t) /\ InWindow(t)
  BY <1>3, <1>4 DEF Tries, InWindow
<1> QED BY <1>3, <1>4, <1>5 DEF EndOK, Drained

\* The futures of the calls C are resolved.
Resolved(cl, cl2, C) ==
  cl2 = [c \in Closers |-> IF c \in C THEN "resolved" ELSE cl[c]]

\* A step that resolves futures of close(), once the stream is drained.
LEMMA ResolveEnd ==
  ASSUME NEW s, NEW t, NEW rx, NEW ph, NEW d, NEW d2, NEW h, NEW C,
         NEW cl \in [Closers -> {"none", "pending", "resolved"}], NEW cl2,
         Resolved(cl, cl2, C), EndOK(s, rx, ph, d, h, cl),
         SameSending(s, t), t.error = s.error,
         d2 = "running" => d = "running" /\ t = s,
         d2 # "running" \/ C # {} => Drained(s)
  PROVE  EndOK(t, rx, ph, d2, h, cl2)
<1> USE ZenonT(30)
<1>1. Tries(t) /\ InWindow(t)
  BY SendingKept DEF EndOK
<1>2. t.outgoing = s.outgoing
  BY DEF SameSending
<1>3. \A c \in Closers : cl2[c] = "none" => cl[c] = "none"
  BY DEF Resolved
<1>4. \A c \in Closers : cl2[c] = cl[c] \/ c \in C
  BY DEF Resolved
<1>5. \A c \in Closers : cl2[c] # "none" => t.error # "none"
  BY <1>4 DEF EndOK, Drained
<1>6. OneCloser => \A c \in Closers : cl2[c] = "resolved" => DOMAIN t.outgoing = {}
  BY <1>2, <1>4 DEF EndOK, Drained
<1>7. d2 # "running" => Drained(t)
  BY <1>2 DEF Drained
<1>8. d2 = "running" /\ ph # "incoming" /\ ~ t.scheduled => Asleep(t, rx)
  BY DEF EndOK
<1>9. /\ t.error = "ConnectionReset" /\ d2 = "running"
      /\ \A c \in Closers : cl2[c] = "none"
      => h = 0
  BY <1>3 DEF EndOK
<1>10. ph = "writing" => t.error = "none"
  BY DEF EndOK
<1> QED BY <1>1, <1>5, <1>6, <1>7, <1>8, <1>9, <1>10 DEF EndOK

-----------------------------------------------------------------------------
(* The actions *)

\* What the invariant of UdxConnProofs says of one end.
LEMMA EndFacts ==
  ASSUME IInv, NEW e \in End
  PROVE  /\ StreamOK(stream[e]) /\ SenderOK(stream[e]) /\ WindowIntact(stream[e])
         /\ stream[e].remote_acked <= stream[e].seq
         /\ closing[e] \in [Closers -> {"none", "pending", "resolved"}]
         /\ handles[e] \in Nat /\ dropping[e] \in Nat /\ remote_ack[e] \in Nat
<1> USE ZenonT(30)
<1> DEFINE s == stream[e]
           r == stream[Peer(e)]
<1>1. /\ StreamOK(s) /\ StreamOK(r) /\ SideOK(s, r, net[Peer(e)], remote_ack[e])
      /\ closing[e] \in [Closers -> {"none", "pending", "resolved"}]
      /\ handles[e] \in Nat /\ dropping[e] \in Nat /\ remote_ack[e] \in Nat
  BY PeerFacts DEF IInv, EnvironmentOK
<1>2. SenderOK(s) /\ WindowIntact(s) /\ s.remote_acked <= r.ack /\ r.ack <= s.seq
  BY <1>1 DEF SideOK
<1>3. s.remote_acked \in Nat /\ r.ack \in Nat /\ s.seq \in Nat
  BY <1>1 DEF StreamOK
<1>4. s.remote_acked <= s.seq
  BY LeqTrans, <1>2, <1>3
<1> QED BY <1>1, <1>2, <1>4

\* What changes the stream and the phase of one end is local to it.
LEMMA StreamLocal ==
  ASSUME IInv, NEW e \in End, NEW t, stream' = [stream EXCEPT ![e] = t], NEW ph,
         phase' = [phase EXCEPT ![e] = ph] \/ (phase' = phase /\ ph = phase[e]),
         driver' = driver, handles' = handles, closing' = closing,
         \A x \in End \ {e} : recv_rx'[x] = recv_rx[x]
  PROVE  /\ Local(e) /\ stream'[e] = t /\ phase'[e] = ph
         /\ driver'[e] = driver[e] /\ handles'[e] = handles[e] /\ closing'[e] = closing[e]
<1> USE ZenonT(30)
<1>1. DOMAIN stream = End /\ phase \in [End -> {"idle", "incoming", "writing"}]
  BY DEF IInv, EnvironmentOK
<1>2. stream'[e] = t /\ \A x \in End \ {e} : stream'[x] = stream[x]
  BY <1>1
<1>3. phase'[e] = ph /\ \A x \in End \ {e} : phase'[x] = phase[x]
  BY <1>1
<1> QED BY <1>2, <1>3 DEF Local

\* poll_write: one more iteration.
LEMMA WriteChunkEnds ==
  ASSUME IInv, EndsOK, NEW e \in End, NEW n \in Nat \ {0}, NEW first \in BOOLEAN,
         WriteChunk(e, n, first), stream[e].error = "none", phase[e] # "incoming",
         recv_rx' = recv_rx, driver' = driver, handles' = handles, closing' = closing
  PROVE  EndsOK'
<1> USE ZenonT(30)
<1> DEFINE s == stream[e]
<1>1. EndOK(s, recv_rx[e], phase[e], driver[e], handles[e], closing[e])
  BY DEF EndsOK, EndInv
<1>2. /\ StreamOK(s) /\ SenderOK(s) /\ s.remote_acked <= s.seq
  BY EndFacts
<1>3. CASE WindowFull(s, n)
  <2> DEFINE t == [s EXCEPT !.write_waker = @ \/ first]
  <2>1. stream' = [stream EXCEPT ![e] = t] /\ phase' = [phase EXCEPT ![e] = "idle"]
    BY SMT, <1>3 DEF WriteChunk
  <2>2. \A f \in StreamFields \ {"write_waker"} : t[f] = s[f]
    BY <1>2 DEF StreamOK, StreamFields
  <2> HIDE DEF t
  <2>3. /\ Local(e) /\ stream'[e] = t /\ phase'[e] = "idle" /\ recv_rx'[e] = recv_rx[e]
        /\ driver'[e] = driver[e] /\ handles'[e] = handles[e] /\ closing'[e] = closing[e]
    BY <2>1, StreamLocal
  <2>4. /\ t.outgoing = s.outgoing /\ t.inflight = s.inflight /\ t.cwnd = s.cwnd
        /\ t.error = s.error /\ t.scheduled = s.scheduled /\ t.drive_waker = s.drive_waker
        /\ t.rx_closed = s.rx_closed /\ t.send_queue = s.send_queue
        /\ t.rto_timeout = s.rto_timeout
    BY <2>2 DEF StreamFields
  <2> HIDE DEF s
  <2>5. SameSending(s, t)
    BY <2>4 DEF SameSending
  <2>6. driver[e] = "running" /\ ~ t.scheduled => Asleep(t, recv_rx[e])
    BY <1>1, <2>4 DEF EndOK, Asleep
  <2>7. EndOK(t, recv_rx[e], "idle", driver[e], handles[e], closing[e])
    BY <1>1, <2>4, <2>5, <2>6, QuietEnd
  <2> QED BY <2>3, <2>7, OneEnd
<1>4. CASE ~ WindowFull(s, n)
  <2> DEFINE t == SendDataPacket(s, n)
             ph == IF n > ChunkLen(n) THEN "writing" ELSE "idle"
  <2>1. stream' = [stream EXCEPT ![e] = t] /\ phase' = [phase EXCEPT ![e] = ph]
    BY <1>4 DEF WriteChunk
  <2> HIDE DEF s
  <2>2. Tries(s) /\ driver[e] = "running" /\ s.error = "none"
    BY <1>1 DEF EndOK, Drained, s
  <2>3. s.drive_waker \/ s.scheduled
    BY <1>1, <2>2, Wakeable
  <2>4. t.scheduled /\ Tries(t) /\ t.inflight <= t.cwnd + HEADER_SIZE /\ t.error = "none"
    BY <1>2, <1>4, <2>2, <2>3, SendDataWakes
  <2> HIDE DEF t, ph
  <2>5. /\ Local(e) /\ stream'[e] = t /\ phase'[e] = ph /\ recv_rx'[e] = recv_rx[e]
        /\ driver'[e] = driver[e] /\ handles'[e] = handles[e] /\ closing'[e] = closing[e]
    BY <2>1, StreamLocal
  <2>6. \A c \in Closers : closing[e][c] = "none"
    BY <1>1, <2>2 DEF EndOK
  <2>7. EndOK(t, recv_rx[e], ph, driver[e], handles[e], closing[e])
    BY <2>2, <2>4, <2>6 DEF EndOK, InWindow
  <2> QED BY <2>5, <2>7, OneEnd
<1> QED BY <1>3, <1>4

\* poll_write.
LEMMA WriteEnds ==
  ASSUME IInv, EndsOK, NEW e \in End,
         (\E n \in WriteLens : PollWrite(e, n)) \/ PollWriteMore(e)
  PROVE  EndsOK'
<1> USE ZenonT(30)
<1>1. ASSUME NEW n \in WriteLens, PollWrite(e, n) PROVE EndsOK'
  <2>1. n \in Nat \ {0}
    BY EndsAssumption
  <2>2. /\ WriteChunk(e, n, TRUE) /\ stream[e].error = "none" /\ phase[e] # "incoming"
        /\ recv_rx' = recv_rx /\ driver' = driver /\ handles' = handles /\ closing' = closing
    BY <1>1 DEF PollWrite, AppUnchanged
  <2> QED BY <2>1, <2>2, WriteChunkEnds
<1>2. ASSUME PollWriteMore(e) PROVE EndsOK'
  <2>1. left[e] \in Nat \ {0}
    BY <1>2 DEF IInv, EnvironmentOK, PollWriteMore
  <2>2. /\ WriteChunk(e, left[e], FALSE) /\ phase[e] = "writing"
        /\ recv_rx' = recv_rx /\ driver' = driver /\ handles' = handles /\ closing' = closing
    BY <1>2 DEF PollWriteMore, AppUnchanged
  <2>3. stream[e].error = "none" /\ phase[e] # "incoming"
    BY <2>2 DEF EndsOK, EndInv, EndOK
  <2> QED BY <2>1, <2>2, <2>3, WriteChunkEnds
<1> QED BY <1>1, <1>2

\* poll_read.
LEMMA ReadEnds ==
  ASSUME IInv, EndsOK, NEW e \in End, NEW cap \in ReadCaps, Read(e, cap)
  PROVE  EndsOK'
<1> USE ZenonT(30)
<1> DEFINE s == stream[e]
           t == PollRead(s, cap)
<1>1. EndOK(s, recv_rx[e], phase[e], driver[e], handles[e], closing[e]) /\ phase[e] = "idle"
  BY DEF EndsOK, EndInv, Read
<1>2. StreamOK(s) /\ WindowIntact(s) /\ cap \in Nat
  BY EndFacts, EndsAssumption
<1>3. /\ stream' = [stream EXCEPT ![e] = t] /\ phase' = phase /\ recv_rx' = recv_rx
      /\ driver' = driver /\ handles' = handles /\ closing' = closing
  BY DEF Read
<1> HIDE DEF s
<1>4. \A f \in StreamFields \ {"incoming", "read_cursor", "read_waker"} : t[f] = s[f]
  BY <1>2, PollReadFrame
<1> HIDE DEF t
<1>5. /\ Local(e) /\ stream'[e] = t /\ phase'[e] = phase[e] /\ recv_rx'[e] = recv_rx[e]
      /\ driver'[e] = driver[e] /\ handles'[e] = handles[e] /\ closing'[e] = closing[e]
  BY <1>3, StreamLocal
<1>6. /\ t.outgoing = s.outgoing /\ t.inflight = s.inflight /\ t.cwnd = s.cwnd
      /\ t.error = s.error /\ t.scheduled = s.scheduled /\ t.drive_waker = s.drive_waker
      /\ t.rx_closed = s.rx_closed /\ t.send_queue = s.send_queue
      /\ t.rto_timeout = s.rto_timeout
  BY <1>4 DEF StreamFields
<1>7. SameSending(s, t)
  BY <1>6 DEF SameSending
<1>8. driver[e] = "running" /\ ~ t.scheduled => Asleep(t, recv_rx[e])
  BY <1>1, <1>6 DEF EndOK, Asleep
<1>9. EndOK(t, recv_rx[e], phase[e], driver[e], handles[e], closing[e])
  BY <1>1, <1>6, <1>7, <1>8, QuietEnd
<1> QED BY <1>5, <1>9, OneEnd

\* Arc::strong_count: what is counted while the driver runs.
LEMMA LastHandle ==
  ASSUME IInv, NEW e \in End, LastDrop(e), driver[e] = "running"
  PROVE  handles[e] <= 1
<1>1. handles[e] \in Nat /\ dropping[e] \in Nat
  BY ZenonT(30), EndFacts
<1>2. handles[e] + dropping[e] + 1 <= 2
  BY ZenonT(30) DEF LastDrop, StrongCount
<1> QED BY <1>1, <1>2

\* While a drop is going on the driver's reference is not the last one.
LEMMA LastReference ==
  ASSUME NEW e, handles[e] \in Nat, dropping[e] \in Nat, dropping[e] > 0,
         StrongCount(e) = 1
  PROVE  driver[e] # "running"
  BY DEF StrongCount

\* A drop, of a handle or of the driver's own: it terminates the stream if it
\* is the last but one, and otherwise changes nothing.
LEMMA DropAt ==
  ASSUME IInv, EndsOK, NEW e \in End, DropTerminates(e), NEW d, NEW h,
         d = "running" => driver[e] = "running",
         d # "running" => Drained(stream[e]),
         d = "running" => handles[e] > 0 /\ h = handles[e] - 1
  PROVE  /\ EndOK(stream'[e], recv_rx[e], phase[e], d, h, closing[e])
         /\ \A x \in End \ {e} : stream'[x] = stream[x]
<1> USE ZenonT(30)
<1> DEFINE s == stream[e]
<1>0. DOMAIN stream = End
  BY DEF IInv
<1>1. EndOK(s, recv_rx[e], phase[e], driver[e], handles[e], closing[e])
  BY DEF EndsOK, EndInv
<1>2. StreamOK(s) /\ handles[e] \in Nat
  BY EndFacts
<1>3. PICK err \in Errors : err = "ConnectionReset"
  BY DEF Errors
<1>4. CASE /\ LastDrop(e) /\ phase[e] = "idle"
           /\ stream' = [stream EXCEPT ![e] = Terminate(s, err)]
  <2> DEFINE t == Terminate(s, err)
  <2>1. stream'[e] = t /\ \A x \in End \ {e} : stream'[x] = stream[x]
    BY <1>0, <1>4
  <2>2. d = "running" => t.scheduled
    <3> HIDE DEF s
    <3>1. ASSUME d = "running" PROVE s.drive_waker \/ s.scheduled
      <4>1. EndOK(s, recv_rx[e], phase[e], "running", handles[e], closing[e])
        BY <1>1, <3>1
      <4> QED BY <1>4, <4>1, Wakeable
    <3> QED BY <1>2, <3>1, TerminateWakes
  <2>3. ASSUME d = "running" PROVE h = 0
    <3>1. handles[e] <= 1 /\ handles[e] > 0
      BY <1>4, <2>3, LastHandle
    <3> QED BY SMT, <1>2, <2>3, <3>1
  <2>4. /\ Tries(s) /\ phase[e] # "writing"
        /\ d # "running" => DOMAIN s.outgoing = {}
        /\ OneCloser => \A c \in Closers : closing[e][c] = "resolved" => DOMAIN s.outgoing = {}
    BY <1>1, <1>4 DEF EndOK, Drained
  <2>5. \A f \in StreamFields \ {"on_close", "scheduled"} : t[f] = Terminate(s, err)[f]
    OBVIOUS
  <2> HIDE DEF s, t
  <2>6. EndOK(t, recv_rx[e], phase[e], d, h, closing[e])
    BY <1>2, <2>2, <2>3, <2>4, <2>5, TerminateEnd
  <2> QED BY <2>1, <2>6
<1>5. CASE stream' = stream
  <2>1. d = "running" => handles[e] # 0
    BY PositiveNat, <1>2
  <2>2. EndOK(s, recv_rx[e], phase[e], d, h, closing[e])
    BY <1>1, <2>1 DEF EndOK
  <2> QED BY <1>5, <2>2
<1> QED BY <1>3, <1>4, <1>5 DEF DropTerminates

\* close(), clones of the handle and their drops.
LEMMA CloseEnds ==
  ASSUME IInv, EndsOK, NEW e \in End,
         \/ \E c \in Closers : Close(e, c)
         \/ Clone(e) \/ DropBegins(e) \/ DropEnds(e)
         \/ DriverDropBegins(e) \/ DriverDropEnds(e)
  PROVE  EndsOK'
<1> USE ZenonT(30)
<1> DEFINE s == stream[e]
<1>0. /\ DOMAIN stream = End
      /\ recv_rx \in [End -> SUBSET Packet]
      /\ phase \in [End -> {"idle", "incoming", "writing"}]
      /\ driver \in [End -> {"running", "returned", "dropping", "dropped"}]
      /\ handles \in [End -> Nat] /\ dropping \in [End -> Nat]
      /\ closing \in [End -> [Closers -> {"none", "pending", "resolved"}]]
  BY DEF IInv, EnvironmentOK
<1>1. EndOK(s, recv_rx[e], phase[e], driver[e], handles[e], closing[e])
  BY DEF EndsOK, EndInv
<1>2. /\ StreamOK(s) /\ handles[e] \in Nat /\ dropping[e] \in Nat
      /\ closing[e] \in [Closers -> {"none", "pending", "resolved"}]
  BY EndFacts
<1>3. ASSUME NEW c \in Closers, Close(e, c) PROVE EndsOK'
  <2>1. PICK err \in Errors : err = "ConnectionReset"
    BY SMT DEF Errors
  <2> DEFINE u == Terminate(s, err)
             t == [u EXCEPT !.on_close = {c}]
             v == [x \in Closers |-> IF x = c THEN "pending"
                                    ELSE IF x \in s.on_close
                                    THEN "resolved" ELSE closing[e][x]]
  <2>2. /\ stream' = [stream EXCEPT ![e] = t] /\ phase[e] = "idle"
        /\ closing' = [closing EXCEPT ![e] = v]
        /\ phase' = phase /\ recv_rx' = recv_rx /\ driver' = driver /\ handles' = handles
    BY <1>3, <2>1 DEF Close
  <2>3. Local(e) /\ stream'[e] = t /\ closing'[e] = v
    <3> HIDE DEF t, v
    <3> QED BY <1>0, <2>2 DEF Local
  <2>4. OneCloser => \A x \in Closers : v[x] # "resolved"
    BY DEF OneCloser
  <2>5. v[c] # "none"
    OBVIOUS
  <2>6. StreamOK(u) /\ (s.drive_waker \/ s.scheduled => u.scheduled)
    <3> HIDE DEF s
    <3> QED BY <1>2, TerminateFrame, TerminateWakes
  <2> HIDE DEF u, v
  <2>7. \A f \in StreamFields \ {"on_close"} : t[f] = u[f]
    BY <2>6 DEF StreamOK, StreamFields
  <2> HIDE DEF t, s
  <2>8. \A f \in StreamFields \ {"on_close", "scheduled"} : t[f] = Terminate(s, err)[f]
    BY <2>7 DEF u
  <2>9. driver[e] = "running" => t.scheduled
    <3>1. t.scheduled = u.scheduled
      BY <2>7 DEF StreamFields
    <3>2. ASSUME driver[e] = "running" PROVE s.drive_waker \/ s.scheduled
      <4>1. EndOK(s, recv_rx[e], phase[e], "running", handles[e], closing[e])
        BY <1>1, <3>2
      <4> QED BY <2>2, <4>1, Wakeable
    <3> QED BY <2>6, <3>1, <3>2
  <2>10. /\ Tries(s) /\ phase[e] # "writing"
         /\ driver[e] # "running" => DOMAIN s.outgoing = {}
    BY <1>1, <2>2 DEF EndOK, Drained
  <2>11. EndOK(t, recv_rx[e], phase[e], driver[e], handles[e], v)
    BY <1>2, <2>4, <2>5, <2>8, <2>9, <2>10, TerminateEnd
  <2> QED BY <2>2, <2>3, <2>11, OneEnd
<1>4. ASSUME Clone(e) PROVE EndsOK'
  <2>1. /\ handles[e] > 0 /\ handles' = [handles EXCEPT ![e] = @ + 1]
        /\ stream' = stream /\ recv_rx' = recv_rx /\ phase' = phase /\ driver' = driver
        /\ closing' = closing
    BY <1>4 DEF Clone
  <2>2. Local(e)
    BY <1>0, <2>1 DEF Local
  <2>3. handles[e] # 0
    BY PositiveNat, <1>2, <2>1
  <2>4. EndOK(s, recv_rx[e], phase[e], driver[e], handles'[e], closing[e])
    BY <1>1, <2>3 DEF EndOK
  <2> QED BY <2>1, <2>2, <2>4, OneEnd
<1>5. ASSUME DropBegins(e) PROVE EndsOK'
  <2>1. /\ handles' = [handles EXCEPT ![e] = @ - 1] /\ DropTerminates(e)
        /\ recv_rx' = recv_rx /\ phase' = phase /\ driver' = driver /\ closing' = closing
    BY <1>5 DEF DropBegins
  <2>2. handles[e] > 0
    <3>1. handles[e] > IF phase[e] = "writing" THEN 1 ELSE 0
      BY <1>5 DEF DropBegins
    <3> QED BY <1>2, <3>1, HandleHeld
  <2>3. handles'[e] = handles[e] - 1 /\ \A x \in End \ {e} : handles'[x] = handles[x]
    BY <1>0, <2>1
  <2>4. driver[e] # "running" => Drained(s)
    BY <1>1 DEF EndOK
  <2>5. /\ EndOK(stream'[e], recv_rx[e], phase[e], driver[e], handles'[e], closing[e])
        /\ \A x \in End \ {e} : stream'[x] = stream[x]
    BY <2>1, <2>2, <2>3, <2>4, DropAt
  <2>6. Local(e)
    BY <2>1, <2>3, <2>5 DEF Local
  <2> QED BY <2>1, <2>5, <2>6, OneEnd
<1>6. ASSUME DriverDropBegins(e) PROVE EndsOK'
  <2>1. /\ driver[e] = "returned" /\ driver' = [driver EXCEPT ![e] = "dropping"]
        /\ DropTerminates(e) /\ handles' = handles
        /\ recv_rx' = recv_rx /\ phase' = phase /\ closing' = closing
    BY <1>6 DEF DriverDropBegins
  <2>2. driver'[e] = "dropping" /\ \A x \in End \ {e} : driver'[x] = driver[x]
    BY <1>0, <2>1
  <2>3. Drained(s)
    BY <1>1, <2>1 DEF EndOK
  <2>4. /\ EndOK(stream'[e], recv_rx[e], phase[e], driver'[e], handles[e], closing[e])
        /\ \A x \in End \ {e} : stream'[x] = stream[x]
    BY <2>1, <2>2, <2>3, DropAt
  <2>5. Local(e)
    BY <2>1, <2>2, <2>4 DEF Local
  <2> QED BY <2>1, <2>4, <2>5, OneEnd
<1>7. SameSending(s, s)
  BY DEF SameSending
<1>8. ASSUME NEW C, Resolve(e, C)
      PROVE  /\ Resolved(closing[e], closing'[e], C)
             /\ \A x \in End \ {e} : closing'[x] = closing[x]
  <2> DEFINE v == [c \in Closers |-> IF c \in C THEN "resolved" ELSE closing[e][c]]
  <2>1. closing' = [closing EXCEPT ![e] = v]
    BY <1>8 DEF Resolve
  <2> HIDE DEF v
  <2>2. closing'[e] = v /\ \A x \in End \ {e} : closing'[x] = closing[x]
    BY <1>0, <2>1
  <2> QED BY <2>2 DEF v, Resolved
<1> DEFINE C == IF StrongCount(e) = 1 THEN s.on_close ELSE {}
<1>9. ASSUME DropEnds(e) PROVE EndsOK'
  <2>1. /\ dropping[e] > 0 /\ Resolve(e, C) /\ stream' = stream /\ recv_rx' = recv_rx
        /\ phase' = phase /\ driver' = driver /\ handles' = handles
    BY <1>9 DEF DropEnds, Freed
  <2>2. C # {} => Drained(s)
    <3>1. ASSUME StrongCount(e) = 1 PROVE driver[e] # "running"
      BY <1>2, <2>1, <3>1, LastReference
    <3> QED BY <1>1, <3>1 DEF EndOK
  <2>3. driver[e] # "running" => Drained(s)
    BY <1>1 DEF EndOK
  <2> HIDE DEF C, s
  <2>4. EndOK(s, recv_rx[e], phase[e], driver[e], handles[e], closing'[e])
    <3>1. Resolved(closing[e], closing'[e], C)
      BY <1>8, <2>1
    <3> QED BY <1>1, <1>2, <1>7, <2>2, <2>3, <3>1, ResolveEnd
  <2>5. Local(e)
    BY <1>8, <2>1 DEF Local
  <2> QED BY <2>1, <2>4, <2>5, OneEnd DEF s
<1>10. ASSUME DriverDropEnds(e) PROVE EndsOK'
  <2>1. /\ driver[e] = "dropping" /\ driver' = [driver EXCEPT ![e] = "dropped"]
        /\ Resolve(e, C) /\ stream' = stream /\ recv_rx' = recv_rx
        /\ phase' = phase /\ handles' = handles
    BY <1>10 DEF DriverDropEnds, Freed
  <2>2. driver'[e] = "dropped" /\ \A x \in End \ {e} : driver'[x] = driver[x]
    BY <1>0, <2>1
  <2>3. Drained(s)
    BY <1>1, <2>1 DEF EndOK
  <2> HIDE DEF C, s
  <2>4. EndOK(s, recv_rx[e], phase[e], driver'[e], handles[e], closing'[e])
    <3>1. Resolved(closing[e], closing'[e], C)
      BY <1>8, <2>1
    <3> QED BY <1>1, <1>2, <1>7, <2>2, <2>3, <3>1, ResolveEnd
  <2>5. Local(e)
    BY <1>8, <2>1, <2>2 DEF Local
  <2> QED BY <2>1, <2>4, <2>5, OneEnd DEF s
<1> QED BY <1>3, <1>4, <1>5, <1>6, <1>9, <1>10

\* A step that only touches the timer and the wakers of a stream, and wakes
\* the driver or starts its poll.
LEMMA TouchedAt ==
  ASSUME IInv, EndsOK, NEW e \in End, NEW t, stream' = [stream EXCEPT ![e] = t], NEW ph,
         phase' = [phase EXCEPT ![e] = ph] \/ (phase' = phase /\ ph = phase[e]),
         ph # "incoming" => t.scheduled, ph = "writing" => phase[e] = "writing",
         driver' = driver, handles' = handles, closing' = closing,
         \A x \in End \ {e} : recv_rx'[x] = recv_rx[x],
         \A f \in StreamFields \ {"rto_timeout", "scheduled", "drive_waker", "rx_closed"} :
            t[f] = stream[e][f]
  PROVE  EndsOK'
<1> USE ZenonT(30)
<1> DEFINE s == stream[e]
<1>1. EndOK(s, recv_rx[e], phase[e], driver[e], handles[e], closing[e])
  BY DEF EndsOK, EndInv
<1>2. /\ Local(e) /\ stream'[e] = t /\ phase'[e] = ph
      /\ driver'[e] = driver[e] /\ handles'[e] = handles[e] /\ closing'[e] = closing[e]
  BY StreamLocal
<1>3. SameSending(s, t) /\ t.error = s.error
  BY DEF SameSending, StreamFields
<1> HIDE DEF s
<1>4. EndOK(t, recv_rx'[e], ph, driver[e], handles[e], closing[e])
  BY <1>1, <1>3, QuietEnd
<1> QED BY <1>2, <1>4, OneEnd

\* The start of a poll, in both cases, the timer, an arriving packet and the
\* end of the socket.
LEMMA WakeEnds ==
  ASSUME IInv, EndsOK, NEW e \in End,
         \/ DriverReturns(e) \/ DriverPolls(e) \/ TimerElapses(e)
         \/ \E m \in net[e] : Deliver(e, m)
         \/ SocketGone(e)
  PROVE  EndsOK'
<1> USE ZenonT(30)
<1> DEFINE s == stream[e]
<1>0. /\ DOMAIN stream = End /\ recv_rx \in [End -> SUBSET Packet]
      /\ driver \in [End -> {"running", "returned", "dropping", "dropped"}]
      /\ closing \in [End -> [Closers -> {"none", "pending", "resolved"}]]
  BY DEF IInv, EnvironmentOK
<1>1. EndOK(s, recv_rx[e], phase[e], driver[e], handles[e], closing[e])
  BY DEF EndsOK, EndInv
<1>2. /\ StreamOK(s) /\ DOMAIN s = StreamFields
      /\ closing[e] \in [Closers -> {"none", "pending", "resolved"}]
  BY EndFacts DEF StreamOK
<1>3. ASSUME DriverReturns(e) PROVE EndsOK'
  <2> DEFINE t == [[s EXCEPT !.scheduled = FALSE, !.drive_waker = FALSE] EXCEPT !.on_close = {}]
             v == [c \in Closers |-> IF c \in s.on_close THEN "resolved" ELSE closing[e][c]]
             C == s.on_close
  <2>1. /\ stream' = [stream EXCEPT ![e] = t] /\ driver' = [driver EXCEPT ![e] = "returned"]
        /\ closing' = [closing EXCEPT ![e] = v] /\ ClosedAndDrained(s)
        /\ phase' = phase /\ recv_rx' = recv_rx /\ handles' = handles
    BY <1>3 DEF DriverReturns, PollStarts, Resolve
  <2>2. /\ t.outgoing = s.outgoing /\ t.inflight = s.inflight /\ t.cwnd = s.cwnd
        /\ t.error = s.error
    BY <1>2 DEF StreamFields
  <2>3. Resolved(closing[e], v, C)
    BY DEF Resolved
  <2> HIDE DEF t, v, C
  <2>4. /\ Local(e) /\ stream'[e] = t /\ driver'[e] = "returned" /\ closing'[e] = v
    BY <1>0, <2>1 DEF Local
  <2> HIDE DEF s
  <2>5. SameSending(s, t) /\ Drained(s)
    BY <2>1, <2>2 DEF SameSending, Drained, ClosedAndDrained
  <2>6. EndOK(t, recv_rx[e], phase[e], "returned", handles[e], v)
    BY <1>1, <1>2, <2>2, <2>3, <2>5, ResolveEnd
  <2> QED BY <2>1, <2>4, <2>6, OneEnd
<1>4. ASSUME DriverPolls(e) PROVE EndsOK'
  <2> DEFINE t == [s EXCEPT !.scheduled = FALSE, !.drive_waker = FALSE]
  <2>1. /\ stream' = [stream EXCEPT ![e] = t] /\ phase' = [phase EXCEPT ![e] = "incoming"]
        /\ driver' = driver /\ handles' = handles /\ closing' = closing /\ recv_rx' = recv_rx
    BY <1>4 DEF DriverPolls, PollStarts, AppUnchanged
  <2>2. \A f \in StreamFields \ {"rto_timeout", "scheduled", "drive_waker", "rx_closed"} :
           t[f] = s[f]
    BY <1>2 DEF StreamFields
  <2> HIDE DEF t
  <2> QED BY <2>1, <2>2, TouchedAt
<1>5. ASSUME TimerElapses(e) PROVE EndsOK'
  <2> DEFINE t == [s EXCEPT !.rto_timeout = "elapsed", !.scheduled = TRUE]
  <2>1. /\ stream' = [stream EXCEPT ![e] = t] /\ phase' = phase
        /\ driver' = driver /\ handles' = handles /\ closing' = closing /\ recv_rx' = recv_rx
    BY <1>5, <1>0 DEF TimerElapses, AppUnchanged
  <2>2. /\ t.scheduled
        /\ \A f \in StreamFields \ {"rto_timeout", "scheduled", "drive_waker", "rx_closed"} :
              t[f] = s[f]
    BY <1>2 DEF StreamFields
  <2> HIDE DEF t
  <2> QED BY <2>1, <2>2, TouchedAt
<1>6. ASSUME NEW m \in net[e], Deliver(e, m) PROVE EndsOK'
  <2> DEFINE t == [s EXCEPT !.scheduled = TRUE]
  <2>1. /\ stream' = [stream EXCEPT ![e] = t] /\ phase' = phase
        /\ driver' = driver /\ handles' = handles /\ closing' = closing
        /\ \A x \in End \ {e} : recv_rx'[x] = recv_rx[x]
    BY <1>6, <1>0 DEF Deliver, AppUnchanged
  <2>2. /\ t.scheduled
        /\ \A f \in StreamFields \ {"rto_timeout", "scheduled", "drive_waker", "rx_closed"} :
              t[f] = s[f]
    BY <1>2 DEF StreamFields
  <2> HIDE DEF t
  <2> QED BY <2>1, <2>2, TouchedAt
<1>7. ASSUME SocketGone(e) PROVE EndsOK'
  <2> DEFINE t == [s EXCEPT !.rx_closed = TRUE, !.scheduled = TRUE]
  <2>1. /\ stream' = [stream EXCEPT ![e] = t] /\ phase' = phase
        /\ driver' = driver /\ handles' = handles /\ closing' = closing /\ recv_rx' = recv_rx
    BY <1>7, <1>0 DEF SocketGone, AppUnchanged
  <2>2. /\ t.scheduled
        /\ \A f \in StreamFields \ {"rto_timeout", "scheduled", "drive_waker", "rx_closed"} :
              t[f] = s[f]
    BY <1>2 DEF StreamFields
  <2> HIDE DEF t
  <2> QED BY <2>1, <2>2, TouchedAt
<1> QED BY <1>3, <1>4, <1>5, <1>6, <1>7

\* poll_incoming: one packet.
LEMMA IncomingEnds ==
  ASSUME IInv, EndsOK, NEW e \in End, NEW m \in recv_rx[e], PollIncoming(e, m)
  PROVE  EndsOK'
<1> USE ZenonT(30)
<1> DEFINE s == stream[e]
           t == HandleIncoming(s, m)
<1>1. EndOK(s, recv_rx[e], phase[e], driver[e], handles[e], closing[e])
  BY DEF EndsOK, EndInv
<1>2. StreamOK(s) /\ SenderOK(s) /\ WindowIntact(s) /\ m \in Packet
  BY EndFacts DEF IInv, EnvironmentOK
<1>3. /\ stream' = [stream EXCEPT ![e] = t] /\ phase[e] = "incoming" /\ phase' = phase
      /\ driver' = driver /\ handles' = handles /\ closing' = closing
      /\ recv_rx' = [recv_rx EXCEPT ![e] = @ \ {m}]
  BY DEF PollIncoming, AppUnchanged
<1>4. \A x \in End \ {e} : recv_rx'[x] = recv_rx[x]
  BY <1>3 DEF IInv, EnvironmentOK
<1> HIDE DEF s
<1>5. /\ StreamOK(t) /\ DOMAIN t.outgoing \subseteq DOMAIN s.outgoing
      /\ \A i \in DOMAIN t.outgoing : t.outgoing[i] = s.outgoing[i]
      /\ t.inflight <= s.inflight /\ s.cwnd <= t.cwnd
      /\ t.error = s.error \/ t.error = "UnexpectedEof"
  <2>1. /\ StreamOK(t) /\ DOMAIN t.outgoing \subseteq DOMAIN s.outgoing
        /\ \A i \in DOMAIN t.outgoing : t.outgoing[i] = s.outgoing[i]
    BY <1>2, HandleIncomingFrame
  <2>2. /\ t.inflight <= s.inflight /\ s.cwnd <= t.cwnd
        /\ t.error = s.error \/ t.error = "UnexpectedEof"
    BY <1>2, HandleIncomingBounds
  <2> QED BY <2>1, <2>2
<1> HIDE DEF t
<1>6. /\ Local(e) /\ stream'[e] = t /\ phase'[e] = phase[e]
      /\ driver'[e] = driver[e] /\ handles'[e] = handles[e] /\ closing'[e] = closing[e]
  BY <1>3, <1>4, StreamLocal DEF s
<1>7. Tries(t)
  BY <1>1, <1>5 DEF EndOK, Tries
<1>8. InWindow(t)
  <2>1. ASSUME t.error = "none" PROVE t.inflight <= t.cwnd + HEADER_SIZE
    <3>1. s.error = "none"
      BY <1>5, <2>1
    <3>2. s.inflight <= s.cwnd + HEADER_SIZE
      BY <1>1, <3>1 DEF EndOK, InWindow
    <3>3. /\ s.inflight \in Nat /\ s.cwnd \in Nat /\ t.inflight \in Nat /\ t.cwnd \in Nat
          /\ HEADER_SIZE \in Nat
      BY <1>2, <1>5, ConstantsAssumption DEF StreamOK
    <3> QED BY SMT, <1>5, <3>2, <3>3
  <2> QED BY <2>1 DEF InWindow
<1>9. DOMAIN s.outgoing = {} => DOMAIN t.outgoing = {}
  BY <1>5
<1>10. t.error = "none" \/ t.error = "ConnectionReset" => t.error = s.error
  BY <1>5
<1>11. EndOK(t, recv_rx'[e], phase[e], driver[e], handles[e], closing[e])
  <2>1. driver[e] # "running" => Drained(t)
    BY <1>1, <1>9, <1>10 DEF EndOK, Drained
  <2>2. \A c \in Closers : closing[e][c] # "none" => t.error # "none"
    BY <1>1, <1>10 DEF EndOK
  <2>3. OneCloser => \A c \in Closers : closing[e][c] = "resolved" => DOMAIN t.outgoing = {}
    BY <1>1, <1>9 DEF EndOK
  <2>4. /\ t.error = "ConnectionReset" /\ driver[e] = "running"
        /\ \A c \in Closers : closing[e][c] = "none"
        => handles[e] = 0
    BY <1>1, <1>10 DEF EndOK
  <2> QED BY <1>3, <1>7, <1>8, <2>1, <2>2, <2>3, <2>4 DEF EndOK
<1> QED BY <1>6, <1>11, OneEnd

\* poll_drive up to the timeouts.
LEMMA CheckedBounds ==
  ASSUME IInv, EndsOK, NEW e \in End
  PROVE  LET s == stream[e]
             c == Checked(e)
         IN  /\ StreamOK(c) /\ SenderOK(c) /\ Tries(c)
             /\ ~ GivesUp(e) => InWindow(c)
             /\ DOMAIN c.outgoing # {} => c.rto_timeout = "armed"
             /\ DOMAIN c.outgoing \subseteq DOMAIN s.outgoing
             /\ c.error = s.error /\ c.rx_closed = s.rx_closed
<1> USE ZenonT(30)
<1> DEFINE s == stream[e]
           a == HandleIncomingMaxRemoteAck(s, remote_ack[e])
           c == PollCheckTimeouts(a)
<1>1. StreamOK(s) /\ SenderOK(s) /\ remote_ack[e] \in Nat /\ Tries(s) /\ InWindow(s)
  BY EndFacts DEF EndsOK, EndInv, EndOK
<1>2. c = Checked(e) /\ (GivesUp(e) <=> TimesOut(a))
  BY DEF Checked, GivesUp
<1> HIDE DEF s
<1>3. /\ StreamOK(a) /\ SenderOK(a) /\ DOMAIN a.outgoing \subseteq DOMAIN s.outgoing
      /\ \A f \in StreamFields \ {"outgoing", "inflight", "inflight_bytes",
            "inflight_packets", "remote_acked", "write_waker", "rto_timeout"} : a[f] = s[f]
  BY <1>1, MaxRemoteAckFrame
<1>4. Tries(a) /\ InWindow(a)
  BY <1>1, MaxRemoteAckBounds
<1> HIDE DEF a
<1>5. /\ StreamOK(c) /\ SenderOK(c) /\ DOMAIN c.outgoing = DOMAIN a.outgoing
      /\ \A f \in StreamFields \ {"rto_timeout", "cwnd", "outgoing", "inflight"} : c[f] = a[f]
  BY <1>3, PollCheckTimeoutsFrame
<1>6. /\ Tries(c) /\ (~ TimesOut(a) => InWindow(c))
      /\ DOMAIN c.outgoing # {} => c.rto_timeout = "armed"
  BY <1>3, <1>4, CheckBounds
<1> HIDE DEF c
<1>7. a.error = s.error /\ a.rx_closed = s.rx_closed
  BY <1>3 DEF StreamFields
<1>8. c.error = a.error /\ c.rx_closed = a.rx_closed
  BY <1>5 DEF StreamFields
<1>9. /\ DOMAIN c.outgoing \subseteq DOMAIN s.outgoing
      /\ c.error = s.error /\ c.rx_closed = s.rx_closed
  BY <1>3, <1>5, <1>7, <1>8
<1>10. Checked(e) = c /\ stream[e] = s
  BY <1>2 DEF s
<1> QED BY <1>2, <1>5, <1>6, <1>9, <1>10

\* An error of poll_drive terminates the stream and has the driver polled.
LEMMA FailsAt ==
  ASSUME IInv, EndsOK, NEW e \in End, NEW c, StreamOK(c), Tries(c),
         DOMAIN c.outgoing \subseteq DOMAIN stream[e].outgoing,
         NEW err \in {"TimedOut", "BrokenPipe"},
         stream' = [stream EXCEPT ![e] = Failed(c, err)],
         phase' = [phase EXCEPT ![e] = "idle"],
         recv_rx' = recv_rx, driver' = driver, handles' = handles, closing' = closing
  PROVE  EndsOK'
<1> USE ZenonT(30)
<1> DEFINE s == stream[e]
           u == Terminate(c, err)
           t == [u EXCEPT !.scheduled = TRUE]
<1>1. EndOK(s, recv_rx[e], phase[e], driver[e], handles[e], closing[e])
  BY DEF EndsOK, EndInv
<1>2. err \in Errors /\ err # "ConnectionReset"
  BY DEF Errors
<1>3. StreamOK(u)
  BY <1>2, TerminateFrame
<1>4. stream' = [stream EXCEPT ![e] = t]
  BY SMT DEF Failed
<1> HIDE DEF u
<1>5. t.scheduled /\ \A f \in StreamFields \ {"scheduled"} : t[f] = u[f]
  BY <1>3 DEF StreamOK, StreamFields
<1> HIDE DEF t
<1>6. \A f \in StreamFields \ {"on_close", "scheduled"} : t[f] = Terminate(c, err)[f]
  BY <1>5 DEF u
<1>7. /\ Local(e) /\ stream'[e] = t /\ phase'[e] = "idle"
      /\ driver'[e] = driver[e] /\ handles'[e] = handles[e] /\ closing'[e] = closing[e]
  BY <1>4, StreamLocal
<1>8. DOMAIN s.outgoing = {} => DOMAIN c.outgoing = {}
  OBVIOUS
<1> HIDE DEF s
<1>9. /\ driver[e] # "running" => DOMAIN c.outgoing = {}
      /\ OneCloser => \A x \in Closers : closing[e][x] = "resolved" => DOMAIN c.outgoing = {}
  BY <1>1, <1>8 DEF EndOK, Drained
<1>10. EndOK(t, recv_rx[e], "idle", driver[e], handles[e], closing[e])
  BY <1>2, <1>5, <1>6, <1>9, TerminateEnd
<1> QED BY <1>7, <1>10, OneEnd

\* The rest of poll_drive.
LEMMA DriveEnds ==
  ASSUME IInv, EndsOK, NEW e \in End, DriveBroken(e) \/ DriveFails(e) \/ Drive(e)
  PROVE  EndsOK'
<1> USE ZenonT(30)
<1> DEFINE s == stream[e]
           c == Checked(e)
<1>1. /\ EndOK(s, recv_rx[e], phase[e], driver[e], handles[e], closing[e])
      /\ StreamOK(s) /\ Tries(s)
  BY EndFacts DEF EndsOK, EndInv, EndOK
<1>2. /\ StreamOK(c) /\ SenderOK(c) /\ Tries(c)
      /\ ~ GivesUp(e) => InWindow(c)
      /\ DOMAIN c.outgoing # {} => c.rto_timeout = "armed"
      /\ DOMAIN c.outgoing \subseteq DOMAIN s.outgoing
      /\ c.error = s.error /\ c.rx_closed = s.rx_closed
  BY CheckedBounds
<1> HIDE DEF c
<1>3. ASSUME DriveBroken(e) PROVE EndsOK'
  <2>1. /\ stream' = [stream EXCEPT ![e] = Failed(s, "BrokenPipe")]
        /\ phase' = [phase EXCEPT ![e] = "idle"]
        /\ recv_rx' = recv_rx /\ driver' = driver /\ handles' = handles /\ closing' = closing
    BY <1>3 DEF DriveBroken, AppUnchanged
  <2>2. PICK err \in {"TimedOut", "BrokenPipe"} : err = "BrokenPipe"
    OBVIOUS
  <2>3. stream' = [stream EXCEPT ![e] = Failed(s, err)]
    BY <2>1, <2>2
  <2>4. DOMAIN s.outgoing \subseteq DOMAIN stream[e].outgoing
    OBVIOUS
  <2> QED BY <1>1, <2>1, <2>3, <2>4, FailsAt
<1>4. ASSUME DriveFails(e) PROVE EndsOK'
  <2>1. /\ stream' = [stream EXCEPT ![e] = Failed(c, "TimedOut")]
        /\ phase' = [phase EXCEPT ![e] = "idle"]
        /\ recv_rx' = recv_rx /\ driver' = driver /\ handles' = handles /\ closing' = closing
    BY <1>4 DEF DriveFails, AppUnchanged, c
  <2>2. PICK err \in {"TimedOut", "BrokenPipe"} : err = "TimedOut"
    OBVIOUS
  <2>3. stream' = [stream EXCEPT ![e] = Failed(c, err)]
    BY <2>1, <2>2
  <2> QED BY <1>2, <2>1, <2>3, FailsAt
<1>5. ASSUME Drive(e) PROVE EndsOK'
  <2> DEFINE f == FlushWaitingPackets(c)
             t == [f EXCEPT !.send_queue = {}, !.drive_waker = TRUE]
  <2>1. /\ stream' = [stream EXCEPT ![e] = t] /\ phase' = [phase EXCEPT ![e] = "idle"]
        /\ recv_rx' = recv_rx /\ driver' = driver /\ handles' = handles /\ closing' = closing
        /\ recv_rx[e] = {} /\ ~ s.rx_closed /\ ~ GivesUp(e)
    BY <1>5 DEF Drive, AppUnchanged, c, ChannelClosed
  <2>2. /\ StreamOK(f) /\ DOMAIN f.outgoing = DOMAIN c.outgoing
        /\ \A x \in StreamFields \ {"outgoing", "inflight", "send_queue"} : f[x] = c[x]
    BY <1>2, FlushWaitingPacketsFrame
  <2>3. Tries(f) /\ InWindow(f)
    BY <1>2, <2>1, FlushBounds
  <2> HIDE DEF f
  <2>4. /\ t.send_queue = {} /\ t.drive_waker
        /\ \A x \in StreamFields \ {"send_queue", "drive_waker"} : t[x] = f[x]
    BY <2>2 DEF StreamOK, StreamFields
  <2> HIDE DEF t
  <2>5. f.error = c.error /\ f.rx_closed = c.rx_closed /\ f.rto_timeout = c.rto_timeout
    BY <2>2 DEF StreamFields
  <2>6. /\ t.error = f.error /\ t.rx_closed = f.rx_closed /\ t.rto_timeout = f.rto_timeout
        /\ t.outgoing = f.outgoing /\ t.inflight = f.inflight /\ t.cwnd = f.cwnd
    BY <2>4 DEF StreamFields
  <2>7. Tries(t) /\ InWindow(t)
    BY <2>3, <2>6 DEF Tries, InWindow
  <2>8. Asleep(t, recv_rx[e])
    BY <1>2, <2>1, <2>2, <2>4, <2>5, <2>6 DEF Asleep
  <2>9. t.error = s.error /\ (DOMAIN s.outgoing = {} => DOMAIN t.outgoing = {})
    BY <1>2, <2>2, <2>5, <2>6
  <2>10. /\ Local(e) /\ stream'[e] = t /\ phase'[e] = "idle"
         /\ driver'[e] = driver[e] /\ handles'[e] = handles[e] /\ closing'[e] = closing[e]
    BY <2>1, StreamLocal
  <2> HIDE DEF s
  <2>11. EndOK(t, recv_rx[e], "idle", driver[e], handles[e], closing[e])
    <3>1. driver[e] # "running" => Drained(t)
      BY <1>1, <2>9 DEF EndOK, Drained
    <3>2. OneCloser => \A x \in Closers : closing[e][x] = "resolved" => DOMAIN t.outgoing = {}
      BY <1>1, <2>9 DEF EndOK
    <3>3. \A x \in Closers : closing[e][x] # "none" => t.error # "none"
      BY <1>1, <2>9 DEF EndOK
    <3>4. /\ t.error = "ConnectionReset" /\ driver[e] = "running"
          /\ \A x \in Closers : closing[e][x] = "none"
          => handles[e] = 0
      BY <1>1, <2>9 DEF EndOK
    <3> QED BY <2>7, <2>8, <3>1, <3>2, <3>3, <3>4 DEF EndOK
  <2> QED BY <2>1, <2>10, <2>11, OneEnd
<1> QED BY <1>3, <1>4, <1>5

-----------------------------------------------------------------------------
(* The theorems *)

\* A new connection: two drivers about to be polled for the first time.
LEMMA InitEnds == Init => EndsOK
<1> USE ZenonT(30)
<1> SUFFICES ASSUME Init, NEW e \in End PROVE EndInv(e)
  BY SMT DEF EndsOK
<1> DEFINE s == InitialStream
<1>1. /\ stream[e] = s /\ phase[e] = "idle" /\ driver[e] = "running"
      /\ \A c \in Closers : closing[e][c] = "none"
  BY DEF Init
<1>2. /\ s.outgoing = NoPackets /\ s.error = "none" /\ s.scheduled /\ s.inflight = 0
      /\ s.cwnd = 2 * MTU
  BY DEF InitialStream
<1> HIDE DEF s
<1>3. Tries(s)
  BY <1>2 DEF Tries, NoPackets
<1>4. InWindow(s)
  BY SMT, <1>2, ConstantsAssumption DEF InWindow, MTU
<1> QED BY <1>1, <1>2, <1>3, <1>4 DEF EndInv, EndOK

\* Every step preserves the invariant of both ends.
LEMMA NextEnds ==
  ASSUME IInv, EndsOK, [Next]_vars
  PROVE  EndsOK'
<1> USE ZenonT(30)
<1>1. CASE UNCHANGED vars
  BY <1>1 DEF vars, EndsOK, EndInv
<1>2. ASSUME NEW e \in End, SendSack(e) PROVE EndsOK'
  <2>1. /\ stream' = stream /\ recv_rx' = recv_rx /\ phase' = phase /\ driver' = driver
        /\ handles' = handles /\ closing' = closing
    BY <1>2 DEF SendSack, AppUnchanged
  <2> QED BY <2>1 DEF EndsOK, EndInv
<1>3. CASE Next
  <2>1. PICK e \in End : \/ AppNext(e) \/ PollWriteMore(e) \/ DriverNext(e)
                         \/ TimerElapses(e) \/ (\E p \in net[e] : Deliver(e, p))
                         \/ SocketGone(e) \/ SendSack(e)
    BY <1>3 DEF Next
  <2>2. CASE AppNext(e)
    BY <2>2, WriteEnds, ReadEnds, CloseEnds DEF AppNext
  <2>3. CASE DriverNext(e)
    BY <2>3, WakeEnds, CloseEnds, IncomingEnds, DriveEnds DEF DriverNext
  <2> QED BY <2>1, <2>2, <2>3, <1>2, WriteEnds, WakeEnds
<1> QED BY <1>1, <1>3

\* Both ends of a connection stay as EndOK says: what wakes the driver, what
\* it has sent, and what close() and drops have done agree at every step.
THEOREM EndsInvariance == Spec => []EndsOK
<1>1. Init => EndsOK
  BY InitEnds
<1>2. IInv /\ EndsOK /\ [Next]_vars => EndsOK'
  BY NextEnds
<1> QED BY <1>1, <1>2, Invariance, PTL DEF Spec

\* No wake-up of a driver task is lost: whatever the application, the network
\* and the timer do while it is polled or asleep, a driver that sleeps has
\* nothing to do and will be woken (StreamDriver::poll, wake_driver).
THEOREM DriverIsWoken == Spec => []SleepingDriver
<1>1. EndsOK => SleepingDriver
  BY ZenonT(30) DEF EndsOK, EndInv, EndOK, Asleep, SleepingDriver
<1> QED BY <1>1, EndsInvariance, PTL

\* A live stream never has more in flight than its congestion window and one
\* header (send_data_packet, poll_check_timeouts, flush_waiting_packets).
THEOREM WindowIsKept == Spec => []CwndRespected
<1>1. EndsOK => CwndRespected
  BY ZenonT(30) DEF EndsOK, EndInv, EndOK, InWindow, CwndRespected
<1> QED BY <1>1, EndsInvariance, PTL

\* A packet is handed to the socket at most MAX_TRANSMITS + 2 times, for
\* every value of UDX_MAX_TRANSMITS (poll_check_timeouts).
THEOREM AttemptsEnd == Spec => []AttemptsBounded
<1>1. IInv /\ EndsOK => AttemptsBounded
  <2> SUFFICES ASSUME IInv, EndsOK, NEW e \in End, NEW i \in DOMAIN stream[e].outgoing
               PROVE  Attempts(stream[e].outgoing[i]) <= MAX_TRANSMITS + 2
    BY ZenonT(30) DEF AttemptsBounded
  <2>1. stream[e].outgoing[i].transmits <= MAX_TRANSMITS + 1
    BY ZenonT(30) DEF EndsOK, EndInv, EndOK, Tries
  <2>2. stream[e].outgoing[i] \in OutgoingPacket
    BY ZenonT(30), EndFacts DEF StreamOK, IsMapTo
  <2>3. stream[e].outgoing[i].transmits \in Nat
    BY ZenonT(30), <2>2 DEF OutgoingPacket
  <2> HIDE DEF EndsOK, IInv
  <2> QED BY <2>1, <2>3, ConstantsAssumption DEF Attempts
<1> QED BY <1>1, EndsInvariance, Invariance, PTL

\* Drops of clones, in any interleaving of their two steps, do not reset a
\* stream that is still held (Drop for UdxStream).
THEOREM HeldIsNotReset == Spec => []ResetByLastDrop
<1>1. EndsOK => ResetByLastDrop
  BY ZenonT(30) DEF EndsOK, EndInv, EndOK, ResetByLastDrop
<1> QED BY <1>1, EndsInvariance, PTL

\* Where close() is called at most once at an end, its future resolves only
\* when the peer has every packet (close, StreamDriver::poll).
THEOREM CloseWaits ==
  ASSUME OneCloser
  PROVE  Spec => []CloseFlushes
<1>1. EndsOK /\ NothingForgotten => CloseFlushes
  <2> SUFFICES ASSUME EndsOK, NothingForgotten, NEW e \in End, NEW c \in Closers,
                      closing[e][c] = "resolved",
                      NEW i \in 0 .. (stream[e].seq - 1)
               PROVE  Got(stream[Peer(e)], i)
    BY ZenonT(30) DEF CloseFlushes
  <2>1. DOMAIN stream[e].outgoing = {}
    BY ZenonT(30), OneCloser DEF EndsOK, EndInv, EndOK
  <2> QED BY ZenonT(30), <2>1 DEF NothingForgotten
<1> QED BY <1>1, EndsInvariance, RetransmissionCorrect, PTL

=============================================================================
