--------------------------- MODULE UdxTimerProofs ---------------------------
(***************************************************************************)
(* The timer of a stream (module UdxTimer) for any number of packets, any  *)
(* timeouts and any running time: the estimator stays within its samples,  *)
(* losses are spaced by the timeout, and the stream gives up late.         *)
(***************************************************************************)
EXTENDS UdxTimer, UdxStreamProofs

-----------------------------------------------------------------------------
(* Attempts *)

\* A packet that poll_write sends was never declared lost.
LEMMA WriteAttempts ==
  ASSUME NEW s, StreamOK(s), NEW n \in Nat \ {0}
  PROVE  SendDataPacket(s, n).outgoing[s.seq].transmits = 0
<1> DEFINE len == ChunkLen(n)
           p == CreatePacket(s, {"DATA"}, s.tx_bytes, len)
           o == [packet |-> p, waiting |-> FALSE, transmits |-> 0]
           q == QueueData(s, n)
<1>1. q = [s EXCEPT !.seq = @ + 1, !.tx_bytes = @ + len, !.inflight_bytes = @ + len,
                    !.inflight_packets = @ + 1, !.outgoing = Insert(@, s.seq, o),
                    !.inflight = @ + HEADER_SIZE + len, !.send_queue = @ \cup {p}]
  BY DEF QueueData
<1>2. o.transmits = 0
  OBVIOUS
<1> HIDE DEF len, p, o, q
<1>3. DOMAIN q = StreamFields /\ q.outgoing = Insert(s.outgoing, s.seq, o)
  BY ZenonT(30), <1>1 DEF StreamOK, StreamFields
<1>4. SendDataPacket(s, n).outgoing = q.outgoing
  BY ZenonT(30), <1>3, WakeDriverFrame DEF SendDataPacket, StreamFields, q
<1>5. q.outgoing[s.seq] = o
  BY <1>3 DEF Insert
<1> QED BY <1>2, <1>4, <1>5

\* poll_check_timeouts counts at most one more loss for a packet, and none
\* unless the timer fires.
LEMMA CheckAttempts ==
  ASSUME NEW s, StreamOK(s), NEW i \in DOMAIN s.outgoing
  PROVE  LET k == PollCheckTimeouts(s).outgoing[i].transmits
         IN  \/ k = s.outgoing[i].transmits
             \/ RtoFires(s) /\ k = s.outgoing[i].transmits + 1
<1> DEFINE lost(o) == [packet |-> o.packet, waiting |-> TRUE, transmits |-> o.transmits + 1]
           out == [j \in DOMAIN s.outgoing |->
                     IF j \in Lost(s) THEN lost(s.outgoing[j]) ELSE s.outgoing[j]]
<1>1. CASE ~ RtoFires(s)
  BY <1>1 DEF PollCheckTimeouts
<1>2. CASE RtoFires(s)
  <2>1. PollCheckTimeouts(s).outgoing = out
    BY ZenonT(30), <1>2 DEF PollCheckTimeouts, StreamOK, StreamFields
  <2>2. lost(s.outgoing[i]).transmits = s.outgoing[i].transmits + 1
    OBVIOUS
  <2>3. out[i] = lost(s.outgoing[i]) \/ out[i] = s.outgoing[i]
    BY ZenonT(30)
  <2> HIDE DEF out, lost
  <2> QED BY ZenonT(30), <1>2, <2>1, <2>2, <2>3
<1> QED BY ZenonT(30), <1>1, <1>2

\* flush_waiting_packets counts nothing.
LEMMA FlushAttempts ==
  ASSUME NEW s, StreamOK(s), NEW i \in DOMAIN s.outgoing
  PROVE  FlushWaitingPackets(s).outgoing[i].transmits = s.outgoing[i].transmits
<1> DEFINE F == Flushable(s)
           out == [j \in DOMAIN s.outgoing |->
                     IF j \in F THEN [s.outgoing[j] EXCEPT !.waiting = FALSE]
                     ELSE s.outgoing[j]]
<1>1. FlushWaitingPackets(s).outgoing = out
  BY ZenonT(30) DEF FlushWaitingPackets, StreamOK, StreamFields
<1>2. s.outgoing[i] \in OutgoingPacket
  BY ZenonT(30) DEF StreamOK, IsMapTo
<1>3. [s.outgoing[i] EXCEPT !.waiting = FALSE].transmits = s.outgoing[i].transmits
  BY <1>2 DEF OutgoingPacket
<1>4. out[i] = [s.outgoing[i] EXCEPT !.waiting = FALSE] \/ out[i] = s.outgoing[i]
  OBVIOUS
<1> HIDE DEF out
<1> QED BY ZenonT(30), <1>1, <1>3, <1>4

-----------------------------------------------------------------------------
(* Ages *)

\* Packets out, written at the times b up to time t: one that was declared
\* lost k times had its k - 1 further timeouts by time q.
Ages(out, b, q, t) ==
  \A i \in DOMAIN out :
     /\ i \in DOMAIN b /\ b[i] \in Nat /\ b[i] <= t
     /\ out[i].transmits \in Nat
     /\ out[i].transmits # 0 => b[i] + (out[i].transmits - 1) * MIN_RTO <= q

\* One more loss, a smallest timeout later.
LEMMA OneMore ==
  ASSUME NEW k \in Nat, k # 0, NEW m \in Nat, NEW b \in Nat, NEW q \in Nat, NEW t \in Nat,
         b + (k - 1) * m <= q, q + m <= t
  PROVE  b + k * m <= t
<1>1. k * m = (k - 1) * m + m
  OBVIOUS
<1>2. (k - 1) * m \in Int /\ k * m \in Int
  OBVIOUS
<1> DEFINE x == (k - 1) * m
           y == k * m
<1> HIDE DEF x, y
<1>3. y = x + m /\ x \in Int /\ y \in Int /\ b + x <= q
  BY <1>1, <1>2 DEF x, y
<1>4. b + y <= t
  BY <1>3
<1> QED BY <1>4 DEF y

\* A timeout at time t ages the packets it declares lost, whichever they are.
LEMMA AgesTimeout ==
  ASSUME NEW out, NEW out2, NEW b, NEW q \in Nat, NEW t \in Nat,
         Ages(out, b, q, t), q + MIN_RTO <= t, DOMAIN out2 = DOMAIN out,
         \A i \in DOMAIN out : \/ out2[i].transmits = out[i].transmits
                               \/ out2[i].transmits = out[i].transmits + 1
  PROVE  Ages(out2, b, t, t)
<1> SUFFICES ASSUME NEW i \in DOMAIN out2
             PROVE  /\ i \in DOMAIN b /\ b[i] \in Nat /\ b[i] <= t
                    /\ out2[i].transmits \in Nat
                    /\ out2[i].transmits # 0 =>
                         b[i] + (out2[i].transmits - 1) * MIN_RTO <= t
  BY DEF Ages
<1> DEFINE k == out[i].transmits
           k2 == out2[i].transmits
<1>1. /\ i \in DOMAIN b /\ b[i] \in Nat /\ b[i] <= t /\ k \in Nat
      /\ k # 0 => b[i] + (k - 1) * MIN_RTO <= q
  BY ZenonT(30) DEF Ages
<1>2. k2 = k \/ k2 = k + 1
  OBVIOUS
<1>3. MIN_RTO \in Nat
  BY TimeAssumption
<1> HIDE DEF k, k2
<1>4. k # 0 => b[i] + k * MIN_RTO <= t
  BY <1>1, <1>3, OneMore
<1>5. k # 0 => b[i] + (k - 1) * MIN_RTO <= t
  <2> DEFINE x == (k - 1) * MIN_RTO
  <2>1. k # 0 => x \in Nat
    BY <1>1, <1>3
  <2>2. k # 0 => b[i] + x <= q
    BY <1>1
  <2> HIDE DEF x
  <2>3. k # 0 => b[i] + x <= t
    BY <1>1, <1>3, <2>1, <2>2
  <2> QED BY <2>3 DEF x
<1>6. k2 = k + 1 => k2 - 1 = k
  BY <1>1
<1>7. k = 0 => k * MIN_RTO = 0
  BY <1>3
<1>8. k2 = k + 1 => b[i] + (k2 - 1) * MIN_RTO <= t
  BY <1>1, <1>4, <1>6, <1>7
<1>9. k2 \in Nat
  BY <1>1, <1>2
<1>10. k2 # 0 => b[i] + (k2 - 1) * MIN_RTO <= t
  BY <1>2, <1>5, <1>8
<1> QED BY <1>1, <1>9, <1>10 DEF k2

\* Ages do not depend on what is no longer outgoing, and time only adds.
LEMMA AgesLater ==
  ASSUME NEW out, NEW out2, NEW b, NEW b2, NEW q \in Nat, NEW q2 \in Nat,
         NEW t \in Nat, NEW t2 \in Nat,
         Ages(out, b, q, t), q <= q2, t <= t2, DOMAIN out2 \subseteq DOMAIN out,
         \A i \in DOMAIN out2 : /\ out2[i].transmits = out[i].transmits
                                /\ i \in DOMAIN b => i \in DOMAIN b2 /\ b2[i] = b[i]
  PROVE  Ages(out2, b2, q2, t2)
<1> SUFFICES ASSUME NEW i \in DOMAIN out2
             PROVE  /\ i \in DOMAIN b2 /\ b2[i] \in Nat /\ b2[i] <= t2
                    /\ out2[i].transmits \in Nat
                    /\ out2[i].transmits # 0 =>
                         b2[i] + (out2[i].transmits - 1) * MIN_RTO <= q2
  BY ZenonT(30) DEF Ages
<1> DEFINE k == out[i].transmits
           x == (k - 1) * MIN_RTO
<1>1. /\ i \in DOMAIN b /\ b[i] \in Nat /\ b[i] <= t /\ k \in Nat
      /\ k # 0 => b[i] + x <= q
  BY ZenonT(30) DEF Ages
<1>2. out2[i].transmits = k /\ i \in DOMAIN b2 /\ b2[i] = b[i]
  BY ZenonT(30), <1>1
<1>3. x \in Int
  <2> HIDE DEF k
  <2> QED BY <1>1, TimeAssumption
<1>4. k # 0 => b[i] + x <= q2
  <2> HIDE DEF k, x
  <2> QED BY <1>1, <1>3
<1>5. (out2[i].transmits - 1) * MIN_RTO = x
  BY ZenonT(30), <1>2
<1> HIDE DEF k, x
<1> QED BY <1>1, <1>2, <1>4, <1>5

-----------------------------------------------------------------------------
(* The estimator *)

\* Rto grows with its arguments and is at least MIN_RTO.
LEMMA RtoMonotone ==
  ASSUME NEW s \in Nat, NEW v \in Nat, NEW s2 \in Nat, NEW v2 \in Nat, s <= s2, v <= v2
  PROVE  /\ Rto(s, v) \in Nat /\ MIN_RTO <= Rto(s, v)
         /\ Rto(s, v) <= Rto(s2, v2)
BY TimeAssumption DEF Rto, Larger

\* A sample moves the estimates no further than the longest sample.
LEMMA Estimator ==
  ASSUME srtt \in Nat, rttvar \in Nat, NEW m \in Nat, srtt <= m, rttvar <= m,
         NEW rtt \in Nat, rtt <= m
  PROVE  /\ NextSrtt(rtt) \in Nat /\ NextSrtt(rtt) <= m
         /\ NextVar(rtt) \in Nat /\ NextVar(rtt) <= m
<1>1. NextSrtt(rtt) \in Nat /\ NextSrtt(rtt) <= m
  BY DEF NextSrtt
<1>2. Distance(rtt, srtt) \in Nat /\ Distance(rtt, srtt) <= m
  BY DEF Distance
<1>3. NextVar(rtt) \in Nat /\ NextVar(rtt) <= m
  <2> HIDE DEF Distance
  <2> QED BY <1>2 DEF NextVar
<1> QED BY <1>1, <1>3

-----------------------------------------------------------------------------
(* The inductive invariant *)

\* The stream is sound and its packets have the ages their attempts imply.
StreamInv ==
  /\ StreamOK(stream) /\ SenderOK(stream)
  /\ stream.remote_acked <= stream.seq /\ acking <= stream.seq
  /\ Ages(stream.outgoing, born, quiet_since, now)

\* The estimates lie within the samples, the deadline lies a whole timeout
\* after the last ack or timeout, and nothing was sent in the future.
ClockInv ==
  /\ srtt <= longest /\ rttvar <= longest
  /\ RtoWithinSamples
  /\ quiet_since <= now /\ quiet_since + rto <= deadline
  /\ \A i \in DOMAIN time_sent : time_sent[i] <= now

TInv == TypeOK /\ StreamInv /\ ClockInv

\* Idle is an integer below every number.
LEMMA IdleBelow == Idle \in Int /\ Nat \subseteq Int /\ \A x \in Nat : Idle <= x
  BY DEF Idle

\* The invariant holds of a new stream.
LEMMA InitTInv == Init => TInv
<1> SUFFICES ASSUME Init PROVE TInv
  OBVIOUS
<1> USE TimeAssumption, ConstantsAssumption
<1>1. StreamOK(stream) /\ SenderOK(stream) /\ stream.outgoing = NoPackets
      /\ stream.remote_acked = 0 /\ stream.seq = 0
  BY ZenonT(30), NewStream DEF Init, InitialStream
<1>2. IsMapTo(Nothing, Nat)
  BY FS_EmptySet DEF IsMapTo, Nothing
<1>3. TypeOK
  BY <1>1, <1>2 DEF TypeOK, Init, Idle
<1>4. StreamInv
  BY <1>1 DEF StreamInv, Init, Ages, NoPackets, Idle
<1>5. 0 <= 0 /\ MIN_RTO <= Rto(0, 0)
  BY DEF Rto, Larger
<1>6. ClockInv
  BY <1>5 DEF ClockInv, Init, RtoWithinSamples, Nothing
<1> QED BY <1>3, <1>4, <1>6 DEF TInv

-----------------------------------------------------------------------------
(* Every step keeps it *)

\* Removing a key leaves a map a map.
LEMMA WithoutMap ==
  ASSUME NEW f, NEW T, IsMapTo(f, T), NEW k
  PROVE  IsMapTo(Without(f, k), T)
<1> DEFINE g == Without(f, k)
<1>1. g = [i \in DOMAIN f \ {k} |-> f[i]]
  BY DEF Without
<1>2. DOMAIN g = DOMAIN f \ {k} /\ \A i \in DOMAIN g : g[i] = f[i]
  BY <1>1
<1>3. g = [i \in DOMAIN g |-> g[i]]
  BY <1>1, <1>2
<1>4. IsFiniteSet(DOMAIN g)
  BY <1>2, FS_Subset DEF IsMapTo
<1> HIDE DEF g
<1>5. IsMapTo(g, T)
  BY <1>2, <1>3, <1>4 DEF IsMapTo
<1> QED BY <1>5 DEF g

\* poll_write adds a packet that was just born.
LEMMA WriteTInv ==
  ASSUME TInv, NEW n \in 1 .. MAX_DATA_SIZE, Write(n)
  PROVE  TInv'
<1> DEFINE t == SendDataPacket(stream, n)
<1>1. n \in Nat \ {0} /\ StreamOK(stream) /\ SenderOK(stream)
      /\ stream.remote_acked <= stream.seq /\ stream.seq \in Nat
      /\ stream.remote_acked \in Nat
  BY ConstantsAssumption DEF TInv, StreamInv, StreamOK
<1>2. /\ StreamOK(t) /\ SenderOK(t) /\ t.seq = stream.seq + 1
      /\ DOMAIN t.outgoing = DOMAIN stream.outgoing \cup {stream.seq}
      /\ \A i \in DOMAIN stream.outgoing : t.outgoing[i] = stream.outgoing[i]
      /\ t.remote_acked = stream.remote_acked
  BY ZenonT(30), <1>1, SendDataPacketFrame
<1>3. t.outgoing[stream.seq].transmits = 0
  BY ZenonT(30), <1>1, WriteAttempts
<1> HIDE DEF t
<1>4. stream' = t /\ born' = Insert(born, stream.seq, now)
      /\ UNCHANGED <<estimate, deadline, time_sent, queued, acking, now,
                     first_sent, longest, quiet_since>>
  BY ZenonT(30) DEF Write, t
<1>5. IsMapTo(born', Nat)
  BY ZenonT(30), <1>1, <1>4, InsertMap DEF TInv, TypeOK
<1>6. TypeOK'
  BY ZenonT(30), <1>2, <1>4, <1>5 DEF TInv, TypeOK, estimate, Idle
<1>7. Ages(t.outgoing, born', quiet_since, now)
  <2> SUFFICES ASSUME NEW i \in DOMAIN t.outgoing
               PROVE  /\ i \in DOMAIN born' /\ born'[i] \in Nat /\ born'[i] <= now
                      /\ t.outgoing[i].transmits \in Nat
                      /\ t.outgoing[i].transmits # 0 =>
                           born'[i] + (t.outgoing[i].transmits - 1) * MIN_RTO <= quiet_since
    BY ZenonT(30) DEF Ages
  <2>1. now \in Nat
    BY DEF TInv, TypeOK
  <2>2. CASE i = stream.seq
    <3>1. i \in DOMAIN born' /\ born'[i] = now
      BY ZenonT(30), <1>4, <2>2 DEF Insert
    <3> QED BY <1>3, <2>1, <2>2, <3>1
  <2>3. CASE i # stream.seq
    <3>1. i \in DOMAIN stream.outgoing /\ t.outgoing[i] = stream.outgoing[i]
      BY ZenonT(30), <1>2, <2>3
    <3>2. i \in DOMAIN born
      BY ZenonT(30), <3>1 DEF TInv, StreamInv, Ages
    <3>3. i \in DOMAIN born' /\ born'[i] = born[i]
      BY ZenonT(30), <1>4, <2>3, <3>2 DEF Insert
    <3> QED BY ZenonT(30), <3>1, <3>3 DEF TInv, StreamInv, Ages
  <2> QED BY ZenonT(30), <2>2, <2>3
<1>8. StreamInv'
  <2>1. acking <= stream.seq /\ acking \in Int
    BY DEF TInv, StreamInv, TypeOK, Idle
  <2> QED BY <1>1, <1>2, <1>4, <1>7, <2>1 DEF StreamInv
<1>9. ClockInv'
  BY ZenonT(30), <1>4 DEF TInv, ClockInv, RtoWithinSamples, estimate
<1> QED BY <1>6, <1>8, <1>9 DEF TInv

\* The socket stamps a packet with the present time.
LEMMA TransmitTInv ==
  ASSUME TInv, NEW q \in queued, Transmit(q)
  PROVE  TInv'
<1>1. q[1] \in Nat /\ now \in Nat
  BY DEF TInv, TypeOK
<1>2. IsMapTo(time_sent', Nat) /\ IsMapTo(first_sent', Nat)
  BY ZenonT(30), <1>1, InsertMap DEF TInv, TypeOK, Transmit
<1>3. \A i \in DOMAIN time_sent' : time_sent'[i] <= now
  BY <1>1 DEF TInv, ClockInv, Transmit, Insert
<1>4. TypeOK'
  BY ZenonT(30), <1>2 DEF TInv, TypeOK, Transmit, estimate, Idle
<1>5. StreamInv'
  BY ZenonT(30) DEF TInv, StreamInv, Transmit
<1>6. ClockInv'
  BY ZenonT(30), <1>3 DEF TInv, ClockInv, RtoWithinSamples, Transmit, estimate
<1> QED BY <1>4, <1>5, <1>6 DEF TInv

\* Time passes.
LEMMA TickTInv ==
  ASSUME TInv, Tick
  PROVE  TInv'
<1>1. now \in Nat /\ now' = now + 1 /\ quiet_since \in Nat
  BY ZenonT(30) DEF TInv, TypeOK, Tick
<1>2. UNCHANGED <<stream, estimate, deadline, time_sent, queued, acking, history>>
  BY DEF Tick
<1>3. TypeOK'
  BY <1>1, <1>2 DEF TInv, TypeOK, estimate, history, Idle
<1>4. Ages(stream.outgoing, born, quiet_since, now')
  <2>1. Ages(stream.outgoing, born, quiet_since, now)
    BY DEF TInv, StreamInv
  <2>2. now' \in Nat /\ now <= now' /\ quiet_since <= quiet_since
    BY <1>1
  <2> QED BY ZenonT(30), <1>1, <2>1, <2>2, AgesLater
<1>5. StreamInv'
  BY ZenonT(30), <1>2, <1>4 DEF TInv, StreamInv, history
<1>6. \A i \in DOMAIN time_sent : time_sent[i] <= now'
  BY <1>1 DEF TInv, ClockInv, TypeOK, IsMapTo
<1>7. ClockInv'
  BY <1>1, <1>2, <1>6 DEF TInv, ClockInv, RtoWithinSamples, estimate, history
<1> QED BY <1>3, <1>5, <1>7 DEF TInv

\* handle_incoming of an ack touches the window alone.
LEMMA PollBeginsTInv ==
  ASSUME TInv, NEW a \in 0 .. stream.seq, PollBegins(a)
  PROVE  TInv'
<1> DEFINE t == GrowWindow(stream, a)
<1>1. a \in Nat /\ a <= stream.seq /\ StreamOK(stream) /\ SenderOK(stream)
  BY DEF TInv, StreamInv, StreamOK
<1>2. /\ StreamOK(t)
      /\ \A f \in StreamFields \ {"cwnd"} : t[f] = stream[f]
  BY ZenonT(30), <1>1, GrowWindowFrame
<1> HIDE DEF t
<1>3. /\ t.outgoing = stream.outgoing /\ t.seq = stream.seq
      /\ t.remote_acked = stream.remote_acked /\ t.inflight = stream.inflight
      /\ t.inflight_packets = stream.inflight_packets
      /\ t.inflight_bytes = stream.inflight_bytes
  BY ZenonT(30), <1>2 DEF StreamFields
<1>4. SenderOK(t)
  BY ZenonT(30), <1>1, <1>3 DEF SenderOK, CountersExact, NotWaiting
<1>5. stream' = t /\ acking' = a
      /\ UNCHANGED <<estimate, deadline, time_sent, queued, now, history>>
  BY DEF PollBegins, t
<1>6. TypeOK'
  BY ZenonT(30), <1>1, <1>2, <1>5 DEF TInv, TypeOK, estimate, history
<1>7. StreamInv'
  BY ZenonT(30), <1>1, <1>2, <1>3, <1>4, <1>5 DEF TInv, StreamInv, history
<1>8. ClockInv'
  BY ZenonT(30), <1>5 DEF TInv, ClockInv, RtoWithinSamples, estimate, history
<1> QED BY <1>6, <1>7, <1>8 DEF TInv

\* One round of the loop of handle_incoming_max_remote_ack.
LEMMA AckOne ==
  ASSUME NEW s, StreamOK(s), SenderOK(s)
  PROVE  LET t == HandleIncomingMaxRemoteAck(s, s.remote_acked + 1)
         IN  /\ StreamOK(t) /\ SenderOK(t)
             /\ t.remote_acked = s.remote_acked + 1
             /\ DOMAIN t.outgoing \subseteq DOMAIN s.outgoing
             /\ \A j \in DOMAIN t.outgoing : t.outgoing[j] = s.outgoing[j]
             /\ t.seq = s.seq
<1> DEFINE a == s.remote_acked + 1
           t == HandleIncomingMaxRemoteAck(s, a)
<1>1. a \in Nat /\ Larger(s.remote_acked, a) = a
  BY DEF StreamOK, Larger
<1> HIDE DEF a
<1>2. /\ StreamOK(t) /\ SenderOK(t)
      /\ t.remote_acked = Larger(s.remote_acked, a)
      /\ DOMAIN t.outgoing \subseteq DOMAIN s.outgoing
      /\ \A j \in DOMAIN t.outgoing : t.outgoing[j] = s.outgoing[j]
      /\ \A f \in StreamFields \ {"outgoing", "inflight", "inflight_bytes",
            "inflight_packets", "remote_acked", "write_waker", "rto_timeout"} : t[f] = s[f]
  BY ZenonT(30), <1>1, MaxRemoteAckFrame
<1> HIDE DEF t
<1>3. t.seq = s.seq
  BY ZenonT(30), <1>2 DEF StreamFields
<1> QED BY ZenonT(30), <1>1, <1>2, <1>3 DEF t, a

\* An ack removes a packet, may take a sample, and winds the timer with the
\* timeout it leaves.
LEMMA AckNextTInv ==
  ASSUME TInv, AckNext
  PROVE  TInv'
<1> DEFINE i == stream.remote_acked
           t == HandleIncomingMaxRemoteAck(stream, i + 1)
           rtt == now - time_sent[i]
<1>1. /\ StreamOK(stream) /\ SenderOK(stream) /\ i \in Nat /\ i + 1 \in Nat
      /\ stream.seq \in Nat /\ i < acking /\ acking <= stream.seq /\ acking \in Int
  <2>1. /\ StreamOK(stream) /\ SenderOK(stream) /\ i < acking /\ acking <= stream.seq
        /\ acking \in Nat \cup {Idle}
    BY ZenonT(30) DEF TInv, StreamInv, AckNext, TypeOK
  <2>2. i \in Nat /\ stream.seq \in Nat
    BY ZenonT(30), <2>1 DEF StreamOK
  <2> QED BY ZenonT(30), NextNat, <2>1, <2>2, IdleBelow
<1>2. /\ StreamOK(t) /\ SenderOK(t)
      /\ t.remote_acked = i + 1
      /\ DOMAIN t.outgoing \subseteq DOMAIN stream.outgoing
      /\ \A j \in DOMAIN t.outgoing : t.outgoing[j] = stream.outgoing[j]
      /\ t.seq = stream.seq
  BY ZenonT(30), <1>1, AckOne
<1>3. /\ stream' = t /\ deadline' = now + rto' /\ quiet_since' = now
      /\ queued' = {q \in queued : q[1] # i} /\ time_sent' = Without(time_sent, i)
      /\ born' = Without(born, i) /\ first_sent' = Without(first_sent, i)
      /\ UNCHANGED <<acking, now>>
      /\ IF Sampled(i) THEN Estimate(rtt) /\ longest' = Larger(longest, rtt)
         ELSE UNCHANGED <<estimate, longest>>
  BY ZenonT(30) DEF AckNext
<1> HIDE DEF i, t
<1>5. IsMapTo(time_sent', Nat) /\ IsMapTo(born', Nat) /\ IsMapTo(first_sent', Nat)
  BY ZenonT(30), <1>3, WithoutMap DEF TInv, TypeOK
<1>6. /\ srtt' \in Nat /\ rttvar' \in Nat /\ rto' \in Nat /\ longest' \in Nat
      /\ srtt' <= longest' /\ rttvar' <= longest'
      /\ MIN_RTO <= rto' /\ rto' <= Rto(longest', longest')
  <2>1. /\ srtt \in Nat /\ rttvar \in Nat /\ rto \in Nat /\ longest \in Nat
        /\ srtt <= longest /\ rttvar <= longest
        /\ MIN_RTO <= rto /\ rto <= Rto(longest, longest)
    BY ZenonT(30) DEF TInv, TypeOK, ClockInv, RtoWithinSamples
  <2>2. CASE ~ Sampled(i)
    <3>1. srtt' = srtt /\ rttvar' = rttvar /\ rto' = rto /\ longest' = longest
      BY ZenonT(30), <1>3, <2>2 DEF estimate
    <3> QED BY ZenonT(30), <2>1, <3>1
  <2>3. CASE Sampled(i)
    <3>1. rtt \in Nat
      BY <2>3 DEF Sampled, TInv, TypeOK, ClockInv, IsMapTo
    <3>2. /\ srtt' = NextSrtt(rtt) /\ rttvar' = NextVar(rtt) /\ rto' = Rto(srtt', rttvar')
          /\ longest' = Larger(longest, rtt)
      BY ZenonT(30), <1>3, <2>3 DEF Estimate
    <3> HIDE DEF rtt
    <3>3. longest' \in Nat /\ longest <= longest' /\ rtt <= longest'
      BY <2>1, <3>1, <3>2 DEF Larger
    <3>4. srtt <= longest' /\ rttvar <= longest'
      BY <2>1, <3>3
    <3>5. /\ NextSrtt(rtt) \in Nat /\ NextSrtt(rtt) <= longest'
          /\ NextVar(rtt) \in Nat /\ NextVar(rtt) <= longest'
      BY ZenonT(30), <2>1, <3>1, <3>3, <3>4, Estimator
    <3>6. /\ srtt' \in Nat /\ rttvar' \in Nat /\ srtt' <= longest' /\ rttvar' <= longest'
      BY ZenonT(30), <3>2, <3>5
    <3>7. /\ rto' \in Nat /\ MIN_RTO <= rto' /\ rto' <= Rto(longest', longest')
      BY ZenonT(30), <3>2, <3>3, <3>6, RtoMonotone
    <3> QED BY ZenonT(30), <3>3, <3>6, <3>7
  <2> QED BY ZenonT(30), <2>2, <2>3
<1>7. now \in Nat /\ quiet_since \in Nat /\ quiet_since <= now
  BY ZenonT(30) DEF TInv, TypeOK, ClockInv
<1>8. TypeOK'
  <2>1. deadline' \in Nat
    BY <1>3, <1>6, <1>7
  <2>2. queued' \subseteq Nat \X Nat
    BY ZenonT(30), <1>3 DEF TInv, TypeOK
  <2>3. acking' \in Nat \cup {Idle}
    BY ZenonT(30), <1>3 DEF TInv, TypeOK
  <2> QED BY ZenonT(30), <1>2, <1>3, <1>5, <1>6, <1>7, <2>1, <2>2, <2>3 DEF TypeOK
<1>9. Ages(t.outgoing, born', now, now)
  <2>1. Ages(stream.outgoing, born, quiet_since, now)
    BY DEF TInv, StreamInv
  <2>2. \A j \in DOMAIN t.outgoing : j # i
    BY <1>1, <1>2 DEF SenderOK, StreamOK, IsMapTo
  <2>3. \A j \in DOMAIN t.outgoing :
           /\ t.outgoing[j].transmits = stream.outgoing[j].transmits
           /\ j \in DOMAIN born => j \in DOMAIN born' /\ born'[j] = born[j]
    BY ZenonT(30), <1>2, <1>3, <2>2 DEF Without
  <2>4. now <= now
    BY <1>7
  <2> DEFINE b2 == born'
             o2 == t.outgoing
  <2>5. /\ DOMAIN o2 \subseteq DOMAIN stream.outgoing
        /\ \A j \in DOMAIN o2 :
              /\ o2[j].transmits = stream.outgoing[j].transmits
              /\ j \in DOMAIN born => j \in DOMAIN b2 /\ b2[j] = born[j]
    BY ZenonT(30), <1>2, <2>3
  <2> HIDE DEF b2, o2
  <2>6. Ages(o2, b2, now, now)
    BY ZenonT(30), <1>7, <2>1, <2>4, <2>5, AgesLater
  <2> QED BY <2>6 DEF b2, o2
<1>10. StreamInv'
  BY <1>1, <1>2, <1>3, <1>9 DEF StreamInv
<1>11. \A j \in DOMAIN time_sent' : time_sent'[j] <= now
  BY ZenonT(30), <1>3 DEF TInv, ClockInv, Without
<1>12. /\ now' = now /\ quiet_since' <= now' /\ quiet_since' + rto' <= deadline'
  <2>1. deadline' = now + rto' /\ quiet_since' = now /\ now' = now
    BY ZenonT(30), <1>3
  <2>2. rto' \in Nat
    BY ZenonT(30), <1>6
  <2>3. now \in Nat
    BY ZenonT(30), <1>7
  <2>4. ASSUME NEW x \in Nat, NEW y \in Nat PROVE x <= x /\ x + y <= x + y
    OBVIOUS
  <2> QED BY ZenonT(30), <2>1, <2>2, <2>3, <2>4
<1>13. ClockInv'
  BY ZenonT(30), <1>6, <1>11, <1>12 DEF ClockInv, RtoWithinSamples
<1> QED BY <1>8, <1>10, <1>13 DEF TInv

\* The stream that poll_check_timeouts finds differs in its timer alone.
LEMMA ElapsedOK ==
  ASSUME TInv
  PROVE  /\ StreamOK(Elapsed) /\ SenderOK(Elapsed)
         /\ \A f \in StreamFields \ {"rto_timeout"} : Elapsed[f] = stream[f]
         /\ RtoFires(Elapsed) => deadline <= now
<1> DEFINE v == IF deadline <= now THEN "elapsed" ELSE "armed"
           t == Elapsed
<1>1. t = [stream EXCEPT !.rto_timeout = v]
  BY DEF Elapsed
<1>2. v \in {"armed", "elapsed"} /\ (v = "elapsed" => deadline <= now)
  OBVIOUS
<1>3. StreamOK(stream) /\ SenderOK(stream) /\ DOMAIN stream = StreamFields
  BY ZenonT(30) DEF TInv, StreamInv, StreamOK
<1> HIDE DEF v, t
<1>4. /\ DOMAIN t = StreamFields /\ t.rto_timeout = v
      /\ \A f \in StreamFields \ {"rto_timeout"} : t[f] = stream[f]
  BY ZenonT(30), <1>1, <1>3 DEF StreamFields
<1>5. StreamOK(t)
  BY ZenonT(60), <1>2, <1>3, <1>4 DEF StreamOK, StreamFields
<1>6. /\ t.outgoing = stream.outgoing /\ t.seq = stream.seq
      /\ t.remote_acked = stream.remote_acked /\ t.inflight = stream.inflight
      /\ t.inflight_packets = stream.inflight_packets
      /\ t.inflight_bytes = stream.inflight_bytes
  BY ZenonT(30), <1>4 DEF StreamFields
<1>7. SenderOK(t)
  BY ZenonT(30), <1>3, <1>6 DEF SenderOK, CountersExact, NotWaiting
<1>8. RtoFires(t) => v = "elapsed"
  BY ZenonT(30), <1>4 DEF RtoFires
<1> QED BY ZenonT(30), <1>2, <1>4, <1>5, <1>7, <1>8 DEF t

\* When the timer fires, a whole timeout has passed since the last ack or
\* timeout.
LEMMA FiresLate ==
  ASSUME TInv, RtoFires(Elapsed)
  PROVE  quiet_since + rto <= now /\ quiet_since + MIN_RTO <= now
<1>1. deadline <= now
  BY ZenonT(30), ElapsedOK
<1>2. /\ quiet_since \in Nat /\ rto \in Nat /\ deadline \in Nat /\ now \in Nat
      /\ quiet_since + rto <= deadline /\ MIN_RTO <= rto
  BY ZenonT(30) DEF TInv, TypeOK, ClockInv, RtoWithinSamples
<1> QED BY <1>1, <1>2, TimeAssumption

\* After poll_check_timeouts the packets have the ages their attempts imply.
LEMMA CheckedAges ==
  ASSUME TInv, NEW out2, DOMAIN out2 = DOMAIN stream.outgoing,
         \A i \in DOMAIN out2 :
            out2[i].transmits = PollCheckTimeouts(Elapsed).outgoing[i].transmits
  PROVE  Ages(out2, born, IF RtoFires(Elapsed) THEN now ELSE quiet_since, now)
<1> DEFINE out == stream.outgoing
<1>1. StreamOK(Elapsed) /\ Elapsed.outgoing = out
  BY ZenonT(30), ElapsedOK DEF StreamFields
<1>2. \A i \in DOMAIN out :
         \/ out2[i].transmits = out[i].transmits
         \/ RtoFires(Elapsed) /\ out2[i].transmits = out[i].transmits + 1
  BY ZenonT(30), <1>1, CheckAttempts
<1>3. Ages(out, born, quiet_since, now) /\ now \in Nat /\ quiet_since \in Nat
  BY ZenonT(30) DEF TInv, StreamInv, TypeOK
<1> HIDE DEF out
<1>4. CASE RtoFires(Elapsed)
  <2>1. quiet_since + MIN_RTO <= now
    BY ZenonT(30), <1>4, FiresLate
  <2>2. DOMAIN out2 = DOMAIN out
    BY ZenonT(30) DEF out
  <2>3. Ages(out2, born, now, now)
    BY ZenonT(30), <1>2, <1>3, <2>1, <2>2, AgesTimeout
  <2> QED BY ZenonT(30), <1>4, <2>3
<1>5. CASE ~ RtoFires(Elapsed)
  <2>1. /\ DOMAIN out2 \subseteq DOMAIN out
        /\ \A i \in DOMAIN out2 : /\ out2[i].transmits = out[i].transmits
                                  /\ i \in DOMAIN born => i \in DOMAIN born /\ born[i] = born[i]
    BY ZenonT(30), <1>2, <1>5 DEF out
  <2>2. now <= now /\ quiet_since <= quiet_since
    BY <1>3
  <2>3. Ages(out2, born, quiet_since, now)
    BY ZenonT(30), <1>3, <2>1, <2>2, AgesLater
  <2> QED BY ZenonT(30), <1>5, <2>3
<1> QED BY ZenonT(30), <1>4, <1>5

\* What poll_check_timeouts does to the deadline: it stays a whole timeout
\* after the last ack or timeout.
LEMMA DeadlineMoves ==
  ASSUME TInv, deadline' = NextTimeout,
         quiet_since' = IF RtoFires(Elapsed) THEN now ELSE quiet_since,
         UNCHANGED <<estimate, time_sent, now, longest>>
  PROVE  ClockInv' /\ deadline' \in Nat /\ quiet_since' \in Nat
<1>1. /\ rto' = rto /\ srtt' = srtt /\ rttvar' = rttvar /\ now' = now /\ longest' = longest
      /\ time_sent' = time_sent
  BY DEF estimate
<1>2. /\ rto \in Nat /\ now \in Nat /\ deadline \in Nat /\ quiet_since \in Nat
      /\ quiet_since <= now /\ quiet_since + rto <= deadline
  BY DEF TInv, TypeOK, ClockInv
<1>3. /\ deadline' \in Nat /\ quiet_since' \in Nat
      /\ quiet_since' <= now /\ quiet_since' + rto <= deadline'
  BY <1>2 DEF NextTimeout
<1>4. ClockInv'
  BY ZenonT(30), <1>1, <1>3 DEF TInv, ClockInv, RtoWithinSamples
<1> QED BY ZenonT(30), <1>3, <1>4

\* The driver gives the stream up.
LEMMA PollFailsTInv ==
  ASSUME TInv, PollFails
  PROVE  TInv'
<1> DEFINE c == PollCheckTimeouts(Elapsed)
           t == Terminate(c, "TimedOut")
<1>1. /\ StreamOK(Elapsed) /\ SenderOK(Elapsed)
      /\ Elapsed.outgoing = stream.outgoing /\ Elapsed.seq = stream.seq
      /\ Elapsed.remote_acked = stream.remote_acked
  BY ZenonT(30), ElapsedOK DEF StreamFields
<1>2. /\ StreamOK(c) /\ SenderOK(c)
      /\ DOMAIN c.outgoing = DOMAIN Elapsed.outgoing
      /\ c.seq = Elapsed.seq /\ c.remote_acked = Elapsed.remote_acked
  <2>1. /\ StreamOK(c) /\ SenderOK(c)
        /\ DOMAIN c.outgoing = DOMAIN Elapsed.outgoing
        /\ \A f \in StreamFields \ {"rto_timeout", "cwnd", "outgoing", "inflight"} :
              c[f] = Elapsed[f]
    BY ZenonT(30), <1>1, PollCheckTimeoutsFrame
  <2> HIDE DEF c
  <2>2. c.seq = Elapsed.seq /\ c.remote_acked = Elapsed.remote_acked
    BY ZenonT(30), <2>1 DEF StreamFields
  <2> QED BY ZenonT(30), <2>1, <2>2
<1> HIDE DEF c
<1>3. /\ StreamOK(t)
      /\ \A f \in StreamFields \ {"drive_waker", "scheduled", "send_queue", "error",
                                  "state", "read_waker", "write_waker"} : t[f] = c[f]
  <2>1. "TimedOut" \in Errors
    BY DEF Errors
  <2> QED BY ZenonT(30), <1>2, <2>1, TerminateFrame
<1> HIDE DEF t
<1>4. /\ t.outgoing = c.outgoing /\ t.seq = c.seq /\ t.remote_acked = c.remote_acked
      /\ t.inflight = c.inflight /\ t.inflight_packets = c.inflight_packets
      /\ t.inflight_bytes = c.inflight_bytes
  BY ZenonT(30), <1>3 DEF StreamFields
<1>5. SenderOK(t)
  BY ZenonT(30), <1>2, <1>4 DEF SenderOK, CountersExact, NotWaiting
<1>6. RtoFires(Elapsed)
  BY ZenonT(30) DEF PollFails, TimesOut
<1>7. /\ stream' = t /\ deadline' = NextTimeout /\ quiet_since' = now /\ acking' = Idle
      /\ UNCHANGED <<estimate, time_sent, queued, now, born, first_sent, longest>>
  BY DEF PollFails, t, c
<1>8. ClockInv' /\ deadline' \in Nat /\ quiet_since' \in Nat
  BY ZenonT(30), <1>6, <1>7, DeadlineMoves
<1>9. TypeOK'
  BY ZenonT(30), <1>3, <1>7, <1>8 DEF TInv, TypeOK, estimate
<1>10. Ages(t.outgoing, born, now, now)
  <2>1. /\ DOMAIN t.outgoing = DOMAIN stream.outgoing
        /\ \A i \in DOMAIN t.outgoing :
              t.outgoing[i].transmits = PollCheckTimeouts(Elapsed).outgoing[i].transmits
    BY ZenonT(30), <1>1, <1>2, <1>4 DEF c
  <2> DEFINE o2 == t.outgoing
  <2> HIDE DEF o2
  <2>2. Ages(o2, born, IF RtoFires(Elapsed) THEN now ELSE quiet_since, now)
    BY ZenonT(30), <2>1, CheckedAges DEF o2
  <2> QED BY ZenonT(30), <1>6, <2>2 DEF o2
<1>11. StreamInv'
  <2>1. stream.remote_acked <= stream.seq /\ stream.seq \in Nat
    BY ZenonT(30) DEF TInv, StreamInv, StreamOK
  <2> QED BY ZenonT(30), <1>1, <1>2, <1>3, <1>4, <1>5, <1>7, <1>10, <2>1, IdleBelow DEF StreamInv
<1> QED BY <1>8, <1>9, <1>11 DEF TInv

\* The driver checks the timer, flushes and transmits.
LEMMA PollEndsTInv ==
  ASSUME TInv, PollEnds
  PROVE  TInv'
<1> DEFINE c == PollCheckTimeouts(Elapsed)
           w == FlushWaitingPackets(c)
           t == [w EXCEPT !.send_queue = {}]
<1>1. /\ StreamOK(Elapsed) /\ SenderOK(Elapsed)
      /\ Elapsed.outgoing = stream.outgoing /\ Elapsed.seq = stream.seq
      /\ Elapsed.remote_acked = stream.remote_acked
  BY ZenonT(30), ElapsedOK DEF StreamFields
<1>2. /\ StreamOK(c) /\ SenderOK(c)
      /\ DOMAIN c.outgoing = DOMAIN Elapsed.outgoing
      /\ \A f \in StreamFields \ {"rto_timeout", "cwnd", "outgoing", "inflight"} :
            c[f] = Elapsed[f]
  BY ZenonT(30), <1>1, PollCheckTimeoutsFrame
<1> HIDE DEF c
<1>3. /\ StreamOK(w) /\ SenderOK(w)
      /\ DOMAIN w.outgoing = DOMAIN c.outgoing
      /\ \A f \in StreamFields \ {"outgoing", "inflight", "send_queue"} : w[f] = c[f]
  BY ZenonT(30), <1>2, FlushWaitingPacketsFrame
<1>4. \A i \in DOMAIN w.outgoing : w.outgoing[i].transmits = c.outgoing[i].transmits
  BY ZenonT(30), <1>2, <1>3, FlushAttempts
<1> HIDE DEF w
<1>5. /\ DOMAIN w = StreamFields
      /\ w.seq = stream.seq /\ w.remote_acked = stream.remote_acked
      /\ DOMAIN w.outgoing = DOMAIN stream.outgoing
  <2>1. c.seq = Elapsed.seq /\ c.remote_acked = Elapsed.remote_acked
    BY ZenonT(30), <1>2 DEF StreamFields
  <2>2. w.seq = c.seq /\ w.remote_acked = c.remote_acked
    BY ZenonT(30), <1>3 DEF StreamFields
  <2> QED BY ZenonT(30), <1>1, <1>2, <1>3, <2>1, <2>2 DEF StreamOK
<1>6. /\ DOMAIN t = StreamFields /\ t.send_queue = {}
      /\ \A f \in StreamFields \ {"send_queue"} : t[f] = w[f]
  BY ZenonT(30), <1>5 DEF StreamFields
<1> HIDE DEF t
<1>7. StreamOK(t)
  <2>1. {} \subseteq Packet
    OBVIOUS
  <2> QED BY ZenonT(60), <1>3, <1>6, <2>1 DEF StreamOK, StreamFields
<1>8. /\ t.outgoing = w.outgoing /\ t.seq = w.seq /\ t.remote_acked = w.remote_acked
      /\ t.inflight = w.inflight /\ t.inflight_packets = w.inflight_packets
      /\ t.inflight_bytes = w.inflight_bytes
  BY ZenonT(30), <1>6 DEF StreamFields
<1>9. SenderOK(t)
  BY ZenonT(30), <1>3, <1>8 DEF SenderOK, CountersExact, NotWaiting
<1> DEFINE written == {p.seq : p \in stream.send_queue} \cap DOMAIN stream.outgoing
           old == {<<i, stream.outgoing[i].transmits>> : i \in written}
           new == {<<i, w.outgoing[i].transmits>> : i \in Flushable(c)}
<1>10. /\ stream' = t /\ deadline' = NextTimeout /\ acking' = Idle
       /\ quiet_since' = IF RtoFires(Elapsed) THEN now ELSE quiet_since
       /\ queued' = queued \cup old \cup new
       /\ UNCHANGED <<estimate, time_sent, now, born, first_sent, longest>>
  BY DEF PollEnds, t, w, c
<1>11. ClockInv' /\ deadline' \in Nat /\ quiet_since' \in Nat
  BY ZenonT(30), <1>10, DeadlineMoves
<1>12. queued' \subseteq Nat \X Nat
  <2>1. \A i \in DOMAIN w.outgoing : i \in Nat /\ w.outgoing[i].transmits \in Nat
    BY ZenonT(30), <1>3 DEF StreamOK, IsMapTo, OutgoingPacket
  <2>2. \A i \in DOMAIN stream.outgoing :
           i \in Nat /\ stream.outgoing[i].transmits \in Nat
    BY ZenonT(30) DEF TInv, TypeOK, StreamOK, IsMapTo, OutgoingPacket
  <2>3. Flushable(c) \subseteq DOMAIN w.outgoing
    BY ZenonT(30), <1>3 DEF Flushable, Unacked
  <2>4. old \subseteq Nat \X Nat BY SMTT(30), <2>2
  <2>5. new \subseteq Nat \X Nat BY SMTT(30), <2>1, <2>3
  <2> HIDE DEF old, new
  <2> QED BY ZenonT(30), <1>10, <2>4, <2>5 DEF TInv, TypeOK
<1>13. TypeOK'
  <2> HIDE DEF old, new
  <2> QED BY ZenonT(30), <1>7, <1>10, <1>11, <1>12 DEF TInv, TypeOK, estimate
<1>14. Ages(t.outgoing, born, quiet_since', now)
  <2>1. /\ DOMAIN t.outgoing = DOMAIN stream.outgoing
        /\ \A i \in DOMAIN t.outgoing :
              t.outgoing[i].transmits = PollCheckTimeouts(Elapsed).outgoing[i].transmits
    BY ZenonT(30), <1>4, <1>5, <1>8 DEF c
  <2> DEFINE o2 == t.outgoing
  <2> HIDE DEF o2
  <2>2. Ages(o2, born, IF RtoFires(Elapsed) THEN now ELSE quiet_since, now)
    BY ZenonT(30), <2>1, CheckedAges DEF o2
  <2> QED BY ZenonT(30), <1>10, <2>2 DEF o2
<1>15. StreamInv'
  <2>1. stream.remote_acked <= stream.seq /\ stream.seq \in Nat
    BY ZenonT(30), LeqRefl DEF TInv, StreamInv, StreamOK
  <2> HIDE DEF old, new
  <2> QED BY ZenonT(30), <1>5, <1>7, <1>8, <1>9, <1>10, <1>14, <2>1, IdleBelow DEF StreamInv
<1> QED BY <1>11, <1>13, <1>15 DEF TInv

\* No step breaks the invariant.
LEMMA NextTInv == TInv /\ [Next]_vars => TInv'
<1> SUFFICES ASSUME TInv, [Next]_vars PROVE TInv'
  OBVIOUS
<1>1. ASSUME NEW n \in 1 .. MAX_DATA_SIZE, Write(n) PROVE TInv'
  BY <1>1, WriteTInv
<1>2. ASSUME NEW q \in queued, Transmit(q) PROVE TInv'
  BY <1>2, TransmitTInv
<1>3. CASE Tick
  BY <1>3, TickTInv
<1>4. ASSUME NEW a \in 0 .. stream.seq, PollBegins(a) PROVE TInv'
  BY <1>4, PollBeginsTInv
<1>5. CASE AckNext
  BY <1>5, AckNextTInv
<1>6. CASE PollFails
  BY <1>6, PollFailsTInv
<1>7. CASE PollEnds
  BY <1>7, PollEndsTInv
<1>8. CASE UNCHANGED vars
  BY ZenonT(30), <1>8 DEF vars, estimate, history, TInv, TypeOK, StreamInv, ClockInv, RtoWithinSamples
<1> QED BY ZenonT(30), <1>1, <1>2, <1>3, <1>4, <1>5, <1>6, <1>7, <1>8 DEF Next

-----------------------------------------------------------------------------
(* What steps declare lost *)

\* A poll that does not give up keeps the error, and counts no loss unless
\* the timer fires.
LEMMA EndsQuietly ==
  ASSUME TInv, PollEnds
  PROVE  /\ stream'.error = stream.error
         /\ ~ RtoFires(Elapsed) =>
              \A i \in DOMAIN stream.outgoing :
                 stream'.outgoing[i].transmits = stream.outgoing[i].transmits
<1> DEFINE c == PollCheckTimeouts(Elapsed)
           w == FlushWaitingPackets(c)
           t == [w EXCEPT !.send_queue = {}]
<1>1. /\ StreamOK(Elapsed) /\ SenderOK(Elapsed)
      /\ Elapsed.outgoing = stream.outgoing /\ Elapsed.error = stream.error
  BY ZenonT(30), ElapsedOK DEF StreamFields
<1>2. /\ StreamOK(c) /\ SenderOK(c)
      /\ DOMAIN c.outgoing = DOMAIN Elapsed.outgoing
      /\ \A f \in StreamFields \ {"rto_timeout", "cwnd", "outgoing", "inflight"} :
            c[f] = Elapsed[f]
  BY ZenonT(30), <1>1, PollCheckTimeoutsFrame
<1>3. ~ RtoFires(Elapsed) => c = Elapsed
  BY DEF PollCheckTimeouts
<1> HIDE DEF c
<1>4. /\ StreamOK(w)
      /\ \A f \in StreamFields \ {"outgoing", "inflight", "send_queue"} : w[f] = c[f]
  BY ZenonT(30), <1>2, FlushWaitingPacketsFrame
<1>5. \A i \in DOMAIN c.outgoing : w.outgoing[i].transmits = c.outgoing[i].transmits
  BY ZenonT(30), <1>2, FlushAttempts
<1> HIDE DEF w
<1>6. DOMAIN w = StreamFields
  BY ZenonT(30), <1>4 DEF StreamOK
<1>7. t.error = w.error /\ t.outgoing = w.outgoing
  BY ZenonT(30), <1>6 DEF StreamFields
<1> HIDE DEF t
<1>8. w.error = c.error /\ c.error = Elapsed.error
  BY ZenonT(30), <1>2, <1>4 DEF StreamFields
<1>9. stream' = t
  BY DEF PollEnds, t, w, c
<1> QED BY <1>1, <1>2, <1>3, <1>5, <1>7, <1>8, <1>9

\* Only a poll that finds the timer elapsed ends the stream or counts losses.
LEMMA OtherStepsQuiet ==
  ASSUME TInv, [Next]_vars, ~ PollFails, ~ PollEnds
  PROVE  /\ stream'.error = stream.error
         /\ \A i \in DOMAIN stream.outgoing \cap DOMAIN stream'.outgoing :
               stream'.outgoing[i].transmits = stream.outgoing[i].transmits
<1>1. StreamOK(stream) /\ SenderOK(stream) /\ stream.remote_acked <= stream.seq
  BY ZenonT(30) DEF TInv, StreamInv
<1>2. ASSUME NEW n \in 1 .. MAX_DATA_SIZE, Write(n)
      PROVE  /\ stream'.error = stream.error
             /\ \A i \in DOMAIN stream.outgoing : stream'.outgoing[i] = stream.outgoing[i]
  <2>1. n \in Nat \ {0}
    BY ConstantsAssumption
  <2>2. stream' = SendDataPacket(stream, n)
    BY ZenonT(30), <1>2 DEF Write
  <2> DEFINE t == SendDataPacket(stream, n)
  <2>3. /\ \A i \in DOMAIN stream.outgoing : t.outgoing[i] = stream.outgoing[i]
        /\ \A f \in {"incoming", "ack", "read_cursor", "remote_acked", "error"} :
              t[f] = stream[f]
    BY ZenonT(30), <1>1, <2>1, SendDataPacketFrame
  <2> HIDE DEF t
  <2>4. t.error = stream.error
    BY ZenonT(30), <2>3
  <2> QED BY ZenonT(30), <2>2, <2>3, <2>4 DEF t
<1>3. ASSUME NEW q \in queued, Transmit(q) PROVE stream' = stream
  BY <1>3 DEF Transmit
<1>4. ASSUME NEW a \in 0 .. stream.seq, PollBegins(a)
      PROVE  stream'.error = stream.error /\ stream'.outgoing = stream.outgoing
  <2>1. a \in Nat
    BY <1>1 DEF StreamOK
  <2>2. stream' = GrowWindow(stream, a)
    BY ZenonT(30), <1>4 DEF PollBegins
  <2> QED BY ZenonT(30), <1>1, <2>1, <2>2, GrowWindowFrame DEF StreamFields
<1>5. ASSUME AckNext
      PROVE  /\ stream'.error = stream.error
             /\ \A i \in DOMAIN stream'.outgoing : stream'.outgoing[i] = stream.outgoing[i]
  <2> DEFINE a == stream.remote_acked + 1
  <2>1. a \in Nat
    BY <1>1 DEF StreamOK
  <2>2. stream' = HandleIncomingMaxRemoteAck(stream, a)
    BY ZenonT(30), <1>5 DEF AckNext
  <2> HIDE DEF a
  <2> DEFINE t == HandleIncomingMaxRemoteAck(stream, a)
  <2>3. /\ \A i \in DOMAIN t.outgoing : t.outgoing[i] = stream.outgoing[i]
        /\ \A f \in StreamFields \ {"outgoing", "inflight", "inflight_bytes",
              "inflight_packets", "remote_acked", "write_waker", "rto_timeout"} :
              t[f] = stream[f]
    BY ZenonT(30), <1>1, <2>1, MaxRemoteAckFrame
  <2> HIDE DEF t
  <2>4. t.error = stream.error
    BY ZenonT(30), <2>3 DEF StreamFields
  <2> QED BY ZenonT(30), <2>2, <2>3, <2>4 DEF t
<1>6. CASE Tick
  BY ZenonT(30), <1>6 DEF Tick
<1>7. CASE UNCHANGED vars
  BY ZenonT(30), <1>7 DEF vars
<1> QED BY ZenonT(30), <1>2, <1>3, <1>4, <1>5, <1>6, <1>7 DEF Next

\* A stream that gives up has a packet that is old enough.
LEMMA ExhaustedIsOld ==
  ASSUME TInv, PollFails
  PROVE  \E i \in DOMAIN stream.outgoing : born[i] + (MAX_TRANSMITS + 1) * MIN_RTO <= now
<1>1. TimesOut(Elapsed) /\ RtoFires(Elapsed)
  BY ZenonT(30) DEF PollFails, TimesOut
<1>2. Elapsed.outgoing = stream.outgoing
  BY ZenonT(30), ElapsedOK DEF StreamFields
<1>3. PICK i \in DOMAIN stream.outgoing : stream.outgoing[i].transmits > MAX_TRANSMITS
  BY ZenonT(30), <1>1, <1>2 DEF TimesOut, Exhausted, Unacked
<1> DEFINE k == stream.outgoing[i].transmits
           b == born[i]
<1>4. k \in Nat /\ b \in Nat /\ (k # 0 => b + (k - 1) * MIN_RTO <= quiet_since)
  BY ZenonT(30) DEF TInv, StreamInv, Ages
<1>5. /\ MIN_RTO \in Nat /\ MAX_TRANSMITS \in Nat /\ quiet_since \in Nat /\ now \in Nat
  BY ZenonT(30), TimeAssumption, ConstantsAssumption DEF TInv, TypeOK
<1>6. quiet_since + MIN_RTO <= now
  BY ZenonT(30), <1>1, FiresLate
<1>7. k > MAX_TRANSMITS
  BY ZenonT(30), <1>3
<1> HIDE DEF k, b
<1>8. k # 0 /\ MAX_TRANSMITS + 1 <= k
  BY <1>4, <1>5, <1>7
<1>9. b + k * MIN_RTO <= now
  BY ZenonT(30), <1>4, <1>5, <1>6, <1>8, OneMore
<1>10. (MAX_TRANSMITS + 1) * MIN_RTO <= k * MIN_RTO
  <2> DEFINE m == MAX_TRANSMITS + 1
  <2>1. PICK d \in Nat : k = m + d
    <3>1. k - m \in Nat /\ k = m + (k - m)
      BY <1>4, <1>5, <1>8
    <3> QED BY ZenonT(30), <3>1
  <2>2. k * MIN_RTO = m * MIN_RTO + d * MIN_RTO
    BY <1>5, <2>1
  <2>3. d * MIN_RTO \in Nat /\ m * MIN_RTO \in Nat
    BY <1>5, <2>1
  <2> QED BY <2>2, <2>3
<1>11. b + (MAX_TRANSMITS + 1) * MIN_RTO <= now
  <2> DEFINE x == (MAX_TRANSMITS + 1) * MIN_RTO
             y == k * MIN_RTO
  <2>1. x \in Int /\ y \in Int /\ x <= y /\ b + y <= now
    BY <1>4, <1>5, <1>9, <1>10
  <2> HIDE DEF x, y
  <2>2. b + x <= now
    BY <1>4, <1>5, <2>1
  <2> QED BY ZenonT(30), <2>2 DEF x
<1> QED BY ZenonT(30), <1>11 DEF b

-----------------------------------------------------------------------------
(* Theorems *)

\* The inductive invariant of the timer holds in every run.
THEOREM TimerInvariance == Spec => []TInv
BY InitTInv, NextTInv, PTL DEF Spec

\* The stream and its timer keep their types: no counter of the retransmission
\* buffer underflows whatever the clock does.
THEOREM TimerTypes == Spec => []TypeOK
<1>1. TInv => TypeOK
  BY DEF TInv
<1> QED BY <1>1, TimerInvariance, PTL

\* The timeout of handle_remote_ack_for_packet stays between its floor and
\* what the longest sample accounts for, after any number of samples.
THEOREM RtoBounded == Spec => []RtoWithinSamples
<1>1. TInv => RtoWithinSamples
  BY DEF TInv, ClockInv
<1> QED BY <1>1, TimerInvariance, PTL

\* poll_check_timeouts declares packets lost, and ends a stream, only after a
\* silence of a whole timeout.
THEOREM LossesAreSpaced == Spec => LossesSpaced
<1>1. TInv /\ [Next]_vars =>
        [\/ stream.error = "none" /\ stream'.error = "TimedOut"
         \/ \E i \in DOMAIN stream.outgoing \cap DOMAIN stream'.outgoing :
              stream'.outgoing[i].transmits > stream.outgoing[i].transmits
         => now >= quiet_since + rto]_vars
  <2> SUFFICES ASSUME TInv, [Next]_vars,
                      \/ stream.error = "none" /\ stream'.error = "TimedOut"
                      \/ \E i \in DOMAIN stream.outgoing \cap DOMAIN stream'.outgoing :
                           stream'.outgoing[i].transmits > stream.outgoing[i].transmits
               PROVE  now >= quiet_since + rto
    BY ZenonT(30)
  <2>1. \A i \in DOMAIN stream.outgoing : stream.outgoing[i].transmits \in Nat
    BY ZenonT(30) DEF TInv, StreamInv, Ages
  <2>2. CASE PollFails
    BY ZenonT(30), <2>2, FiresLate DEF PollFails, TimesOut, TInv, TypeOK
  <2>3. CASE PollEnds
    <3>1. RtoFires(Elapsed)
      BY <2>1, <2>3, EndsQuietly
    <3> QED BY ZenonT(30), <3>1, FiresLate DEF TInv, TypeOK
  <2>4. CASE ~ PollFails /\ ~ PollEnds
    BY <2>1, <2>4, OtherStepsQuiet
  <2> QED BY ZenonT(30), <2>2, <2>3, <2>4
<1> QED BY <1>1, TimerInvariance, PTL DEF Spec, LossesSpaced

\* A stream gives up only when a packet was unacknowledged for at least
\* MAX_TRANSMITS + 1 times the smallest timeout.
THEOREM PatientStream == Spec => GivesUpLate
<1>1. TInv /\ [Next]_vars =>
        [stream.error = "none" /\ stream'.error = "TimedOut" =>
           \E i \in DOMAIN stream.outgoing :
              born[i] + (MAX_TRANSMITS + 1) * MIN_RTO <= now]_vars
  <2> SUFFICES ASSUME TInv, [Next]_vars, stream.error = "none", stream'.error = "TimedOut"
               PROVE  \E i \in DOMAIN stream.outgoing :
                         born[i] + (MAX_TRANSMITS + 1) * MIN_RTO <= now
    BY ZenonT(30)
  <2>1. CASE PollFails
    BY ZenonT(30), <2>1, ExhaustedIsOld
  <2>2. CASE PollEnds
    BY ZenonT(30), <2>2, EndsQuietly
  <2>3. CASE ~ PollFails /\ ~ PollEnds
    BY ZenonT(30), <2>3, OtherStepsQuiet
  <2> QED BY ZenonT(30), <2>1, <2>2, <2>3
<1> QED BY <1>1, TimerInvariance, PTL DEF Spec, GivesUpLate

=============================================================================
