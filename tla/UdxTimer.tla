------------------------------ MODULE UdxTimer ------------------------------
(***************************************************************************)
(* The retransmission timer of a stream that writes, in time: when packets *)
(* are sent, acknowledged and declared lost, what the round trip estimator *)
(* of src/stream.rs makes of it, and when the stream gives up.             *)
(*                                                                         *)
(* The stream and its methods are those of UdxStream.  Where UdxConn lets  *)
(* the timer elapse at any moment, here it has a deadline on a clock.  The *)
(* driver's poll is a PollBegins, an AckNext for every packet its acks     *)
(* cover, and a PollEnds; the lock is held throughout and no time passes.  *)
(* A poll handles at most one packet, a cumulative ack: the acks of        *)
(* several would only be replaced by the largest.  The channel to the      *)
(* socket driver and the socket driver itself are the set queued.          *)
(***************************************************************************)
EXTENDS UdxStream

CONSTANTS
  MIN_RTO,         \* the first and the smallest rto, 1000 ms
  GRANULARITY,     \* UDX_CLOCK_GRANULARITY_MS, 20
  MIN_RTT,         \* a round trip of the network takes at least this long
  MaxPackets,      \* bound: packets written
  MaxTime          \* bound: ticks of the clock

ASSUME TimeAssumption ==
  /\ MIN_RTO \in Nat \ {0}
  /\ GRANULARITY \in Nat
  /\ MIN_RTT \in Nat
  /\ MaxPackets \in Nat
  /\ MaxTime \in Nat

VARIABLES
  stream,      \* the UdxStreamInner
  srtt,        \* its estimate of the round trip time, 0 before a sample
  rttvar,
  rto,
  deadline,    \* when the Sleep rto_timeout elapses
  time_sent,   \* of the packets that were sent, when that was last
  queued,      \* packets and their transmits, on their way through the socket
  acking,      \* the max remote ack of the poll under way, or Idle
  now,
  \* History: when packets were written and first sent, the longest round
  \* trip sampled, and when the last ack or timeout was.
  born, first_sent, longest, quiet_since

estimate == <<srtt, rttvar, rto>>
history == <<born, first_sent, longest, quiet_since>>
vars == <<stream, estimate, deadline, time_sent, queued, acking, now, history>>

Nothing == [i \in {} |-> 0]

Without(f, k) == [i \in DOMAIN f \ {k} |-> f[i]]

Idle == -1

Init ==
  /\ stream = InitialStream
  /\ srtt = 0 /\ rttvar = 0 /\ rto = MIN_RTO
  /\ deadline = MIN_RTO
  /\ time_sent = Nothing
  /\ queued = {}
  /\ acking = Idle
  /\ now = 0
  /\ born = Nothing /\ first_sent = Nothing /\ longest = 0 /\ quiet_since = 0

-----------------------------------------------------------------------------
(* The writer and the socket *)

\* A poll_write that sends one packet of n bytes.
Write(n) ==
  /\ acking = Idle
  /\ stream.error = "none" /\ ~ WindowFull(stream, n)
  /\ stream.seq < MaxPackets
  /\ stream' = SendDataPacket(stream, n)
  /\ born' = Insert(born, stream.seq, now)
  /\ UNCHANGED <<estimate, deadline, time_sent, queued, acking, now,
                 first_sent, longest, quiet_since>>

\* The socket driver sends a packet and stamps it.
Transmit(q) ==
  /\ acking = Idle
  /\ q \in queued
  /\ queued' = queued \ {q}
  /\ time_sent' = Insert(time_sent, q[1], now)
  /\ first_sent' = IF q[1] \in DOMAIN first_sent THEN first_sent
                   ELSE Insert(first_sent, q[1], now)
  /\ UNCHANGED <<stream, estimate, deadline, acking, now,
                 born, longest, quiet_since>>

Tick ==
  /\ acking = Idle
  /\ now < MaxTime
  /\ now' = now + 1
  /\ UNCHANGED <<stream, estimate, deadline, time_sent, queued, acking, history>>

-----------------------------------------------------------------------------
(* The estimator *)

Distance(a, b) == IF a < b THEN b - a ELSE a - b

\* RTTVAR <- (1 - beta) * RTTVAR + beta * |SRTT - R'|, beta = 1/4
NextVar(rtt) ==
  IF srtt = 0 THEN rtt \div 2 ELSE (3 * rttvar + Distance(rtt, srtt)) \div 4

\* SRTT <- (1 - alpha) * SRTT + alpha * R', alpha = 1/8
NextSrtt(rtt) == IF srtt = 0 THEN rtt ELSE (7 * srtt + rtt) \div 8

Rto(s, v) == Larger(MIN_RTO, s + Larger(GRANULARITY, 4 * v))

\* Mutant: the estimate replaces the timeout, without the floor of 1 s.
EstimateWithoutFloor(rtt) ==
  /\ srtt' = NextSrtt(rtt)
  /\ rttvar' = NextVar(rtt)
  /\ rto' = srtt' + Larger(GRANULARITY, 4 * rttvar')

Estimate(rtt) ==
  /\ srtt' = NextSrtt(rtt)
  /\ rttvar' = NextVar(rtt)
  /\ rto' = Rto(srtt', rttvar')

\* A packet gives a sample if it was sent, and declared lost once: transmits
\* is 0 for a packet that was not.
Sampled(i) ==
  /\ i \in DOMAIN stream.outgoing /\ i \in DOMAIN time_sent
  /\ stream.outgoing[i].transmits = 1

-----------------------------------------------------------------------------
(* The driver *)

\* The peer can have acknowledged the packets before a, and its ack be here.
Answered(a) ==
  \A i \in stream.remote_acked .. (a - 1) :
     i \in DOMAIN first_sent /\ first_sent[i] + MIN_RTT <= now

\* poll_incoming: handle_incoming of a packet of the peer, if there is one.
PollBegins(a) ==
  /\ acking = Idle
  /\ a >= stream.remote_acked /\ Answered(a)
  /\ stream' = GrowWindow(stream, a)
  /\ acking' = a
  /\ UNCHANGED <<estimate, deadline, time_sent, queued, now, history>>

\* Mutant: the timer is set before the round trip is estimated.
AckThenEstimate ==
  LET i == stream.remote_acked
  IN  /\ stream.remote_acked < acking
      /\ stream' = HandleIncomingMaxRemoteAck(stream, i + 1)
      /\ IF Sampled(i)
         THEN /\ Estimate(now - time_sent[i])
              /\ longest' = Larger(longest, now - time_sent[i])
         ELSE UNCHANGED <<estimate, longest>>
      /\ deadline' = now + rto
      /\ queued' = {q \in queued : q[1] # i}
      /\ time_sent' = Without(time_sent, i)
      /\ born' = Without(born, i) /\ first_sent' = Without(first_sent, i)
      /\ quiet_since' = now
      /\ UNCHANGED <<acking, now>>

\* One round of the loop of handle_incoming_max_remote_ack, which ends with
\* the timer being reset.
AckNext ==
  LET i == stream.remote_acked
  IN  /\ stream.remote_acked < acking
      /\ stream' = HandleIncomingMaxRemoteAck(stream, i + 1)
      /\ IF Sampled(i)
         THEN /\ Estimate(now - time_sent[i])
              /\ longest' = Larger(longest, now - time_sent[i])
         ELSE UNCHANGED <<estimate, longest>>
      /\ deadline' = now + rto'
      /\ queued' = {q \in queued : q[1] # i}
      /\ time_sent' = Without(time_sent, i)
      /\ born' = Without(born, i) /\ first_sent' = Without(first_sent, i)
      /\ quiet_since' = now
      /\ UNCHANGED <<acking, now>>

\* The stream as poll_check_timeouts finds it.
Elapsed ==
  [stream EXCEPT !.rto_timeout = IF deadline <= now THEN "elapsed" ELSE "armed"]

\* Mutant: a timeout leaves the deadline where it is.
StaleTimeout == deadline

\* The deadline after poll_check_timeouts.
NextTimeout == IF RtoFires(Elapsed) THEN now + 2 * rto ELSE deadline

Acked == acking = stream.remote_acked

\* poll_check_timeouts returns an error, and the driver ends the stream.
PollFails ==
  /\ Acked /\ TimesOut(Elapsed)
  /\ stream' = Terminate(PollCheckTimeouts(Elapsed), "TimedOut")
  /\ deadline' = NextTimeout
  /\ quiet_since' = now
  /\ acking' = Idle
  /\ UNCHANGED <<estimate, time_sent, queued, now, born, first_sent, longest>>

\* poll_check_timeouts, flush_waiting_packets and poll_transmit.  A packet that
\* is declared lost before it was sent is in send_queue twice.
PollEnds ==
  LET checked == PollCheckTimeouts(Elapsed)
      s == FlushWaitingPackets(checked)
      written == {p.seq : p \in stream.send_queue} \cap DOMAIN stream.outgoing
  IN  /\ Acked /\ ~ TimesOut(Elapsed)
      /\ stream' = [s EXCEPT !.send_queue = {}]
      /\ queued' = queued \cup {<<i, stream.outgoing[i].transmits>> : i \in written}
                          \cup {<<i, s.outgoing[i].transmits>> : i \in Flushable(checked)}
      /\ deadline' = NextTimeout
      /\ quiet_since' = IF RtoFires(Elapsed) THEN now ELSE quiet_since
      /\ acking' = Idle
      /\ UNCHANGED <<estimate, time_sent, now, born, first_sent, longest>>

-----------------------------------------------------------------------------
Next ==
  \/ \E n \in 1 .. MAX_DATA_SIZE : Write(n)
  \/ \E q \in queued : Transmit(q)
  \/ Tick
  \/ \E a \in 0 .. stream.seq : PollBegins(a)
  \/ AckNext
  \/ PollFails
  \/ PollEnds

Spec == Init /\ [][Next]_vars

-----------------------------------------------------------------------------
(* Properties *)

TypeOK ==
  /\ StreamOK(stream)
  /\ srtt \in Nat /\ rttvar \in Nat /\ rto \in Nat /\ deadline \in Nat
  /\ IsMapTo(time_sent, Nat)
  /\ queued \subseteq Nat \X Nat
  /\ acking \in Nat \cup {Idle}
  /\ now \in Nat /\ longest \in Nat /\ quiet_since \in Nat
  /\ IsMapTo(born, Nat) /\ IsMapTo(first_sent, Nat)

\* The timeout never falls below its floor of a second, and however the
\* samples vary it never exceeds what the longest of them accounts for: the
\* integer divisions of the estimator do not let it drift.
RtoWithinSamples ==
  /\ MIN_RTO <= rto
  /\ rto <= Rto(longest, longest)

\* A stream gives up on a peer only when a packet was left unacknowledged for
\* at least MAX_TRANSMITS + 1 times the smallest timeout since it was written,
\* although every timeout declares all packets lost, new ones included.
GivesUpLate ==
  [][stream.error = "none" /\ stream'.error = "TimedOut" =>
       \E i \in DOMAIN stream.outgoing :
          born[i] + (MAX_TRANSMITS + 1) * MIN_RTO <= now]_vars

\* Packets are declared lost, and the window is halved, only after a silence
\* of the whole timeout that is estimated then: neither an older and smaller
\* estimate nor repeated polls of a timer that has elapsed cut it short.
LossesSpaced ==
  [][\/ stream.error = "none" /\ stream'.error = "TimedOut"
     \/ \E i \in DOMAIN stream.outgoing \cap DOMAIN stream'.outgoing :
          stream'.outgoing[i].transmits > stream.outgoing[i].transmits
     => now >= quiet_since + rto]_vars

\* A sample of the round trip time is at least a round trip.
SamplesAreRoundTrips ==
  [][AckNext /\ Sampled(stream.remote_acked) =>
       now - time_sent[stream.remote_acked] >= MIN_RTT]_vars

\* A packet is declared lost only when it was sent at least MIN_RTO ago.
LostAfterTimeout ==
  [][\A i \in DOMAIN stream.outgoing \cap DOMAIN stream'.outgoing :
       stream'.outgoing[i].transmits > stream.outgoing[i].transmits =>
         i \in DOMAIN first_sent /\ first_sent[i] + MIN_RTO <= now]_vars

=============================================================================
