-------------------------- MODULE UdxSocketProofs --------------------------
(***************************************************************************)
(* Theorems about the socket (module UdxSocket), for any number of handles *)
(* and streams, any batch size and any history of sends and arrivals.      *)
(***************************************************************************)
EXTENDS UdxSocket, FiniteSetTheorems, TLAPS

-----------------------------------------------------------------------------
(* Which steps touch what *)

AppStep ==
  \/ Send \/ (\E s \in Streams : StreamTransmit(s) \/ StreamFinishes(s))
  \/ (\E h \in Handles : Clone(h) \/ DropBegins(h) \/ DropEnds(h))
  \/ \E s \in Streams : Connect(s) \/ StreamFreed(s)

\* What is received is touched by the recv() calls, by connect(), by the network
\* and by the driver when it reads.
LEMMA RecvFrame ==
  ASSUME [Next]_vars
  PROVE  \/ (\E f \in Futures : PollFuture(f)) \/ (\E s \in Streams : Connect(s))
         \/ (\E m \in ids \cup {"dgram"} : Arrives(m))
         \/ ProcessPacket \/ OnRecvDgram \/ TakeEvent \/ UNCHANGED recvVars
PROOF
<1>1. CASE HandleNext
  BY <1>1 DEF HandleNext, Send, Submit, Clone, DropBegins, DropEnds
<1>2. CASE StreamNext
  BY <1>2 DEF StreamNext, StreamTransmit, Submit, StreamFinishes, StreamFreed
<1>3. CASE DriverNext
  BY ZenonT(30), <1>3 DEF DriverNext, PollStarts, PollRecv, PollRecvFails, BatchFilled,
              SendNothing, PollSend, PollEnds
<1>4. CASE Writable BY <1>4 DEF Writable
<1>5. CASE UNCHANGED vars BY <1>5 DEF vars
<1> QED BY <1>1, <1>2, <1>3, <1>4, <1>5 DEF Next

\* Only the driver's poll_transmit touches what is being sent.
LEMMA SendFrame ==
  ASSUME [Next]_vars
  PROVE  TakeEvent \/ PollSend \/ UNCHANGED sendVars
PROOF
<1>1. CASE HandleNext
  BY ZenonT(30), <1>1 DEF HandleNext, Send, Submit, Clone, DropBegins, DropEnds, PollFuture
<1>2. CASE StreamNext
  BY ZenonT(30), <1>2 DEF StreamNext, Connect, StreamTransmit, Submit, StreamFinishes, StreamFreed
<1>3. CASE DriverNext
  BY ZenonT(30), <1>3 DEF DriverNext, PollStarts, PollRecv, PollRecvFails, ProcessPacket,
              OnRecvDgram, NextMessage, BatchFilled, SendNothing, PollEnds
<1>4. CASE Writable BY <1>4 DEF Writable
<1>5. ASSUME NEW m, Arrives(m) PROVE UNCHANGED sendVars BY <1>5 DEF Arrives
<1>6. CASE UNCHANGED vars BY <1>6 DEF vars
<1> QED BY <1>1, <1>2, <1>3, <1>4, <1>5, <1>6 DEF Next

\* Handles, streams and the number of submissions change by the callers, and
\* has_refs also when the driver ends.
LEMMA AppFrame ==
  ASSUME [Next]_vars
  PROVE  AppStep \/ PollRecvFails \/ PollEnds \/ UNCHANGED appVars
PROOF
<1>1. CASE HandleNext BY <1>1 DEF HandleNext, PollFuture, AppStep
<1>2. CASE StreamNext BY <1>2 DEF StreamNext, AppStep
<1>3. CASE DriverNext
  BY ZenonT(30), <1>3 DEF DriverNext, PollStarts, PollRecv, ProcessPacket, OnRecvDgram,
              NextMessage, TakeEvent, BatchFilled, SendNothing, PollSend
<1>4. CASE Writable BY <1>4 DEF Writable
<1>5. ASSUME NEW m, Arrives(m) PROVE UNCHANGED appVars BY <1>5 DEF Arrives
<1>6. CASE UNCHANGED vars BY <1>6 DEF vars
<1> QED BY <1>1, <1>2, <1>3, <1>4, <1>5, <1>6 DEF Next

\* Events enter send_rx from the callers and leave it to the driver.
LEMMA ChannelFrame ==
  ASSUME [Next]_vars
  PROVE  \/ (\E kind \in {"Transmit", "TransmitDgram"} : Submit(kind))
         \/ (\E s \in Streams : StreamFinishes(s))
         \/ TakeEvent \/ UNCHANGED send_rx
PROOF
<1>1. CASE HandleNext
  BY ZenonT(30), <1>1 DEF HandleNext, Send, Clone, DropBegins, DropEnds, PollFuture
<1>2. CASE StreamNext
  BY ZenonT(30), <1>2 DEF StreamNext, Connect, StreamTransmit, StreamFreed
<1>3. CASE DriverNext
  BY ZenonT(30), <1>3 DEF DriverNext, PollStarts, PollRecv, PollRecvFails, ProcessPacket,
              OnRecvDgram, NextMessage, BatchFilled, SendNothing, PollSend, PollEnds
<1>4. CASE Writable BY <1>4 DEF Writable
<1>5. ASSUME NEW m, Arrives(m) PROVE UNCHANGED send_rx BY <1>5 DEF Arrives
<1>6. CASE UNCHANGED vars BY <1>6 DEF vars
<1> QED BY <1>1, <1>2, <1>3, <1>4, <1>5, <1>6 DEF Next

\* The locals of the driver's poll change by the driver's steps only.
LEMMA PollFrame ==
  ASSUME [Next]_vars
  PROVE  (DriverNext /\ ~TakeEvent) \/ UNCHANGED poll
PROOF
<1>1. CASE HandleNext
  BY ZenonT(30), <1>1 DEF HandleNext, Send, Submit, Clone, DropBegins, DropEnds, PollFuture
<1>2. CASE StreamNext
  BY ZenonT(30), <1>2 DEF StreamNext, Connect, StreamTransmit, Submit, StreamFinishes, StreamFreed
<1>3. CASE TakeEvent BY ZenonT(30), <1>3 DEF TakeEvent
<1>4. CASE Writable BY <1>4 DEF Writable
<1>5. ASSUME NEW m, Arrives(m) PROVE UNCHANGED poll BY <1>5 DEF Arrives
<1>6. CASE UNCHANGED vars BY <1>6 DEF vars
<1> QED BY <1>1, <1>2, <1>3, <1>4, <1>5, <1>6 DEF Next

-----------------------------------------------------------------------------
(* Types *)

RecvType ==
  /\ future \in [Futures -> {"new", "asleep", "woken", "ready"}]
  /\ streams \in [ids -> Streams \cup {NoStream}]
  /\ recv_dgrams \in Seq(ids \cup {"dgram"})
  /\ Len(recv_dgrams) <= RECV_QUEUE_MAX_LEN
  /\ recv_waker \in Futures \cup {NoWaker}
  /\ rx \in Seq(ids \cup {"dgram"})

SendType ==
  /\ outgoing_transmits \in Seq(Event) /\ Len(outgoing_transmits) <= BATCH_SIZE
  /\ outgoing_packet_sets \in Seq(Nat) /\ sent \in Seq(Event)
  /\ stamped \subseteq Nat

AppType ==
  /\ handle \in [Handles -> {"unused", "live", "dropping", "dropped"}]
  /\ stream \in [Streams -> {"none", "open", "closed", "freed"}]
  /\ has_refs \in BOOLEAN /\ submitted \in Nat

WakeType ==
  /\ wakers \subseteq {"drive", "send_rx", "read", "write"}
  /\ scheduled \in BOOLEAN /\ arrived \in Nat

ChannelType == send_rx \in Seq(Event)
PollType == poll \in Poll

\* The messages of a batch that are still to be processed are in rx.
BatchInRx == poll.batch <= Len(rx)

TypeInv ==
  RecvType /\ SendType /\ AppType /\ WakeType /\ ChannelType /\ PollType /\ BatchInRx

\* The parts make up the type invariant of the socket.
LEMMA TypeParts == TypeInv => TypeOK
  BY ZenonT(30) DEF TypeInv, TypeOK, RecvType, SendType, AppType, WakeType, ChannelType, PollType

\* bind() makes a socket of the declared type.
LEMMA TypeInit == Init => TypeInv
PROOF
<1> SUFFICES ASSUME Init PROVE TypeInv
  OBVIOUS
<1>1. RecvType BY SocketAssumption DEF Init, RecvType
<1>2. SendType BY SocketAssumption DEF Init, SendType
<1>3. AppType BY DEF Init, AppType
<1>4. WakeType /\ ChannelType BY DEF Init, WakeType, ChannelType
<1>5. PollType BY DEF Init, PollType, Poll
<1>6. BatchInRx BY DEF Init, BatchInRx
<1> QED BY <1>1, <1>2, <1>3, <1>4, <1>5, <1>6 DEF TypeInv

\* What poll_send leaves of a queue, and what it took, are queues of the same
\* kind; their lengths and elements are those of VecDeque::drain.
LEMMA DrainFacts ==
  ASSUME NEW S, NEW q \in Seq(S), NEW n \in 0 .. Len(q)
  PROVE  /\ Drain(q, n) \in Seq(S) /\ Len(Drain(q, n)) = Len(q) - n
         /\ \A i \in 1 .. Len(q) - n : Drain(q, n)[i] = q[i + n]
         /\ SubSeq(q, 1, n) \in Seq(S) /\ Len(SubSeq(q, 1, n)) = n
         /\ \A i \in 1 .. n : SubSeq(q, 1, n)[i] = q[i]
  BY DEF Drain

\* A message of a batch comes from a receive queue that is not empty.
LEMMA NextMessageType ==
  ASSUME TypeInv, NextMessage
  PROVE  /\ rx # <<>> /\ Head(rx) \in ids \cup {"dgram"}
         /\ rx' \in Seq(ids \cup {"dgram"}) /\ Len(rx') = Len(rx) - 1
PROOF
<1>1. rx \in Seq(ids \cup {"dgram"}) /\ poll.batch > 0 /\ poll.batch <= Len(rx)
  BY DEF TypeInv, RecvType, BatchInRx, NextMessage
<1>2. poll.batch \in Nat BY DEF TypeInv, PollType, Poll
<1>3. rx' = Tail(rx) BY DEF NextMessage
<1>4. Len(rx) > 0 BY <1>1, <1>2
<1> QED BY <1>1, <1>3, <1>4

\* An event taken from send_rx has the fields of its kind.
LEMMA TakenType ==
  ASSUME TypeInv, TakeEvent
  PROVE  /\ Head(send_rx) \in Event /\ send_rx' \in Seq(Event)
         /\ Head(send_rx).kind = "StreamDropped" => Head(send_rx).id \in ids
         /\ Head(send_rx).kind # "StreamDropped" => Head(send_rx).n \in Nat
         /\ send_rx' = Tail(send_rx) /\ send_rx # <<>>
PROOF
<1>1. send_rx \in Seq(Event) /\ send_rx # <<>> /\ send_rx' = Tail(send_rx)
  BY ZenonT(30) DEF TypeInv, ChannelType, TakeEvent
<1>2. Head(send_rx) \in Event /\ send_rx' \in Seq(Event) BY <1>1
<1>3. \A e \in Event : /\ e.kind = "StreamDropped" => e.id \in ids
                       /\ e.kind # "StreamDropped" => e.n \in Nat
  BY DEF Event
<1> QED BY <1>1, <1>2, <1>3

\* Receiving keeps the types, and the queue of datagrams its capacity.
LEMMA RecvTypeStep ==
  ASSUME TypeInv, [Next]_vars
  PROVE  RecvType'
PROOF
<1>0. RecvType BY DEF TypeInv
<1>1. ASSUME NEW f \in Futures, PollFuture(f) PROVE RecvType'
  <2>1. /\ future' \in [Futures -> {"new", "asleep", "woken", "ready"}]
        /\ recv_waker' \in Futures \cup {NoWaker}
    BY ZenonT(30), <1>0, <1>1 DEF PollFuture, RecvType
  <2>2. /\ recv_dgrams' \in Seq(ids \cup {"dgram"})
        /\ Len(recv_dgrams') <= RECV_QUEUE_MAX_LEN
    <3>1. recv_dgrams' = recv_dgrams
            \/ (recv_dgrams # <<>> /\ recv_dgrams' = Tail(recv_dgrams))
      BY ZenonT(30), <1>1 DEF PollFuture
    <3>2. /\ recv_dgrams \in Seq(ids \cup {"dgram"})
          /\ Len(recv_dgrams) <= RECV_QUEUE_MAX_LEN
      BY <1>0 DEF RecvType
    <3>3. RECV_QUEUE_MAX_LEN \in Nat BY SocketAssumption
    <3> QED BY <3>1, <3>2, <3>3
  <2> QED BY ZenonT(30), <1>0, <1>1, <2>1, <2>2 DEF PollFuture, RecvType
<1>2. ASSUME NEW s \in Streams, Connect(s) PROVE RecvType'
  BY ZenonT(30), <1>0, <1>2, SocketAssumption DEF Connect, RecvType, ids, Range
<1>3. ASSUME NEW m \in ids \cup {"dgram"}, Arrives(m) PROVE RecvType'
  BY <1>0, <1>3 DEF Arrives, RecvType
<1>4. CASE ProcessPacket
  <2>1. streams' \in [ids -> Streams \cup {NoStream}]
    BY ZenonT(30), <1>0, <1>4 DEF ProcessPacket, Delivered, RecvType
  <2>2. rx' \in Seq(ids \cup {"dgram"})
    BY <1>4, NextMessageType DEF ProcessPacket
  <2> QED BY ZenonT(30), <1>0, <1>4, <2>1, <2>2 DEF ProcessPacket, RecvType
<1>5. CASE OnRecvDgram
  <2>1. Head(rx) \in ids \cup {"dgram"} /\ rx' \in Seq(ids \cup {"dgram"})
    BY <1>5, NextMessageType DEF OnRecvDgram
  <2>2. /\ recv_dgrams' \in Seq(ids \cup {"dgram"})
        /\ Len(recv_dgrams') <= RECV_QUEUE_MAX_LEN
    <3>1. recv_dgrams' = recv_dgrams
            \/ (/\ Len(recv_dgrams) < RECV_QUEUE_MAX_LEN
                /\ recv_dgrams' = Append(recv_dgrams, Head(rx)))
      BY <1>5 DEF OnRecvDgram
    <3>2. /\ recv_dgrams \in Seq(ids \cup {"dgram"})
          /\ Len(recv_dgrams) <= RECV_QUEUE_MAX_LEN
      BY <1>0 DEF RecvType
    <3>3. RECV_QUEUE_MAX_LEN \in Nat BY SocketAssumption
    <3>4. CASE recv_dgrams' = recv_dgrams BY ZenonT(30), <3>2, <3>4
    <3>5. CASE /\ Len(recv_dgrams) < RECV_QUEUE_MAX_LEN
               /\ recv_dgrams' = Append(recv_dgrams, Head(rx))
      BY <2>1, <3>2, <3>3, <3>5
    <3> QED BY ZenonT(30), <3>1, <3>4, <3>5
  <2>3. /\ recv_waker' \in Futures \cup {NoWaker}
        /\ future' \in [Futures -> {"new", "asleep", "woken", "ready"}]
    BY ZenonT(30), <1>0, <1>5 DEF OnRecvDgram, WakeReceiver, RecvType
  <2>4. streams' \in [ids -> Streams \cup {NoStream}]
    BY ZenonT(30), <1>0, <1>5 DEF OnRecvDgram, RecvType
  <2> QED BY <2>1, <2>2, <2>3, <2>4 DEF RecvType
<1>6. CASE TakeEvent
  <2>1. streams' \in [ids -> Streams \cup {NoStream}]
    BY ZenonT(30), <1>0, <1>6 DEF TakeEvent, RecvType
  <2> QED BY ZenonT(30), <1>0, <1>6, <2>1 DEF TakeEvent, RecvType
<1>7. CASE UNCHANGED recvVars BY ZenonT(30), <1>0, <1>7 DEF recvVars, RecvType
<1> QED BY <1>1, <1>2, <1>3, <1>4, <1>5, <1>6, <1>7, RecvFrame

\* Sending keeps the types, and the batch its size.
LEMMA SendTypeStep ==
  ASSUME TypeInv, [Next]_vars
  PROVE  SendType'
PROOF
<1>0. SendType BY DEF TypeInv
<1>1. CASE TakeEvent
  <2>1. /\ Head(send_rx) \in Event
        /\ Head(send_rx).kind # "StreamDropped" => Head(send_rx).n \in Nat
    BY <1>1, TakenType
  <2>2. /\ outgoing_transmits' \in Seq(Event)
        /\ Len(outgoing_transmits') <= BATCH_SIZE
    <3>1. outgoing_transmits' = outgoing_transmits
            \/ outgoing_transmits' = Append(outgoing_transmits, Head(send_rx))
      BY ZenonT(30), <1>1 DEF TakeEvent
    <3>2. Len(outgoing_transmits) < BATCH_SIZE /\ outgoing_transmits \in Seq(Event)
      BY ZenonT(30), <1>0, <1>1 DEF TakeEvent, BatchOpen, SendType
    <3>3. BATCH_SIZE \in Nat BY SocketAssumption
    <3> QED BY <2>1, <3>1, <3>2, <3>3
  <2>3. outgoing_packet_sets' \in Seq(Nat)
    <3>1. outgoing_packet_sets' = outgoing_packet_sets
            \/ (/\ Head(send_rx).kind = "Transmit"
                /\ outgoing_packet_sets' =
                     Append(outgoing_packet_sets, Head(send_rx).n))
      BY ZenonT(30), <1>1 DEF TakeEvent
    <3>2. outgoing_packet_sets \in Seq(Nat) BY <1>0 DEF SendType
    <3> QED BY SMTT(30), <2>1, <3>1, <3>2
  <2> QED BY ZenonT(30), <1>0, <1>1, <2>2, <2>3 DEF TakeEvent, SendType
<1>2. CASE PollSend
  <2>1. PICK n \in 1 .. Len(outgoing_transmits) :
           /\ sent' = sent \o SubSeq(outgoing_transmits, 1, n)
           /\ outgoing_transmits' = Drain(outgoing_transmits, n)
           /\ stamped' =
                stamped \cup {outgoing_packet_sets[i] : i \in 1 .. StampCount(n)}
           /\ outgoing_packet_sets' = Drain(outgoing_packet_sets, StampCount(n))
    BY ZenonT(30), <1>2 DEF PollSend
  <2>2. /\ outgoing_packet_sets \in Seq(Nat) /\ stamped \subseteq Nat
        /\ outgoing_transmits \in Seq(Event) /\ sent \in Seq(Event)
        /\ Len(outgoing_transmits) <= BATCH_SIZE /\ BATCH_SIZE \in Nat
    BY <1>0, SocketAssumption DEF SendType
  <2>3. StampCount(n) \in 0 .. Len(outgoing_packet_sets)
    BY <2>2 DEF StampCount
  <2>4. n \in 0 .. Len(outgoing_transmits) BY <2>2
  <2>5. /\ Drain(outgoing_transmits, n) \in Seq(Event)
        /\ Len(Drain(outgoing_transmits, n)) = Len(outgoing_transmits) - n
        /\ SubSeq(outgoing_transmits, 1, n) \in Seq(Event)
    BY ZenonT(30), <2>2, <2>4, DrainFacts
  <2>6. Drain(outgoing_packet_sets, StampCount(n)) \in Seq(Nat)
    BY ZenonT(30), <2>2, <2>3, DrainFacts
  <2>7. stamped' \subseteq Nat
    <3>1. \A i \in 1 .. StampCount(n) : i \in 1 .. Len(outgoing_packet_sets)
      BY <2>2, <2>3
    <3>2. \A i \in 1 .. Len(outgoing_packet_sets) : outgoing_packet_sets[i] \in Nat
      BY <2>2
    <3> QED BY ZenonT(30), <2>1, <2>2, <3>1, <3>2
  <2>8. sent' \in Seq(Event) /\ Len(outgoing_transmits') <= BATCH_SIZE
    BY SMTT(30), <2>1, <2>2, <2>5
  <2> QED BY ZenonT(30), <2>1, <2>5, <2>6, <2>7, <2>8 DEF SendType
<1>3. CASE UNCHANGED sendVars BY <1>0, <1>3 DEF sendVars, SendType
<1> QED BY <1>1, <1>2, <1>3, SendFrame

\* The callers and the end of the driver keep the types.
LEMMA AppTypeStep ==
  ASSUME TypeInv, [Next]_vars
  PROVE  AppType'
PROOF
<1>0. AppType BY DEF TypeInv
<1>1. CASE PollRecvFails BY <1>0, <1>1 DEF PollRecvFails, Returns, AppType
<1>2. CASE PollEnds BY ZenonT(30), <1>0, <1>2 DEF PollEnds, Returns, AppType
<1>3. ASSUME NEW kind, Submit(kind) PROVE AppType'
  BY <1>0, <1>3 DEF Submit, AppType
<1>4. ASSUME NEW s \in Streams, Connect(s) \/ StreamFinishes(s) \/ StreamFreed(s)
      PROVE  AppType'
  BY ZenonT(30), <1>0, <1>4 DEF Connect, StreamFinishes, StreamFreed, AppType
<1>5. ASSUME NEW h \in Handles, Clone(h) \/ DropBegins(h) \/ DropEnds(h)
      PROVE  AppType'
  BY ZenonT(30), <1>0, <1>5 DEF Clone, DropBegins, DropEnds, AppType
<1>6. CASE UNCHANGED appVars BY ZenonT(30), <1>0, <1>6 DEF appVars, AppType
<1> QED
  BY ZenonT(30), <1>1, <1>2, <1>3, <1>4, <1>5, <1>6, AppFrame DEF AppStep, Send, StreamTransmit

\* What is sent into the channel is an event.
LEMMA ChannelTypeStep ==
  ASSUME TypeInv, [Next]_vars
  PROVE  ChannelType'
PROOF
<1>0. send_rx \in Seq(Event) /\ submitted \in Nat
  BY DEF TypeInv, ChannelType, AppType
<1>1. ASSUME NEW kind \in {"Transmit", "TransmitDgram"}, Submit(kind)
      PROVE  ChannelType'
  <2>1. [kind |-> kind, n |-> submitted + 1] \in Event BY <1>0 DEF Event
  <2> QED BY <1>0, <1>1, <2>1 DEF Submit, Push, ChannelType
<1>2. ASSUME NEW s \in Streams, StreamFinishes(s) PROVE ChannelType'
  <2>1. [kind |-> "StreamDropped", id |-> LocalId[s]] \in Event
    BY ZenonT(30), SocketAssumption DEF Event, ids, Range
  <2> QED BY <1>0, <1>2, <2>1 DEF StreamFinishes, Push, ChannelType
<1>3. CASE TakeEvent BY <1>3, TakenType DEF ChannelType
<1>4. CASE UNCHANGED send_rx BY <1>0, <1>4 DEF ChannelType
<1> QED BY <1>1, <1>2, <1>3, <1>4, ChannelFrame

\* Wakers are those of the four places the driver waits at.
LEMMA WakeTypeStep ==
  ASSUME TypeInv, [Next]_vars
  PROVE  WakeType'
PROOF
<1>0. WakeType /\ poll.should_continue \in BOOLEAN
  BY DEF TypeInv, PollType, Poll
<1>1. ASSUME NEW w, Wake(w), UNCHANGED arrived PROVE WakeType'
  BY ZenonT(30), <1>0, <1>1 DEF Wake, WakeType
<1>2. ASSUME NEW w, wakers' \in {wakers, wakers \cup {w}}, UNCHANGED arrived,
             scheduled' \in BOOLEAN,
             w \in {"drive", "send_rx", "read", "write"}
      PROVE  WakeType'
  BY <1>0, <1>2 DEF WakeType
<1>3. CASE HandleNext
  <2>1. UNCHANGED arrived /\ ((\E w : Wake(w)) \/ UNCHANGED <<wakers, scheduled>>)
    BY ZenonT(30), <1>3 DEF HandleNext, Send, Submit, Push, Clone, DropBegins, DropEnds, PollFuture
  <2> QED BY ZenonT(30), <1>0, <1>1, <2>1 DEF WakeType
<1>4. CASE StreamNext
  <2>1. UNCHANGED arrived /\ ((\E w : Wake(w)) \/ UNCHANGED <<wakers, scheduled>>)
    BY ZenonT(30), <1>4 DEF StreamNext, Connect, StreamTransmit, Submit, Push, StreamFinishes,
                StreamFreed
  <2> QED BY ZenonT(30), <1>0, <1>1, <2>1 DEF WakeType
<1>5. CASE DriverNext
  <2>1. UNCHANGED arrived /\ scheduled' \in BOOLEAN
    BY ZenonT(30), <1>0, <1>5 DEF DriverNext, PollStarts, PollRecv, PollRecvFails, ProcessPacket,
         OnRecvDgram, NextMessage, TakeEvent, BatchFilled, SendNothing, PollSend,
         PollEnds, WakeType
  <2>2. \E w \in {"drive", "send_rx", "read", "write"} :
           wakers' \in {wakers, wakers \cup {w}}
    BY ZenonT(30), <1>5 DEF DriverNext, PollStarts, PollRecv, PollRecvFails, ProcessPacket,
         OnRecvDgram, NextMessage, TakeEvent, BatchFilled, SendNothing, PollSend,
         PollEnds
  <2> QED BY <1>2, <2>1, <2>2
<1>6. CASE Writable BY <1>1, <1>6 DEF Writable
<1>7. ASSUME NEW m, Arrives(m) PROVE WakeType'
  BY <1>0, <1>7 DEF Arrives, Wake, WakeType
<1>8. CASE UNCHANGED vars BY ZenonT(30), <1>0, <1>8 DEF vars, WakeType
<1> QED BY ZenonT(30), <1>3, <1>4, <1>5, <1>6, <1>7, <1>8 DEF Next

\* The locals of the poll keep their types.
LEMMA PollTypeStep ==
  ASSUME TypeInv, [Next]_vars
  PROVE  PollType'
PROOF
<1>0. poll \in Poll /\ rx \in Seq(ids \cup {"dgram"}) /\ BATCH_SIZE \in Nat
  BY ZenonT(30), SocketAssumption DEF TypeInv, PollType, RecvType
<1>1. CASE PollStarts BY ZenonT(30), <1>0, <1>1 DEF PollStarts, PollType, Poll
<1>2. CASE PollRecv
  <2>1. PICK n \in Nat :
           \/ poll' = [poll EXCEPT !.pc = "transmit", !.should_continue = TRUE]
           \/ poll' = [poll EXCEPT !.iters = @ + 1, !.batch = n]
           \/ poll' = [poll EXCEPT !.pc = "transmit"]
    <3>1. Len(rx) \in Nat BY <1>0
    <3>2. (IF Len(rx) < BATCH_SIZE THEN Len(rx) ELSE BATCH_SIZE) \in Nat
      BY <1>0, <3>1
    <3> QED BY ZenonT(30), <1>2, <3>2 DEF PollRecv
  <2>2. CASE poll' = [poll EXCEPT !.pc = "transmit", !.should_continue = TRUE]
    BY ZenonT(30), <1>0, <2>2 DEF PollType, Poll
  <2>3. CASE poll' = [poll EXCEPT !.iters = @ + 1, !.batch = n]
    <3>1. poll.iters + 1 \in Nat BY <1>0 DEF Poll
    <3> DEFINE k == poll.iters + 1
    <3>2. poll' = [poll EXCEPT !.iters = k, !.batch = n] BY <2>3
    <3> HIDE DEF k
    <3> QED BY ZenonT(30), <1>0, <3>1, <3>2 DEF PollType, Poll, k
  <2>4. CASE poll' = [poll EXCEPT !.pc = "transmit"]
    BY <1>0, <2>4 DEF PollType, Poll
  <2> QED BY SMTT(30), <2>1, <2>2, <2>3, <2>4
<1>3. CASE PollRecvFails BY <1>0, <1>3 DEF PollRecvFails, Returns, PollType, Poll
<1>4. CASE NextMessage BY <1>0, <1>4 DEF NextMessage, PollType, Poll
<1>5. CASE BatchFilled BY ZenonT(30), <1>0, <1>5 DEF BatchFilled, PollType, Poll
<1>6. CASE SendNothing BY <1>0, <1>6 DEF SendNothing, PollType, Poll
<1>7. CASE PollSend BY ZenonT(30), <1>0, <1>7 DEF PollSend, SendMore, PollType, Poll
<1>8. CASE PollEnds BY <1>0, <1>8 DEF PollEnds, Returns, PollType, Poll
<1>9. CASE UNCHANGED poll BY <1>0, <1>9 DEF PollType
<1> QED
  BY ZenonT(30), <1>1, <1>2, <1>3, <1>4, <1>5, <1>6, <1>7, <1>8, <1>9, PollFrame
     DEF DriverNext, ProcessPacket, OnRecvDgram

\* A batch is no larger than what recvmmsg found, and shrinks with it.
LEMMA BatchInRxStep ==
  ASSUME TypeInv, [Next]_vars
  PROVE  BatchInRx'
PROOF
<1>0. /\ poll \in Poll /\ rx \in Seq(ids \cup {"dgram"}) /\ poll.batch <= Len(rx)
      /\ BATCH_SIZE \in Nat /\ Len(rx) \in Nat
  BY SocketAssumption DEF TypeInv, PollType, RecvType, BatchInRx
<1>1. ASSUME UNCHANGED rx, poll'.batch \in {0, poll.batch} PROVE BatchInRx'
  BY <1>0, <1>1 DEF BatchInRx
<1>2. ASSUME NEW m, Arrives(m) PROVE BatchInRx'
  <2>1. rx' = Append(rx, m) /\ poll' = poll BY <1>2 DEF Arrives
  <2>2. Len(rx') = Len(rx) + 1 BY <1>0, <2>1
  <2>3. poll.batch \in Nat BY <1>0 DEF Poll
  <2> QED BY <1>0, <2>1, <2>2, <2>3 DEF BatchInRx
<1>3. CASE NextMessage
  <2>1. Len(rx') = Len(rx) - 1 BY <1>3, NextMessageType
  <2>2. poll'.batch = poll.batch - 1 /\ poll.batch \in Nat
    BY <1>0, <1>3 DEF NextMessage, Poll
  <2> QED BY <1>0, <2>1, <2>2 DEF BatchInRx
<1>4. CASE PollRecv
  <2>1. UNCHANGED rx BY <1>4 DEF PollRecv, recvVars
  <2> DEFINE n == IF Len(rx) < BATCH_SIZE THEN Len(rx) ELSE BATCH_SIZE
  <2>2. n <= Len(rx) BY <1>0
  <2>3. \/ poll' = [poll EXCEPT !.pc = "transmit", !.should_continue = TRUE]
        \/ poll' = [poll EXCEPT !.iters = @ + 1, !.batch = n]
        \/ poll' = [poll EXCEPT !.pc = "transmit"]
    BY <1>4 DEF PollRecv
  <2> HIDE DEF n
  <2>4. poll'.batch \in {poll.batch, n} BY ZenonT(30), <1>0, <2>3 DEF Poll
  <2> QED BY <1>0, <2>1, <2>2, <2>4 DEF BatchInRx
<1>5. CASE PollStarts \/ PollRecvFails \/ BatchFilled \/ SendNothing \/ PollSend
             \/ PollEnds \/ TakeEvent
  <2>1. UNCHANGED rx
    BY ZenonT(30), <1>5 DEF PollStarts, PollRecvFails, BatchFilled, SendNothing, PollSend,
                PollEnds, TakeEvent, recvVars
  <2>2. CASE PollStarts BY ZenonT(30), <1>1, <2>1, <2>2 DEF PollStarts
  <2>3. CASE PollRecvFails BY <1>0, <1>1, <2>1, <2>3 DEF PollRecvFails, Returns, Poll
  <2>4. CASE BatchFilled BY ZenonT(30), <1>0, <1>1, <2>1, <2>4 DEF BatchFilled, Poll
  <2>5. CASE SendNothing BY <1>0, <1>1, <2>1, <2>5 DEF SendNothing, Poll
  <2>6. CASE PollSend
    <3>1. poll' = [poll EXCEPT !.pc = "finish", !.should_continue = @ \/ SendMore]
      BY <2>6 DEF PollSend
    <3> QED BY <1>0, <1>1, <2>1, <3>1 DEF Poll
  <2>7. CASE PollEnds BY <1>0, <1>1, <2>1, <2>7 DEF PollEnds, Returns, Poll
  <2>8. CASE TakeEvent BY ZenonT(30), <1>1, <2>1, <2>8 DEF TakeEvent
  <2> QED BY <1>5, <2>2, <2>3, <2>4, <2>5, <2>6, <2>7, <2>8
<1>6. CASE HandleNext \/ StreamNext \/ Writable \/ UNCHANGED vars
  <2>1. UNCHANGED <<rx, poll>>
    BY ZenonT(30), <1>6 DEF HandleNext, StreamNext, Writable, vars, Send, Submit, Clone, DropBegins,
         DropEnds, PollFuture, Connect, StreamTransmit, StreamFinishes, StreamFreed,
         recvVars
  <2> QED BY <1>1, <2>1
<1> QED
  BY ZenonT(30), <1>2, <1>3, <1>4, <1>5, <1>6 DEF Next, DriverNext, ProcessPacket, OnRecvDgram

\* Every step of the system keeps the types.
LEMMA TypeStep == TypeInv /\ [Next]_vars => TypeInv'
  BY ZenonT(30), RecvTypeStep, SendTypeStep, AppTypeStep, WakeTypeStep, ChannelTypeStep,
     PollTypeStep, BatchInRxStep DEF TypeInv

\* The types hold throughout.
LEMMA TypeInvariant == Spec => []TypeInv
  BY TypeInit, TypeStep, PTL DEF Spec

\* The socket's fields keep their types, and its queues the capacities the code
\* gives them (BATCH_SIZE, RECV_QUEUE_MAX_LEN).
THEOREM SocketTypeCorrect == Spec => []TypeOK
  BY TypeInvariant, TypeParts, PTL

-----------------------------------------------------------------------------
(* Time stamps *)

\* A packet set that is to be sent is stamped already, or it waits to be stamped
\* no further back in outgoing_packet_sets than it waits in outgoing_transmits.
\* So the first n transmits have their sets among the first n sets.
StampInv ==
  /\ Len(outgoing_packet_sets) <= Len(outgoing_transmits)
  /\ \A i \in 1 .. Len(outgoing_transmits) :
       outgoing_transmits[i].kind = "Transmit" =>
         \/ outgoing_transmits[i].n \in stamped
         \/ \E j \in 1 .. Len(outgoing_packet_sets) :
              j <= i /\ outgoing_packet_sets[j] = outgoing_transmits[i].n
  /\ SentAreStamped

\* Taking an event adds to both queues, or to the transmits alone.
LEMMA StampTake ==
  ASSUME TypeInv, StampInv, TakeEvent
  PROVE  StampInv'
PROOF
<1> DEFINE out == outgoing_transmits  sets == outgoing_packet_sets
           event == Head(send_rx)
<1>0. out \in Seq(Event) /\ sets \in Seq(Nat) /\ Len(sets) <= Len(out)
  BY ZenonT(30) DEF TypeInv, SendType, StampInv
<1>1. UNCHANGED <<sent, stamped>> BY ZenonT(30) DEF TakeEvent
<1>2. \A i \in 1 .. Len(out) :
        out[i].kind = "Transmit" =>
          \/ out[i].n \in stamped
          \/ \E j \in 1 .. Len(sets) : j <= i /\ sets[j] = out[i].n
  BY ZenonT(30) DEF StampInv
<1>3. SentAreStamped' BY ZenonT(30), <1>1 DEF StampInv, SentAreStamped
<1>4. CASE out' = out /\ sets' = sets
  BY ZenonT(30), <1>1, <1>3, <1>4 DEF StampInv
<1>5. CASE /\ event.kind = "TransmitDgram"
           /\ out' = Append(out, event) /\ sets' = sets
  <2>1. /\ Len(out') = Len(out) + 1 /\ out'[Len(out) + 1] = event
        /\ \A i \in 1 .. Len(out) : out'[i] = out[i]
    BY <1>0, <1>5
  <2>2. Len(sets') <= Len(out') BY <1>0, <1>5, <2>1
  <2>3. ASSUME NEW i \in 1 .. Len(out'), out'[i].kind = "Transmit"
        PROVE  \/ out'[i].n \in stamped'
               \/ \E j \in 1 .. Len(sets') : j <= i /\ sets'[j] = out'[i].n
    <3>1. i \in 1 .. Len(out) BY <1>0, <1>5, <2>1, <2>3
    <3> QED BY ZenonT(30), <1>1, <1>2, <1>5, <2>1, <2>3, <3>1
  <2> QED BY ZenonT(30), <1>3, <2>2, <2>3 DEF StampInv
<1>6. CASE /\ event.kind = "Transmit"
           /\ out' = Append(out, event) /\ sets' = Append(sets, event.n)
  <2>1. /\ Len(out') = Len(out) + 1 /\ out'[Len(out) + 1] = event
        /\ \A i \in 1 .. Len(out) : out'[i] = out[i]
    BY <1>0, <1>6
  <2>2. event.n \in Nat BY ZenonT(30), <1>6, TakenType
  <2>3. /\ Len(sets') = Len(sets) + 1 /\ sets'[Len(sets) + 1] = event.n
        /\ \A i \in 1 .. Len(sets) : sets'[i] = sets[i]
    BY <1>0, <1>6, <2>2
  <2>4. ASSUME NEW i \in 1 .. Len(out'), out'[i].kind = "Transmit"
        PROVE  \/ out'[i].n \in stamped'
               \/ \E j \in 1 .. Len(sets') : j <= i /\ sets'[j] = out'[i].n
    <3>1. CASE i \in 1 .. Len(out)
      <4>1. \/ out[i].n \in stamped
            \/ \E j \in 1 .. Len(sets) : j <= i /\ sets[j] = out[i].n
        BY ZenonT(30), <1>2, <2>1, <2>4, <3>1
      <4> QED BY <1>0, <1>1, <2>1, <2>3, <3>1, <4>1
    <3>2. CASE i = Len(out) + 1
      <4>1. Len(sets) + 1 \in 1 .. Len(sets') /\ Len(sets) + 1 <= i
        BY <1>0, <2>3, <3>2
      <4> QED BY ZenonT(30), <2>1, <2>3, <3>2, <4>1
    <3> QED BY <1>0, <2>1, <3>1, <3>2
  <2>5. Len(sets') <= Len(out') BY <1>0, <2>1, <2>3
  <2> QED BY ZenonT(30), <1>3, <2>4, <2>5 DEF StampInv
<1> QED BY ZenonT(30), <1>4, <1>5, <1>6 DEF TakeEvent

\* The places of what a drain of n leaves, before and after it.
LEMMA Drained ==
  \A l, s \in Nat : \A n \in 1 .. l : \A i \in 1 .. l - n :
    /\ i + n \in 1 .. l
    /\ \A j \in 1 .. s : j <= i + n /\ n < j => j - n \in 1 .. s - n /\ j - n <= i /\ (j - n) + n = j
  OBVIOUS

\* A send stamps the sets of all the transmits it takes.
LEMMA StampSend ==
  ASSUME TypeInv, StampInv, PollSend
  PROVE  StampInv'
PROOF
<1> DEFINE out == outgoing_transmits  sets == outgoing_packet_sets
<1>0. /\ out \in Seq(Event) /\ sets \in Seq(Nat) /\ Len(sets) <= Len(out)
      /\ sent \in Seq(Event)
  BY ZenonT(30) DEF TypeInv, SendType, StampInv
<1>11. Len(out) \in Nat /\ Len(sets) \in Nat BY <1>0
<1>1. PICK n \in 1 .. Len(out) :
        /\ sent' = sent \o SubSeq(out, 1, n)
        /\ out' = Drain(out, n)
        /\ stamped' = stamped \cup {sets[i] : i \in 1 .. StampCount(n)}
        /\ sets' = Drain(sets, StampCount(n))
  BY ZenonT(30) DEF PollSend
<1> DEFINE k == StampCount(n)
<1>2. /\ k \in 0 .. Len(sets) /\ k <= n
      /\ \A j \in 1 .. Len(sets) : j <= k \/ (k = n /\ n < j)
  BY <1>0 DEF StampCount
<1>3. /\ out' \in Seq(Event) /\ Len(out') = Len(out) - n
      /\ \A i \in 1 .. Len(out) - n : out'[i] = out[i + n]
      /\ SubSeq(out, 1, n) \in Seq(Event) /\ Len(SubSeq(out, 1, n)) = n
      /\ \A i \in 1 .. n : SubSeq(out, 1, n)[i] = out[i]
  <2>1. n \in 0 .. Len(out) BY <1>0
  <2> QED BY ZenonT(30), <1>0, <1>1, <2>1, DrainFacts
<1> HIDE DEF k
<1>4. /\ sets' \in Seq(Nat) /\ Len(sets') = Len(sets) - k
      /\ \A j \in 1 .. Len(sets) - k : sets'[j] = sets[j + k]
  BY ZenonT(30), <1>0, <1>1, <1>2, DrainFacts DEF k
<1>5. stamped' = stamped \cup {sets[j] : j \in 1 .. k} BY ZenonT(30), <1>1 DEF k
<1>6. ASSUME NEW i \in 1 .. Len(out), out[i].kind = "Transmit",
             out[i].n \notin stamped'
      PROVE  \E j \in 1 .. Len(sets) :
               j <= i /\ sets[j] = out[i].n /\ k = n /\ n < j
  <2>1. PICK j \in 1 .. Len(sets) : j <= i /\ sets[j] = out[i].n
    BY ZenonT(30), <1>5, <1>6 DEF StampInv
  <2>2. ~(j <= k) BY <1>2, <1>5, <1>6, <2>1
  <2> QED BY ZenonT(30), <1>2, <2>1, <2>2
<1>7. ASSUME NEW i \in 1 .. n, out[i].kind = "Transmit" PROVE out[i].n \in stamped'
  <2>1. i \in 1 .. Len(out) BY <1>0
  <2> QED BY <1>0, <1>6, <1>7, <2>1
<1>8. SentAreStamped'
  <2> SUFFICES ASSUME NEW i \in 1 .. Len(sent'), sent'[i].kind = "Transmit"
               PROVE  sent'[i].n \in stamped'
    BY ZenonT(30) DEF SentAreStamped
  <2>1. /\ Len(sent') = Len(sent) + n
        /\ i <= Len(sent) => sent'[i] = sent[i]
        /\ i > Len(sent) => i - Len(sent) \in 1 .. n
                              /\ sent'[i] = SubSeq(out, 1, n)[i - Len(sent)]
    BY SMTT(30), <1>0, <1>1, <1>3
  <2>2. CASE i <= Len(sent)
    <3>1. sent[i].n \in stamped
      BY <1>0, <2>1, <2>2 DEF StampInv, SentAreStamped
    <3> QED BY ZenonT(30), <1>5, <2>1, <2>2, <3>1
  <2>3. CASE i > Len(sent)
    <3> DEFINE l == i - Len(sent)
    <3>1. l \in 1 .. n /\ sent'[i] = out[l] BY ZenonT(30), <1>3, <2>1, <2>3
    <3> HIDE DEF l
    <3> QED BY ZenonT(30), <1>7, <3>1
  <2> QED BY <1>0, <2>2, <2>3
<1>9. ASSUME NEW i \in 1 .. Len(out'), out'[i].kind = "Transmit",
             out'[i].n \notin stamped'
      PROVE  \E j \in 1 .. Len(sets') : j <= i /\ sets'[j] = out'[i].n
  <2>1. i + n \in 1 .. Len(out) /\ out'[i] = out[i + n]
    <3>1. i \in 1 .. Len(out) - n BY ZenonT(30), <1>3
    <3> QED BY ZenonT(30), <1>11, <1>3, <3>1, Drained
  <2>2. PICK j \in 1 .. Len(sets) :
          j <= i + n /\ sets[j] = out[i + n].n /\ k = n /\ n < j
    BY ZenonT(30), <1>6, <1>9, <2>1
  <2> DEFINE l == j - n
  <2>3. l \in 1 .. Len(sets) - k /\ l <= i /\ l + k = j
    <3>1. i \in 1 .. Len(out) - n BY ZenonT(30), <1>3
    <3>2. j \in 1 .. Len(sets) /\ j <= i + n /\ n < j BY ZenonT(30), <2>2
    <3>3. l \in 1 .. Len(sets) - n /\ l <= i /\ l + n = j BY <1>11, <3>1, <3>2, Drained
    <3> QED BY ZenonT(30), <2>2, <3>3
  <2> HIDE DEF l
  <2>4. l \in 1 .. Len(sets') /\ sets'[l] = sets[j]
    BY ZenonT(30), <1>4, <2>3
  <2> QED BY ZenonT(30), <2>1, <2>2, <2>3, <2>4
<1>10. Len(sets') <= Len(out')
  <2>1. Len(sets') = Len(sets) - k /\ Len(out') = Len(out) - n BY ZenonT(30), <1>3, <1>4
  <2>2. k = n \/ k = Len(sets) BY <1>2
  <2>3. Len(sets) <= Len(out) /\ n <= Len(out) BY <1>0
  <2> QED BY SMTT(30), <1>0, <1>2, <2>1, <2>2, <2>3
<1> QED BY ZenonT(30), <1>8, <1>9, <1>10 DEF StampInv

\* Every packet that has been sent has a time_sent, whatever mixture of packet
\* sets and datagrams is queued and however poll_send splits it.
THEOREM StampsCorrect == Spec => []SentAreStamped
PROOF
<1>1. Init => StampInv BY DEF Init, StampInv, SentAreStamped
<1>2. TypeInv /\ StampInv /\ [Next]_vars => StampInv'
  <2> SUFFICES ASSUME TypeInv, StampInv, [Next]_vars PROVE StampInv'
    OBVIOUS
  <2>1. CASE UNCHANGED sendVars
    BY ZenonT(30), <2>1 DEF sendVars, StampInv, SentAreStamped
  <2> QED BY <2>1, StampTake, StampSend, SendFrame
<1>3. StampInv => SentAreStamped BY ZenonT(30) DEF StampInv
<1> QED BY <1>1, <1>2, <1>3, TypeInvariant, PTL DEF Spec

-----------------------------------------------------------------------------
(* The channels of the streams *)

\* No two streams are ever given the same local_id.
Distinct == \A s, t \in Streams : LocalId[s] = LocalId[t] => s = t

\* An open stream is found under its id, and a StreamDropped on its way to the
\* driver is that of a stream that has closed.
ChannelInv ==
  /\ \A s \in Streams : stream[s] = "open" => streams[LocalId[s]] = s \/ Ended
  /\ \A i \in 1 .. Len(send_rx) : send_rx[i].kind = "StreamDropped" =>
       \A s \in Streams : LocalId[s] = send_rx[i].id => stream[s] \in {"closed", "freed"}

\* A driver that has ended does not come back.
LEMMA EndedStays == ASSUME [Next]_vars, Ended PROVE UNCHANGED poll
  BY ZenonT(30), PollFrame DEF Ended, DriverNext, PollStarts, PollRecv, PollRecvFails, ProcessPacket,
     OnRecvDgram, NextMessage, BatchFilled, SendNothing, PollSend, PollEnds

\* The states a stream goes through, and what each step does to it.
LEMMA StreamFrame ==
  ASSUME [Next]_vars
  PROVE  \/ (\E s \in Streams : Connect(s)) \/ (\E s \in Streams : StreamFinishes(s))
         \/ (\E s \in Streams : StreamFreed(s)) \/ UNCHANGED stream
  BY ZenonT(30), AppFrame DEF AppStep, Send, StreamTransmit, Submit, Clone, DropBegins, DropEnds,
     PollRecvFails, PollEnds, appVars

\* The map of streams changes by connect() and by the driver.
LEMMA StreamsFrame ==
  ASSUME [Next]_vars
  PROVE  \/ (\E s \in Streams : Connect(s)) \/ ProcessPacket \/ TakeEvent
         \/ UNCHANGED streams
  BY ZenonT(30), RecvFrame DEF PollFuture, Arrives, OnRecvDgram, recvVars

\* A stream is removed from the map, or a stream is made, without harm to the
\* others.
LEMMA ChannelStep ==
  ASSUME Distinct, TypeInv, ChannelInv, [Next]_vars
  PROVE  ChannelInv'
PROOF
<1> DEFINE Found == \A s \in Streams : stream[s] = "open" =>
                                         streams[LocalId[s]] = s \/ Ended
           Stale == \A i \in 1 .. Len(send_rx) : send_rx[i].kind = "StreamDropped" =>
                      \A s \in Streams : LocalId[s] = send_rx[i].id =>
                                           stream[s] \in {"closed", "freed"}
<1> SUFFICES Found' /\ Stale' BY ZenonT(30) DEF ChannelInv
<1>0. /\ Found /\ Stale /\ send_rx \in Seq(Event)
      /\ stream \in [Streams -> {"none", "open", "closed", "freed"}]
      /\ streams \in [ids -> Streams \cup {NoStream}]
      /\ \A s \in Streams : LocalId[s] \in ids
      /\ NoStream \notin Streams
  BY ZenonT(30), SocketAssumption
     DEF TypeInv, AppType, RecvType, ChannelType, ChannelInv, ids, Range
<1>1. Ended => Ended' BY ZenonT(30), EndedStays DEF Ended
<1>2. ASSUME NEW c \in Streams, Connect(c) PROVE Found' /\ Stale'
  <2>1. /\ stream[c] = "none" /\ stream' = [stream EXCEPT ![c] = "open"]
        /\ streams' = [streams EXCEPT ![LocalId[c]] = c] /\ send_rx' = send_rx
    BY ZenonT(30), <1>2 DEF Connect
  <2>2. Found' BY ZenonT(30), <1>0, <1>1, <2>1 DEF Distinct
  <2>3. Stale' BY ZenonT(30), <1>0, <2>1
  <2> QED BY ZenonT(30), <2>2, <2>3
<1>3. ASSUME NEW c \in Streams, StreamFinishes(c) PROVE Found' /\ Stale'
  <2>1. /\ stream[c] = "open" /\ stream' = [stream EXCEPT ![c] = "closed"]
        /\ send_rx' = Append(send_rx, [kind |-> "StreamDropped", id |-> LocalId[c]])
        /\ streams' = streams
    BY ZenonT(30), <1>3 DEF StreamFinishes, Push, recvVars
  <2>2. Found' BY ZenonT(30), <1>0, <1>1, <2>1
  <2>3. /\ Len(send_rx') = Len(send_rx) + 1
        /\ send_rx'[Len(send_rx) + 1].id = LocalId[c]
        /\ \A i \in 1 .. Len(send_rx) : send_rx'[i] = send_rx[i]
    BY <1>0, <2>1
  <2>4. ASSUME NEW i \in 1 .. Len(send_rx'), send_rx'[i].kind = "StreamDropped",
               NEW s \in Streams, LocalId[s] = send_rx'[i].id
        PROVE  stream'[s] \in {"closed", "freed"}
    <3>1. CASE i \in 1 .. Len(send_rx) BY <1>0, <2>1, <2>3, <2>4, <3>1
    <3>2. CASE i = Len(send_rx) + 1 BY <1>0, <2>1, <2>3, <2>4, <3>2 DEF Distinct
    <3> QED BY <1>0, <2>3, <3>1, <3>2
  <2> QED BY ZenonT(30), <2>2, <2>4
<1>4. ASSUME NEW c \in Streams, StreamFreed(c) PROVE Found' /\ Stale'
  BY ZenonT(30), <1>0, <1>1, <1>4 DEF StreamFreed, recvVars
<1>5. CASE ProcessPacket
  <2>1. /\ stream' = stream /\ send_rx' = send_rx
        /\ streams' = Delivered(Head(rx)) /\ Known(Head(rx))
    BY <1>5 DEF ProcessPacket, NextMessage, appVars
  <2>2. ASSUME NEW s \in Streams, stream'[s] = "open"
        PROVE  streams'[LocalId[s]] = s \/ Ended'
    <3> DEFINE m == Head(rx)
    <3>1. stream[s] = "open" /\ (streams[LocalId[s]] = s \/ Ended')
      BY ZenonT(30), <1>0, <1>1, <2>1, <2>2
    <3>2. streams' = Delivered(m) BY <2>1
    <3> HIDE DEF m
    <3>3. CASE stream[streams[m]] = "freed"
      <4>1. streams' = [streams EXCEPT ![m] = NoStream] BY ZenonT(30), <3>2, <3>3 DEF Delivered
      <4>2. streams[LocalId[s]] = s => m # LocalId[s] BY ZenonT(30), <3>1, <3>3
      <4> QED BY ZenonT(30), <1>0, <3>1, <4>1, <4>2
    <3>4. CASE stream[streams[m]] # "freed"
      <4>1. streams' = streams BY ZenonT(30), <3>2, <3>4 DEF Delivered
      <4> QED BY ZenonT(30), <3>1, <4>1
    <3> QED BY ZenonT(30), <3>3, <3>4
  <2> QED BY ZenonT(30), <1>0, <2>1, <2>2
<1>6. CASE TakeEvent
  <2>1. /\ stream' = stream /\ send_rx' = Tail(send_rx) /\ send_rx # <<>>
        /\ \/ streams' = streams
           \/ /\ Head(send_rx).kind = "StreamDropped"
              /\ streams' = [streams EXCEPT ![Head(send_rx).id] = NoStream]
    BY ZenonT(30), <1>6 DEF TakeEvent, appVars
  <2>2. /\ Head(send_rx) = send_rx[1] /\ 1 \in 1 .. Len(send_rx)
        /\ Len(send_rx') = Len(send_rx) - 1
        /\ \A i \in 1 .. Len(send_rx') :
             send_rx'[i] = send_rx[i + 1] /\ i + 1 \in 1 .. Len(send_rx)
    BY <1>0, <2>1
  <2>3. ASSUME NEW s \in Streams, stream'[s] = "open"
        PROVE  streams'[LocalId[s]] = s \/ Ended'
    <3>1. stream[s] = "open" /\ (streams[LocalId[s]] = s \/ Ended')
      BY ZenonT(30), <1>0, <1>1, <2>1, <2>3
    <3>2. Head(send_rx).kind = "StreamDropped" => LocalId[s] # Head(send_rx).id
      BY SMTT(30), <1>0, <2>2, <3>1
    <3> QED BY ZenonT(30), <1>0, <2>1, <3>1, <3>2
  <2>4. Stale' BY <1>0, <2>1, <2>2
  <2> QED BY ZenonT(30), <2>3, <2>4
<1>7. ASSUME NEW kind \in {"Transmit", "TransmitDgram"}, Submit(kind)
      PROVE  Found' /\ Stale'
  <2> DEFINE e == [kind |-> kind, n |-> submitted + 1]
  <2>1. /\ stream' = stream /\ streams' = streams /\ send_rx' = Append(send_rx, e)
    BY ZenonT(30), <1>7 DEF Submit, Push, recvVars
  <2>2. e.kind # "StreamDropped" BY ZenonT(30)
  <2> HIDE DEF e
  <2>3. /\ Len(send_rx') = Len(send_rx) + 1 /\ send_rx'[Len(send_rx) + 1] = e
        /\ \A i \in 1 .. Len(send_rx) : send_rx'[i] = send_rx[i]
    BY <1>0, <2>1
  <2>4. Stale' BY <1>0, <2>1, <2>2, <2>3
  <2> QED BY ZenonT(30), <1>0, <1>1, <2>1, <2>4
<1>8. CASE UNCHANGED <<stream, streams, send_rx>>
  BY ZenonT(30), <1>0, <1>1, <1>8
<1> QED
  BY ZenonT(30), StreamFrame, StreamsFrame, ChannelFrame, <1>2, <1>3, <1>4, <1>5, <1>6, <1>7, <1>8
     DEF ChannelInv

\* As long as no two streams have the same local_id, the socket knows the id of
\* every open stream: process_packet and a StreamDropped event remove other
\* entries of streams only.
THEOREM ChannelsCorrect ==
  ASSUME Distinct
  PROVE  Spec => []ChannelOpen
PROOF
<1>1. Init => ChannelInv BY DEF Init, ChannelInv
<1>2. TypeInv /\ ChannelInv /\ [Next]_vars => ChannelInv' BY ChannelStep
<1>3. ChannelInv => ChannelOpen BY SocketAssumption DEF ChannelInv, ChannelOpen
<1> QED BY <1>1, <1>2, <1>3, TypeInvariant, PTL DEF Spec

-----------------------------------------------------------------------------
(* The end of the driver *)

\* has_refs goes with the last handle, unless the driver has failed; a driver
\* that is done leaves no handle and no open stream.
EndInv ==
  /\ ~has_refs => Live = {} \/ poll.pc = "failed"
  /\ poll.pc = "done" => Live = {} /\ \A s \in Streams : stream[s] # "open"

\* The set of the handles that count.
Counted == {h \in Handles : handle[h] \in {"live", "dropping"}}

\* When the count leaves one handle to the driver's, that is the one dropped.
LEMMA LastHandle ==
  ASSUME NEW h \in Handles, handle[h] = "live", OnlyDriverLeft, ~Ended
  PROVE  Live = {h}
PROOF
<1>1. IsFiniteSet(Counted)
  BY ZenonT(30), SocketAssumption, FS_Subset DEF Counted
<1>2. Cardinality(Counted) = 1
  BY <1>1, FS_CardinalityType DEF OnlyDriverLeft, StrongCount, Counted
<1>3. PICK g : Counted = {g} BY ZenonT(30), <1>1, <1>2, FS_Singleton
<1> QED BY <1>3 DEF Counted, Live

\* The driver ends in PollEnds or by an error, and once.
LEMMA HowItEnds ==
  ASSUME [Next]_vars, poll \in Poll
  PROVE  /\ poll'.pc = "done" => poll.pc = "done" \/ PollEnds
         /\ poll.pc = "failed" => poll'.pc = "failed"
PROOF
<1>1. poll.pc = "failed" => poll'.pc = "failed" BY EndedStays DEF Ended
<1>2. CASE PollStarts \/ PollRecvFails
  BY <1>1, <1>2 DEF PollStarts, PollRecvFails, Returns, Poll
<1>3. CASE PollRecv BY ZenonT(30), <1>1, <1>3 DEF PollRecv, Poll
<1>4. CASE NextMessage BY <1>1, <1>4 DEF NextMessage, Poll
<1>5. CASE BatchFilled \/ SendNothing \/ PollSend
  BY ZenonT(30), <1>1, <1>5 DEF BatchFilled, SendNothing, PollSend, Poll
<1> QED
  BY ZenonT(30), <1>1, <1>2, <1>3, <1>4, <1>5, PollFrame DEF DriverNext, ProcessPacket, OnRecvDgram

\* No step takes has_refs away from a live handle of a driver that runs.
LEMMA EndStep ==
  ASSUME Distinct, TypeInv, ChannelInv, EndInv, [Next]_vars
  PROVE  EndInv'
PROOF
<1> DEFINE Refs == ~has_refs => Live = {} \/ poll.pc = "failed"
           Done == poll.pc = "done" => Live = {} /\ \A s \in Streams : stream[s] # "open"
<1>0. /\ Refs /\ Done /\ has_refs \in BOOLEAN /\ poll \in Poll
      /\ handle \in [Handles -> {"unused", "live", "dropping", "dropped"}]
      /\ stream \in [Streams -> {"none", "open", "closed", "freed"}]
  BY ZenonT(30) DEF TypeInv, AppType, PollType, EndInv
<1> SUFFICES Refs' /\ Done' BY ZenonT(30) DEF EndInv
<1>1. ASSUME UNCHANGED <<has_refs, poll>>, Live' \subseteq Live,
             \A s \in Streams : stream'[s] = "open" => stream[s] = "open"
      PROVE  Refs' /\ Done'
  BY ZenonT(30), <1>0, <1>1
<1>2. CASE Send \/ \E s \in Streams : StreamTransmit(s)
  BY ZenonT(30), <1>1, <1>2 DEF Send, StreamTransmit, Submit, Live
<1>3. ASSUME NEW s \in Streams, StreamFinishes(s) \/ StreamFreed(s) PROVE Refs' /\ Done'
  BY <1>0, <1>1, <1>3 DEF StreamFinishes, StreamFreed, Live
<1>4. ASSUME NEW s \in Streams, Connect(s) PROVE Refs' /\ Done'
  BY ZenonT(30), <1>0, <1>4 DEF Connect, Live
<1>5. ASSUME NEW h \in Handles, Clone(h) PROVE Refs' /\ Done'
  BY ZenonT(30), <1>0, <1>5 DEF Clone
<1>6. ASSUME NEW h \in Handles, DropEnds(h) PROVE Refs' /\ Done'
  BY ZenonT(30), <1>0, <1>1, <1>6 DEF DropEnds, Live
<1>7. ASSUME NEW h \in Handles, DropBegins(h) PROVE Refs' /\ Done'
  <2>1. /\ h \in Live /\ Live' = Live \ {h} /\ poll' = poll /\ stream' = stream
    BY ZenonT(30), <1>0, <1>7 DEF DropBegins, Live
  <2>2. poll.pc # "done" BY ZenonT(30), <1>0, <2>1
  <2>3. CASE OnlyDriverLeft /\ ~Ended
    BY ZenonT(30), <2>1, <2>2, <2>3, LastHandle DEF Live
  <2>4. CASE Ended BY ZenonT(30), <2>1, <2>2, <2>4 DEF Ended
  <2>5. CASE ~OnlyDriverLeft
    <3>1. has_refs' = has_refs BY ZenonT(30), <1>7, <2>5 DEF DropBegins
    <3> QED BY ZenonT(30), <1>0, <2>1, <2>2, <3>1
  <2> QED BY ZenonT(30), <2>3, <2>4, <2>5
<1>8. CASE PollRecvFails
  BY <1>0, <1>8 DEF PollRecvFails, Returns, Poll
<1>9. CASE PollEnds
  <2>1. poll.pc = "finish" /\ Live' = Live /\ stream' = stream
    BY <1>9 DEF PollEnds, Live
  <2>2. CASE Idle /\ Returns("done")
    <3>1. ~has_refs /\ Live = {} BY ZenonT(30), <1>0, <2>1, <2>2 DEF Idle
    <3>2. ASSUME NEW s \in Streams, stream[s] = "open" PROVE FALSE
      BY ZenonT(30), <2>1, <2>2, <3>2, SocketAssumption DEF ChannelInv, Ended, Idle, ids, Range
    <3> QED BY ZenonT(30), <2>1, <3>1, <3>2
  <2>3. CASE has_refs' = has_refs /\ poll' = [poll EXCEPT !.pc = "idle"]
    BY <1>0, <2>1, <2>3 DEF Poll
  <2> QED BY <1>9, <2>2, <2>3 DEF PollEnds
<1>10. CASE UNCHANGED appVars /\ ~PollEnds
  BY ZenonT(30), <1>0, <1>10, HowItEnds DEF appVars, Live
<1> QED BY ZenonT(30), AppFrame, <1>2, <1>3, <1>4, <1>5, <1>6, <1>7, <1>8, <1>9, <1>10 DEF AppStep

\* As long as no two streams have the same local_id, the driver of a socket is not
\* done before the last open stream is: idle sees every open stream in streams,
\* and has_refs goes with the last handle only.
THEOREM StreamsServed ==
  ASSUME Distinct
  PROVE  Spec => []ServesStreams
PROOF
<1>1. Init => ChannelInv /\ EndInv
  BY DEF Init, ChannelInv, EndInv
<1>2. TypeInv /\ ChannelInv /\ EndInv /\ [Next]_vars => ChannelInv' /\ EndInv'
  BY ZenonT(30), ChannelStep, EndStep
<1>3. EndInv => ServesStreams BY ZenonT(30) DEF EndInv, ServesStreams
<1> QED BY <1>1, <1>2, <1>3, TypeInvariant, PTL DEF Spec

-----------------------------------------------------------------------------
(* The sleep of the driver *)

\* The driver has been woken, or will be by the next message, by the next event
\* of send_rx, by what it waits for in order to send, and by the last drop.
Reads == scheduled \/ (rx = <<>> /\ "read" \in wakers)
Hears == scheduled \/ (send_rx = <<>> /\ "send_rx" \in wakers)
Sends == IF outgoing_transmits = <<>> THEN Hears ELSE scheduled \/ "write" \in wakers
Stays ==
  scheduled \/ ("drive" \in wakers /\ (has_refs \/ \E id \in ids : streams[id] # NoStream))

\* What each part of a poll leaves to those after it, unless the driver is to be
\* polled again at once.
SleepInv ==
  /\ poll.pc \in {"recv", "transmit"} => ~poll.send_rx_pending
  /\ poll.pc \in {"transmit", "send", "finish"} /\ ~poll.should_continue => Reads
  /\ poll.pc = "send" /\ poll.send_rx_pending => Hears
  /\ poll.pc = "send" /\ ~poll.send_rx_pending => outgoing_transmits # <<>>
  /\ poll.pc = "finish" /\ ~poll.should_continue => Sends
  /\ poll.pc = "idle" => Reads /\ Sends /\ Stays

\* A wake-up is for whoever waits there, and leaves the other wakers alone.
LEMMA Woken ==
  ASSUME NEW w, Wake(w)
  PROVE  /\ scheduled \/ w \in wakers => scheduled'
         /\ \A v : v # w /\ v \in wakers => v \in wakers'
  BY ZenonT(30) DEF Wake

\* Steps of others than the driver: what they add, they wake it for.
LEMMA OthersWake ==
  ASSUME SleepInv, HandleNext \/ StreamNext \/ Writable \/ UNCHANGED vars
                     \/ \E m \in ids \cup {"dgram"} : Arrives(m)
  PROVE  SleepInv'
PROOF
<1>1. ASSUME UNCHANGED <<poll, outgoing_transmits>>, Reads => Reads', Hears => Hears',
             Sends => Sends', Stays => Stays'
      PROVE  SleepInv'
  BY ZenonT(30), <1>1 DEF SleepInv
<1>2. ASSUME UNCHANGED <<poll, rx, send_rx, outgoing_transmits, has_refs, wakers, scheduled>>,
             \A id \in ids : streams[id] # NoStream => streams'[id] # NoStream
      PROVE  SleepInv'
  <2>1. Stays => Stays' BY ZenonT(30), <1>2 DEF Stays
  <2> QED BY ZenonT(30), <1>1, <1>2, <2>1 DEF Reads, Hears, Sends
<1>3. ASSUME NEW e, Push(e),
             UNCHANGED <<poll, rx, outgoing_transmits, has_refs, streams>>
      PROVE  SleepInv'
  <2>1. Wake("send_rx") BY ZenonT(30), <1>3 DEF Push
  <2>2. Reads => Reads' BY ZenonT(30), <1>3, <2>1, Woken DEF Reads
  <2>3. Hears => Hears' BY ZenonT(30), <2>1, Woken DEF Hears
  <2>4. Sends => Sends' BY ZenonT(30), <1>3, <2>1, <2>3, Woken DEF Sends
  <2>5. Stays => Stays' BY ZenonT(30), <1>3, <2>1, Woken DEF Stays
  <2> QED BY ZenonT(30), <1>1, <1>3, <2>2, <2>3, <2>4, <2>5
<1>4. ASSUME NEW w \in {"read", "write", "drive"}, Wake(w),
             UNCHANGED <<poll, send_rx, outgoing_transmits, streams>>,
             w # "read" => UNCHANGED rx, w # "drive" => UNCHANGED has_refs
      PROVE  SleepInv'
  <2>1. w # "send_rx" OBVIOUS
  <2>2. Reads => Reads' BY ZenonT(30), <1>4, Woken DEF Reads
  <2>3. Hears => Hears' BY ZenonT(30), <1>4, <2>1, Woken DEF Hears
  <2>4. Sends => Sends' BY ZenonT(30), <1>4, <2>3, Woken DEF Sends
  <2>5. Stays => Stays' BY ZenonT(30), <1>4, Woken DEF Stays
  <2> QED BY ZenonT(30), <1>1, <1>4, <2>2, <2>3, <2>4, <2>5
<1>5. ASSUME NEW kind, Submit(kind) PROVE SleepInv'
  BY ZenonT(30), <1>3, <1>5 DEF Submit, sendVars, recvVars
<1>6. CASE HandleNext
  <2>1. ASSUME NEW h \in Handles, Clone(h) \/ DropEnds(h) PROVE SleepInv'
    BY ZenonT(30), <1>2, <2>1 DEF Clone, DropEnds, recvVars, sendVars
  <2>2. ASSUME NEW h \in Handles, DropBegins(h) PROVE SleepInv'
    <3>1. UNCHANGED <<poll, send_rx, outgoing_transmits, streams, rx>>
      BY ZenonT(30), <2>2 DEF DropBegins, recvVars, sendVars
    <3>2. Wake("drive") \/ UNCHANGED <<has_refs, wakers, scheduled>>
      BY ZenonT(30), <2>2 DEF DropBegins
    <3> QED BY ZenonT(30), <1>2, <1>4, <3>1, <3>2
  <2>3. ASSUME NEW f \in Futures, PollFuture(f) PROVE SleepInv'
    BY ZenonT(30), <1>2, <2>3 DEF PollFuture, sendVars, appVars
  <2> QED BY ZenonT(30), <1>5, <1>6, <2>1, <2>2, <2>3 DEF HandleNext, Send
<1>7. CASE StreamNext
  <2>1. ASSUME NEW s \in Streams, Connect(s) PROVE SleepInv'
    <3>1. s # NoStream BY ZenonT(30), SocketAssumption
    <3>2. streams' = [streams EXCEPT ![LocalId[s]] = s] BY ZenonT(30), <2>1 DEF Connect
    <3>3. \A id \in ids : streams[id] # NoStream => streams'[id] # NoStream
      BY <3>1, <3>2
    <3> QED BY ZenonT(30), <1>2, <2>1, <3>3 DEF Connect, sendVars
  <2>2. ASSUME NEW s \in Streams, StreamFinishes(s) PROVE SleepInv'
    BY ZenonT(30), <1>3, <2>2 DEF StreamFinishes, recvVars, sendVars
  <2>3. ASSUME NEW s \in Streams, StreamFreed(s) PROVE SleepInv'
    BY ZenonT(30), <1>2, <2>3 DEF StreamFreed, recvVars, sendVars
  <2> QED BY ZenonT(30), <1>5, <1>7, <2>1, <2>2, <2>3 DEF StreamNext, StreamTransmit
<1>8. CASE Writable
  BY ZenonT(30), <1>4, <1>8 DEF Writable, recvVars, sendVars, appVars
<1>9. ASSUME NEW m, Arrives(m) PROVE SleepInv'
  BY ZenonT(30), <1>4, <1>9 DEF Arrives, sendVars, appVars
<1>10. CASE UNCHANGED vars
  BY ZenonT(30), <1>2, <1>10 DEF vars, recvVars, sendVars, appVars
<1> QED BY ZenonT(30), <1>6, <1>7, <1>8, <1>9, <1>10

\* The driver's steps, when poll_send takes the whole batch.
LEMMA DriverWakes ==
  ASSUME ~PartialSends, TypeInv, SleepInv, DriverNext
  PROVE  SleepInv'
PROOF
<1>0. /\ poll \in Poll /\ outgoing_transmits \in Seq(Event)
      /\ BATCH_SIZE \in Nat \ {0}
  BY ZenonT(30), SocketAssumption DEF TypeInv, PollType, SendType
<1>1. CASE PollStarts
  <2>1. poll'.pc = "recv" /\ ~poll'.send_rx_pending BY ZenonT(30), <1>1 DEF PollStarts
  <2> QED BY ZenonT(30), <2>1 DEF SleepInv
<1>2. CASE PollRecv
  <2>1. ~poll.send_rx_pending BY <1>2 DEF SleepInv, PollRecv
  <2>2. CASE /\ poll' = [poll EXCEPT !.pc = "transmit"]
             /\ rx = <<>> /\ wakers' = wakers \cup {"read"}
    <3>1. poll'.pc = "transmit" /\ ~poll'.send_rx_pending
      BY ZenonT(30), <1>0, <2>1, <2>2 DEF Poll
    <3>2. Reads' BY <1>2, <2>2 DEF PollRecv, recvVars, Reads
    <3> QED BY ZenonT(30), <3>1, <3>2 DEF SleepInv
  <2>3. CASE poll' = [poll EXCEPT !.pc = "transmit", !.should_continue = TRUE]
    <3>1. poll'.pc = "transmit" /\ ~poll'.send_rx_pending /\ poll'.should_continue
      BY ZenonT(30), <1>0, <2>1, <2>3 DEF Poll
    <3> QED BY ZenonT(30), <3>1 DEF SleepInv
  <2>4. ASSUME NEW i, NEW b, poll' = [poll EXCEPT !.iters = i, !.batch = b]
        PROVE  SleepInv'
    <3>1. poll'.pc = "recv" /\ ~poll'.send_rx_pending
      BY ZenonT(30), <1>0, <1>2, <2>1, <2>4 DEF Poll, PollRecv
    <3> QED BY ZenonT(30), <3>1 DEF SleepInv
  <2> QED BY ZenonT(30), <1>2, <2>2, <2>3, <2>4 DEF PollRecv
<1>3. CASE PollRecvFails
  <2>1. poll'.pc = "failed" BY <1>0, <1>3 DEF PollRecvFails, Returns, Poll
  <2> QED BY ZenonT(30), <2>1 DEF SleepInv
<1>4. CASE NextMessage
  <2>1. poll'.pc = "recv" /\ ~poll'.send_rx_pending
    BY <1>0, <1>4 DEF NextMessage, Poll, SleepInv
  <2> QED BY <2>1 DEF SleepInv
<1>5. CASE TakeEvent
  <2>1. poll' = poll /\ poll.pc = "transmit" /\ UNCHANGED <<rx, wakers, scheduled>>
    BY ZenonT(30), <1>5 DEF TakeEvent
  <2> QED BY ZenonT(30), <2>1 DEF SleepInv, Reads
<1>6. CASE BatchFilled
  <2>0. /\ poll.pc = "transmit" /\ ~poll.send_rx_pending
        /\ UNCHANGED <<rx, send_rx, outgoing_transmits, scheduled>>
    BY ZenonT(30), <1>6 DEF BatchFilled, SleepInv, recvVars, sendVars
  <2>1. CASE ~BatchOpen /\ poll' = [poll EXCEPT !.pc = "send"] /\ UNCHANGED wakers
    <3>1. /\ poll'.pc = "send" /\ ~poll'.send_rx_pending
          /\ poll'.should_continue = poll.should_continue
      BY ZenonT(30), <1>0, <2>0, <2>1 DEF Poll
    <3>2. outgoing_transmits # <<>> BY <1>0, <2>1 DEF BatchOpen
    <3>3. ~poll.should_continue => Reads'
      BY ZenonT(30), <2>0, <2>1 DEF SleepInv, Reads
    <3> QED BY ZenonT(30), <2>0, <3>1, <3>2, <3>3 DEF SleepInv
  <2>2. CASE /\ send_rx = <<>> /\ wakers' = wakers \cup {"send_rx"}
             /\ poll' = [poll EXCEPT !.pc = "send", !.send_rx_pending = TRUE]
    <3>1. /\ poll'.pc = "send" /\ poll'.send_rx_pending
          /\ poll'.should_continue = poll.should_continue
      BY ZenonT(30), <1>0, <2>0, <2>2 DEF Poll
    <3>2. Hears' BY <2>0, <2>2 DEF Hears
    <3>3. ~poll.should_continue => Reads'
      <4>1. ~poll.should_continue => Reads BY ZenonT(30), <2>0 DEF SleepInv
      <4>2. "read" \in wakers => "read" \in wakers' BY <2>2
      <4> QED BY ZenonT(30), <2>0, <4>1, <4>2 DEF Reads
    <3> QED BY ZenonT(30), <3>1, <3>2, <3>3 DEF SleepInv
  <2> QED BY ZenonT(30), <1>6, <2>1, <2>2 DEF BatchFilled
<1>7. CASE SendNothing
  <2>0. /\ poll.pc = "send" /\ UNCHANGED <<rx, send_rx, outgoing_transmits, scheduled>>
        /\ wakers' = IF outgoing_transmits = <<>> THEN wakers ELSE wakers \cup {"write"}
        /\ poll' = [poll EXCEPT !.pc = "finish"]
    BY ZenonT(30), <1>7 DEF SendNothing, recvVars, sendVars
  <2>1. poll'.pc = "finish" /\ poll'.should_continue = poll.should_continue
    BY ZenonT(30), <1>0, <2>0 DEF Poll
  <2>2. Reads => Reads'
    <3>1. "read" \in wakers => "read" \in wakers' BY <2>0
    <3> QED BY ZenonT(30), <2>0, <3>1 DEF Reads
  <2>3. Sends'
    <3>1. CASE outgoing_transmits = <<>>
      <4>1. Hears BY ZenonT(30), <2>0, <3>1 DEF SleepInv
      <4>2. wakers' = wakers BY <2>0, <3>1
      <4> QED BY ZenonT(30), <2>0, <3>1, <4>1, <4>2 DEF Sends, Hears
    <3>2. CASE outgoing_transmits # <<>>
      <4>1. "write" \in wakers' BY <2>0, <3>2
      <4> QED BY ZenonT(30), <2>0, <3>2, <4>1 DEF Sends
    <3> QED BY <3>1, <3>2
  <2> QED BY ZenonT(30), <2>0, <2>1, <2>2, <2>3 DEF SleepInv
<1>8. CASE PollSend
  <2>0. /\ poll.pc = "send" /\ UNCHANGED <<rx, send_rx, wakers, scheduled>>
        /\ poll' = [poll EXCEPT !.pc = "finish",
                                !.should_continue = @ \/ ~poll.send_rx_pending]
    BY ZenonT(30), <1>8 DEF PollSend, SendMore, recvVars
  <2>1. outgoing_transmits' = <<>>
    <3>1. outgoing_transmits' = Drain(outgoing_transmits, Len(outgoing_transmits))
      BY ZenonT(30), <1>8 DEF PollSend
    <3>2. Len(outgoing_transmits) \in 0 .. Len(outgoing_transmits) BY <1>0
    <3>3. /\ outgoing_transmits' \in Seq(Event)
          /\ Len(outgoing_transmits') = Len(outgoing_transmits) - Len(outgoing_transmits)
      BY ZenonT(30), <1>0, <3>1, <3>2, DrainFacts
    <3>4. Len(outgoing_transmits') = 0 BY <1>0, <3>3
    <3> QED BY <3>3, <3>4
  <2>2. /\ poll'.pc = "finish"
        /\ ~poll'.should_continue => ~poll.should_continue /\ poll.send_rx_pending
    BY ZenonT(30), <1>0, <2>0 DEF Poll
  <2>3. ~poll.should_continue => Reads'
    BY ZenonT(30), <2>0 DEF SleepInv, Reads
  <2>4. poll.send_rx_pending => Sends'
    BY ZenonT(30), <2>0, <2>1 DEF SleepInv, Sends, Hears
  <2> QED BY ZenonT(30), <2>2, <2>3, <2>4 DEF SleepInv
<1>9. CASE PollEnds
  <2>0. poll.pc = "finish"
        /\ UNCHANGED <<rx, send_rx, outgoing_transmits, streams>>
    BY ZenonT(30), <1>9 DEF PollEnds, recvVars, sendVars
  <2>1. CASE Returns("done")
    <3>1. poll'.pc = "done" BY <1>0, <2>1 DEF Returns, Poll
    <3> QED BY ZenonT(30), <3>1 DEF SleepInv
  <2>2. CASE /\ ~Idle /\ poll' = [poll EXCEPT !.pc = "idle"]
             /\ scheduled' = (scheduled \/ poll.should_continue)
             /\ wakers' = IF poll.should_continue THEN wakers ELSE wakers \cup {"drive"}
             /\ UNCHANGED has_refs
    <3>1. poll'.pc = "idle" BY <1>0, <2>2 DEF Poll
    <3>2. CASE poll.should_continue
      <4>1. scheduled' BY ZenonT(30), <2>2, <3>2
      <4> QED BY ZenonT(30), <3>1, <4>1 DEF SleepInv, Reads, Sends, Hears, Stays
    <3>3. CASE ~poll.should_continue
      <4>1. /\ "drive" \in wakers' /\ \A w : w \in wakers => w \in wakers'
            /\ scheduled => scheduled'
        BY ZenonT(30), <2>2, <3>3
      <4>2. Reads /\ Sends BY ZenonT(30), <2>0, <3>3 DEF SleepInv
      <4>3. Reads' BY ZenonT(30), <2>0, <4>1, <4>2 DEF Reads
      <4>4. Sends' BY ZenonT(30), <2>0, <4>1, <4>2 DEF Sends, Hears
      <4>5. Stays' BY ZenonT(30), <2>0, <2>2, <3>3, <4>1 DEF Stays, Idle
      <4> QED BY ZenonT(30), <3>1, <4>3, <4>4, <4>5 DEF SleepInv
    <3> QED BY ZenonT(30), <3>2, <3>3
  <2> QED BY ZenonT(30), <1>9, <2>1, <2>2 DEF PollEnds
<1> QED
  BY ZenonT(30), <1>1, <1>2, <1>3, <1>4, <1>5, <1>6, <1>7, <1>8, <1>9
     DEF DriverNext, ProcessPacket, OnRecvDgram

\* No wake-up of the socket's driver is lost, as long as sendmmsg takes whole
\* batches: whatever arrives, is submitted or dropped while poll_recv and
\* poll_transmit run or the driver sleeps, it sleeps only on nothing to do.
THEOREM SocketIsWoken ==
  ASSUME ~PartialSends
  PROVE  Spec => []SleepingSocket
PROOF
<1>1. Init => SleepInv
  <2>1. Init => poll.pc = "idle" /\ scheduled BY DEF Init
  <2> QED BY ZenonT(30), <2>1 DEF SleepInv, Reads, Sends, Hears, Stays
<1>2. TypeInv /\ SleepInv /\ [Next]_vars => SleepInv'
  BY ZenonT(30), OthersWake, DriverWakes DEF Next
<1>3. SleepInv => SleepingSocket
  BY ZenonT(30) DEF SleepInv, SleepingSocket, Asleep, Reads, Sends, Hears, Stays
<1> QED BY <1>1, <1>2, <1>3, TypeInvariant, PTL DEF Spec

-----------------------------------------------------------------------------
(* The pending call of recv() *)

\* A call that waits has its waker in recv_waker and has left no datagram.
ReceiveInv ==
  \A f \in Futures :
    /\ Waiting(f) => recv_waker = f /\ recv_dgrams = <<>>
    /\ handle[f] = "unused" => future[f] = "new"

\* A handle comes to life only from being unused.
LEMMA HandleMoves ==
  ASSUME TypeInv, [Next]_vars, NEW h \in Handles
  PROVE  \/ handle'[h] = handle[h]
         \/ handle[h] = "unused" \/ handle'[h] \in {"dropping", "dropped"}
PROOF
<1>0. handle \in [Handles -> {"unused", "live", "dropping", "dropped"}]
  BY ZenonT(30) DEF TypeInv, AppType
<1>1. ASSUME NEW k \in Handles, Clone(k) \/ DropBegins(k) \/ DropEnds(k)
      PROVE  \/ handle'[h] = handle[h]
             \/ handle[h] = "unused" \/ handle'[h] \in {"dropping", "dropped"}
  BY ZenonT(30), <1>0, <1>1 DEF Clone, DropBegins, DropEnds
<1>2. CASE UNCHANGED handle BY ZenonT(30), <1>2
<1>3. CASE HandleNext
  BY ZenonT(30), <1>1, <1>2, <1>3 DEF HandleNext, Send, Submit, PollFuture, appVars
<1>4. CASE StreamNext
  BY ZenonT(30), <1>2, <1>4
     DEF StreamNext, Connect, StreamTransmit, Submit, StreamFinishes, StreamFreed
<1>5. CASE DriverNext
  BY ZenonT(30), <1>2, <1>5
     DEF DriverNext, PollStarts, PollRecv, PollRecvFails, ProcessPacket, OnRecvDgram,
         NextMessage, TakeEvent, BatchFilled, SendNothing, PollSend, PollEnds, appVars
<1>6. CASE Writable \/ \E m \in ids \cup {"dgram"} : Arrives(m)
  BY ZenonT(30), <1>2, <1>6 DEF Writable, Arrives, appVars
<1>7. CASE UNCHANGED vars BY ZenonT(30), <1>2, <1>7 DEF vars, appVars
<1> QED BY ZenonT(30), <1>3, <1>4, <1>5, <1>6, <1>7 DEF Next

\* Every step keeps it: recv_waker is taken only to wake its call, and given to
\* another only when none waits.
LEMMA ReceiveStep ==
  ASSUME TypeInv, ReceiveInv, [Next]_vars, OneWaits'
  PROVE  ReceiveInv'
PROOF
<1>0. /\ future \in [Futures -> {"new", "asleep", "woken", "ready"}]
      /\ Futures \subseteq Handles
  BY ZenonT(30), SocketAssumption DEF TypeInv, RecvType
<1>1. ASSUME UNCHANGED <<future, recv_waker, recv_dgrams>> PROVE ReceiveInv'
  <2> SUFFICES ASSUME NEW g \in Futures
               PROVE  /\ Waiting(g)' => recv_waker' = g /\ recv_dgrams' = <<>>
                      /\ handle'[g] = "unused" => future'[g] = "new"
    BY ZenonT(30) DEF ReceiveInv
  <2>1. \/ handle'[g] = handle[g]
        \/ handle[g] = "unused" \/ handle'[g] \in {"dropping", "dropped"}
    BY ZenonT(30), <1>0, HandleMoves
  <2> QED BY ZenonT(30), <1>1, <2>1 DEF ReceiveInv, Waiting
<1>2. ASSUME NEW f \in Futures, PollFuture(f) PROVE ReceiveInv'
  <2>1. handle' = handle /\ handle[f] = "live"
    BY ZenonT(30), <1>2 DEF PollFuture, appVars
  <2>2. ASSUME NEW g \in Futures, handle'[g] = "unused" PROVE future'[g] = "new"
    BY ZenonT(30), <1>0, <1>2, <2>1, <2>2 DEF PollFuture, ReceiveInv
  <2>3. ASSUME NEW g \in Futures, Waiting(g)'
        PROVE  recv_waker' = g /\ recv_dgrams' = <<>>
    <3>1. CASE recv_dgrams = <<>>
      <4>1. recv_waker' = f /\ recv_dgrams' = <<>> /\ future'[f] = "asleep"
        BY ZenonT(30), <1>0, <1>2, <3>1 DEF PollFuture
      <4>2. g = f BY ZenonT(30), <2>1, <2>3, <4>1 DEF OneWaits, Waiting
      <4> QED BY ZenonT(30), <4>1, <4>2
    <3>2. CASE recv_dgrams # <<>>
      <4>1. future'[g] = "asleep" => future[g] = "asleep"
        BY ZenonT(30), <1>0, <1>2, <3>2 DEF PollFuture
      <4> QED BY ZenonT(30), <2>1, <2>3, <3>2, <4>1 DEF Waiting, ReceiveInv
    <3> QED BY ZenonT(30), <3>1, <3>2
  <2> QED BY ZenonT(30), <2>2, <2>3 DEF ReceiveInv
<1>3. CASE OnRecvDgram
  <2>1. CASE UNCHANGED <<recv_dgrams, recv_waker, future>> BY <1>1, <2>1
  <2>2. CASE future' = WakeReceiver
    <3>1. handle' = handle BY ZenonT(30), <1>3 DEF OnRecvDgram, NextMessage, appVars
    <3>2. ASSUME NEW g \in Futures PROVE ~ Waiting(g)'
      BY ZenonT(30), <1>0, <2>2, <3>1 DEF WakeReceiver, ReceiveInv, Waiting
    <3>3. ASSUME NEW g \in Futures, handle'[g] = "unused" PROVE future'[g] = "new"
      BY ZenonT(30), <1>0, <2>2, <3>1, <3>3 DEF WakeReceiver, ReceiveInv
    <3> QED BY ZenonT(30), <3>2, <3>3 DEF ReceiveInv
  <2> QED BY ZenonT(30), <1>3, <2>1, <2>2 DEF OnRecvDgram
<1> QED
  BY ZenonT(30), <1>1, <1>2, <1>3, RecvFrame
     DEF Connect, Arrives, ProcessPacket, TakeEvent, recvVars

\* A pending recv() is woken by the datagram that comes for it: on_recv_dgram
\* and RecvFuture::poll, in any order, for any number of calls of which no two
\* wait at the same time.
THEOREM ReceiverIsWoken == Spec => ReceiverWoken
PROOF
<1>1. Init => ReceiveInv BY ZenonT(30) DEF Init, ReceiveInv, Waiting
<1>2. TypeInv /\ ReceiveInv /\ OneWaits' /\ [Next]_vars => ReceiveInv'
  BY ZenonT(30), ReceiveStep
<1>3. ReceiveInv => WaitsForNothing BY ZenonT(30) DEF ReceiveInv, WaitsForNothing
<1> QED BY <1>1, <1>2, <1>3, TypeInvariant, PTL DEF Spec, ReceiverWoken

-----------------------------------------------------------------------------
(* The order of what is sent *)

\* Submissions move only when one is pushed, taken from send_rx or sent.
LEMMA OrderFrame ==
  ASSUME [Next]_vars
  PROVE  \/ \E kind \in {"Transmit", "TransmitDgram"} : Submit(kind)
         \/ \E s \in Streams : StreamFinishes(s)
         \/ TakeEvent \/ PollSend
         \/ UNCHANGED <<sent, outgoing_transmits, send_rx, submitted>>
PROOF
<1>1. CASE HandleNext
  BY ZenonT(30), <1>1 DEF HandleNext, Send, Clone, DropBegins, DropEnds, PollFuture, sendVars, appVars
<1>2. CASE StreamNext
  BY ZenonT(30), <1>2 DEF StreamNext, Connect, StreamTransmit, StreamFreed, sendVars, appVars
<1>3. CASE DriverNext
  BY <1>3 DEF DriverNext, PollStarts, PollRecv, PollRecvFails, ProcessPacket, appVars,
              OnRecvDgram, NextMessage, BatchFilled, SendNothing, PollEnds, sendVars
<1>4. CASE Writable BY ZenonT(30), <1>4 DEF Writable, sendVars, appVars
<1>5. ASSUME NEW m, Arrives(m)
      PROVE  UNCHANGED <<sent, outgoing_transmits, send_rx, submitted>>
  BY ZenonT(30), <1>5 DEF Arrives, sendVars, appVars
<1>6. CASE UNCHANGED vars BY ZenonT(30), <1>6 DEF vars, sendVars, appVars
<1> QED BY ZenonT(30), <1>1, <1>2, <1>3, <1>4, <1>5, <1>6 DEF Next

\* What two queues hold one after the other.
LEMMA ConcatFacts ==
  ASSUME NEW S, NEW a \in Seq(S), NEW b \in Seq(S)
  PROVE  /\ a \o b \in Seq(S) /\ Len(a \o b) = Len(a) + Len(b)
         /\ \A i \in 1 .. Len(a) : (a \o b)[i] = a[i]
         /\ \A i \in 1 .. Len(b) : (a \o b)[Len(a) + i] = b[i]
  OBVIOUS

\* Pushing an event extends what follows by one submission, or by none when it
\* tells of the end of a stream.
LEMMA PushFollows ==
  ASSUME NEW S, NEW q \in Seq(S), NEW m \in Nat, NEW n \in Nat, Follows(q, m, n), m <= n,
         NEW e \in S
  PROVE  /\ e.kind = "StreamDropped" => Follows(Append(q, e), m, n)
         /\ e.kind # "StreamDropped" /\ e.n = n + 1 => Follows(Append(q, e), m, n + 1)
PROOF
<1> DEFINE p == Append(q, e)
           T(s) == {i \in 1 .. Len(s) : s[i].kind # "StreamDropped"}
<1>1. Len(q) \in Nat /\ Len(p) = Len(q) + 1 /\ p[Len(q) + 1] = e /\ \A i \in 1 .. Len(q) : p[i] = q[i]
  OBVIOUS
<1>2. /\ {q[i].n : i \in T(q)} = (m + 1) .. n
      /\ \A i, j \in T(q) : i < j => q[i].n < q[j].n
  BY DEF Follows
<1> HIDE DEF p
<1>3. \A i \in T(q) : q[i].n \in (m + 1) .. n /\ p[i] = q[i] /\ i < Len(q) + 1 /\ i \in Int
  BY <1>1, <1>2
<1>4. CASE e.kind = "StreamDropped"
  <2>1. T(p) = T(q) BY SMTT(30), <1>1, <1>4
  <2> HIDE DEF T
  <2>2. {p[i].n : i \in T(p)} = {q[i].n : i \in T(q)} BY ZenonT(30), <1>3, <2>1
  <2>3. \A i, j \in T(p) : i < j => p[i].n < p[j].n BY ZenonT(30), <1>2, <1>3, <2>1
  <2> QED BY ZenonT(30), <1>2, <1>4, <2>2, <2>3 DEF Follows, T, p
<1>5. CASE e.kind # "StreamDropped" /\ e.n = n + 1
  <2>1. T(p) = T(q) \cup {Len(q) + 1} BY SMTT(30), <1>1, <1>5
  <2> HIDE DEF T
  <2>2. {p[i].n : i \in T(p)} = {q[i].n : i \in T(q)} \cup {n + 1} BY ZenonT(30), <1>1, <1>3, <1>5, <2>1
  <2>3. ((m + 1) .. n) \cup {n + 1} = (m + 1) .. (n + 1) OBVIOUS
  <2>4. ASSUME NEW i \in T(p), NEW j \in T(p), i < j PROVE p[i].n < p[j].n
    <3>1. CASE j \in T(q)
      <4>1. i # Len(q) + 1 BY <1>1, <1>3, <2>4, <3>1
      <4>2. i \in T(q) BY ZenonT(30), <2>1, <4>1
      <4> QED BY ZenonT(30), <1>2, <1>3, <2>4, <3>1, <4>2
    <3>2. CASE j = Len(q) + 1
      <4>1. i # Len(q) + 1 BY <1>1, <2>4, <3>2
      <4>2. i \in T(q) BY <2>1, <4>1
      <4>3. p[j].n = n + 1 BY ZenonT(30), <1>1, <1>5, <3>2
      <4>4. p[i].n \in (m + 1) .. n BY ZenonT(30), <1>3, <4>2
      <4> QED BY <4>3, <4>4
    <3> QED BY ZenonT(30), <2>1, <3>1, <3>2
  <2> QED BY ZenonT(30), <1>2, <1>5, <2>2, <2>3, <2>4 DEF Follows, T, p
<1> QED BY ZenonT(30), <1>4, <1>5 DEF p

\* The first event of what follows is the next submission, and the others follow
\* on it.
LEMMA TakeFollows ==
  ASSUME NEW S, NEW q \in Seq(S), q # <<>>, NEW m \in Nat, NEW n \in Nat, Follows(q, m, n)
  PROVE  /\ Head(q).kind = "StreamDropped" => Follows(Tail(q), m, n)
         /\ Head(q).kind # "StreamDropped" =>
              Head(q).n = m + 1 /\ m + 1 <= n /\ Follows(Tail(q), m + 1, n)
PROOF
<1> DEFINE p == Tail(q)
           T(s) == {i \in 1 .. Len(s) : s[i].kind # "StreamDropped"}
<1>1. /\ Len(q) \in Nat \ {0} /\ Head(q) = q[1] /\ Len(p) = Len(q) - 1
      /\ \A i \in 1 .. Len(q) - 1 : p[i] = q[i + 1]
  OBVIOUS
<1>2. /\ {q[i].n : i \in T(q)} = (m + 1) .. n
      /\ \A i, j \in T(q) : i < j => q[i].n < q[j].n
  BY ZenonT(30) DEF Follows
<1> HIDE DEF p
<1>3. \A i \in T(q) : q[i].n \in (m + 1) .. n BY <1>2
<1>4. /\ \A i \in T(p) : i + 1 \in T(q) /\ p[i] = q[i + 1] /\ i + 1 > 1 /\ i \in Nat
      /\ \A i \in T(q) : i = 1 \/ (i - 1 \in T(p) /\ p[i - 1] = q[i] /\ i > 1 /\ i \in Nat)
  <2>1. ASSUME NEW i \in T(p) PROVE i + 1 \in T(q) /\ p[i] = q[i + 1] /\ i + 1 > 1 /\ i \in Nat
    BY <1>1
  <2>2. ASSUME NEW i \in T(q), i # 1 PROVE i - 1 \in T(p) /\ p[i - 1] = q[i] /\ i > 1 /\ i \in Nat
    <3>1. i - 1 \in 1 .. Len(q) - 1 /\ (i - 1) + 1 = i BY <1>1, <2>2
    <3> QED BY <1>1, <3>1
  <2> QED BY ZenonT(30), <2>1, <2>2
<1>5. 1 \in T(q) <=> Head(q).kind # "StreamDropped" BY <1>1
<1> HIDE DEF T
<1>6. ASSUME NEW i \in T(p), NEW j \in T(p), i < j PROVE p[i].n < p[j].n
  <2>1. i + 1 < j + 1 BY <1>4, <1>6
  <2> QED BY ZenonT(30), <1>2, <1>4, <2>1
<1>7. CASE 1 \notin T(q)
  <2>1. {p[i].n : i \in T(p)} = {q[i].n : i \in T(q)}
    <3>1. ASSUME NEW i \in T(p) PROVE \E j \in T(q) : q[j].n = p[i].n BY ZenonT(30), <1>4
    <3>2. ASSUME NEW j \in T(q) PROVE \E i \in T(p) : q[j].n = p[i].n BY ZenonT(30), <1>4, <1>7
    <3> QED BY <3>1, <3>2
  <2> QED BY ZenonT(30), <1>2, <1>5, <1>6, <1>7, <2>1 DEF Follows, T, p
<1>8. CASE 1 \in T(q)
  <2>1. q[1].n \in (m + 1) .. n BY ZenonT(30), <1>3, <1>8
  <2>2. m + 1 \in (m + 1) .. n BY <2>1
  <2>3. PICK i \in T(q) : q[i].n = m + 1 BY ZenonT(30), <1>2, <2>2
  <2>4. q[1].n = m + 1
    <3>1. CASE i = 1 BY ZenonT(30), <2>3, <3>1
    <3>2. CASE i # 1
      <4>1. 1 < i BY ZenonT(30), <1>4, <3>2
      <4>2. q[1].n < q[i].n BY ZenonT(30), <1>2, <1>8, <4>1
      <4> QED BY <2>1, <2>3, <4>2
    <3> QED BY ZenonT(30), <3>1, <3>2
  <2>5. ASSUME NEW x \in T(p) PROVE p[x].n \in (m + 2) .. n
    <3>1. q[1].n < q[x + 1].n /\ q[x + 1].n \in (m + 1) .. n BY ZenonT(30), <1>2, <1>3, <1>4, <1>8
    <3> QED BY SMTT(30), <1>4, <2>4, <3>1
  <2>6. ASSUME NEW y \in (m + 2) .. n PROVE \E x \in T(p) : p[x].n = y
    <3>1. y \in (m + 1) .. n /\ y # m + 1 OBVIOUS
    <3>2. PICK j \in T(q) : q[j].n = y BY ZenonT(30), <1>2, <3>1
    <3>3. j # 1 BY ZenonT(30), <2>4, <3>1, <3>2
    <3> QED BY ZenonT(30), <1>4, <3>2, <3>3
  <2>7. {p[x].n : x \in T(p)} = (m + 2) .. n BY ZenonT(30), <2>5, <2>6
  <2>8. (m + 1) + 1 = m + 2 /\ m + 1 <= n BY <2>1
  <2>9. Follows(p, m + 1, n) BY ZenonT(30), <1>6, <2>7, <2>8 DEF Follows, T
  <2> QED BY ZenonT(30), <1>1, <1>5, <1>8, <2>4, <2>8, <2>9 DEF p
<1> QED BY ZenonT(30), <1>7, <1>8

Taken == sent \o outgoing_transmits
OrderInv == InOrder /\ Len(Taken) <= submitted

\* Every step keeps the order of the submissions.
LEMMA OrderStep ==
  ASSUME TypeInv, OrderInv, [Next]_vars
  PROVE  OrderInv'
PROOF
<1> DEFINE out == outgoing_transmits
           m == Len(Taken)
<1>1. /\ sent \in Seq(Event) /\ out \in Seq(Event) /\ send_rx \in Seq(Event) /\ submitted \in Nat
  BY ZenonT(30) DEF TypeInv, SendType, ChannelType, AppType
<1>2. /\ Taken \in Seq(Event) /\ m \in Nat /\ m = Len(sent) + Len(out)
      /\ \A i \in 1 .. Len(sent) : Taken[i] = sent[i]
      /\ \A i \in 1 .. Len(out) : Taken[Len(sent) + i] = out[i]
  BY <1>1 DEF Taken
<1>3. /\ \A i \in 1 .. m : Taken[i].n = i
      /\ Follows(send_rx, m, submitted) /\ m <= submitted
  BY ZenonT(30) DEF OrderInv, InOrder, Taken
<1>4. ASSUME UNCHANGED <<sent, outgoing_transmits>>,
             Follows(send_rx', m, submitted'), m <= submitted'
      PROVE  OrderInv'
  <2>1. Taken' = Taken BY <1>4 DEF Taken
  <2> QED BY ZenonT(30), <1>3, <1>4, <2>1 DEF OrderInv, InOrder, Taken
<1>5. ASSUME NEW kind \in {"Transmit", "TransmitDgram"}, Submit(kind) PROVE OrderInv'
  <2> DEFINE e == [kind |-> kind, n |-> submitted + 1]
  <2>1. /\ send_rx' = Append(send_rx, e) /\ submitted' = submitted + 1
        /\ UNCHANGED <<sent, outgoing_transmits>>
    BY ZenonT(30), <1>5 DEF Submit, Push, sendVars
  <2>2. e \in Event /\ e.kind # "StreamDropped" /\ e.n = submitted + 1 BY <1>1 DEF Event
  <2> HIDE DEF e
  <2>3. Follows(Append(send_rx, e), m, submitted + 1)
    BY ZenonT(30), <1>1, <1>2, <1>3, <2>2, PushFollows
  <2>4. m <= submitted + 1 BY <1>1, <1>2, <1>3
  <2> QED BY ZenonT(30), <1>4, <2>1, <2>3, <2>4
<1>6. ASSUME NEW s \in Streams, StreamFinishes(s) PROVE OrderInv'
  <2> DEFINE e == [kind |-> "StreamDropped", id |-> LocalId[s]]
  <2>1. /\ send_rx' = Append(send_rx, e) /\ submitted' = submitted
        /\ UNCHANGED <<sent, outgoing_transmits>>
    BY ZenonT(30), <1>6 DEF StreamFinishes, Push, sendVars
  <2>2. e.kind = "StreamDropped" BY ZenonT(30)
  <2>3. e \in Event
    <3>1. LocalId[s] \in ids BY ZenonT(30), SocketAssumption DEF ids, Range
    <3> QED BY ZenonT(30), <3>1 DEF Event
  <2> HIDE DEF e
  <2>4. Follows(Append(send_rx, e), m, submitted)
    BY ZenonT(30), <1>1, <1>2, <1>3, <2>2, <2>3, PushFollows
  <2> QED BY ZenonT(30), <1>3, <1>4, <2>1, <2>4
<1>7. CASE TakeEvent
  <2> DEFINE e == Head(send_rx)
  <2>1. /\ send_rx # <<>> /\ send_rx' = Tail(send_rx) /\ UNCHANGED <<sent, submitted>>
        /\ \/ e.kind = "StreamDropped" /\ UNCHANGED outgoing_transmits
           \/ e.kind # "StreamDropped" /\ out' = Append(out, e)
    BY ZenonT(30), <1>7 DEF TakeEvent, appVars
  <2>2. e \in Event BY <1>1, <2>1
  <2>3. /\ e.kind = "StreamDropped" => Follows(Tail(send_rx), m, submitted)
        /\ e.kind # "StreamDropped" =>
             e.n = m + 1 /\ m + 1 <= submitted /\ Follows(Tail(send_rx), m + 1, submitted)
    BY ZenonT(30), <1>1, <1>2, <1>3, <2>1, TakeFollows
  <2> HIDE DEF e
  <2>4. CASE e.kind = "StreamDropped" BY ZenonT(30), <1>3, <1>4, <2>1, <2>3, <2>4
  <2>5. CASE e.kind # "StreamDropped"
    <3>1. out' = Append(out, e) BY ZenonT(30), <2>1, <2>5
    <3>2. Taken' = Append(Taken, e)
      <4>1. Taken' = sent \o Append(out, e) BY ZenonT(30), <2>1, <3>1 DEF Taken
      <4> QED BY SMTT(30), <1>1, <2>2, <4>1 DEF Taken
    <3>3. Len(Taken') = m + 1 /\ \A i \in 1 .. m + 1 : Taken'[i] = IF i = m + 1 THEN e ELSE Taken[i]
      BY <1>2, <2>2, <3>2
    <3>4. e.n = m + 1 /\ m + 1 <= submitted /\ Follows(Tail(send_rx), m + 1, submitted)
      BY ZenonT(30), <2>3, <2>5
    <3>5. \A i \in 1 .. m + 1 : Taken'[i].n = i BY <1>2, <1>3, <3>3, <3>4
    <3> QED BY ZenonT(30), <2>1, <3>3, <3>4, <3>5 DEF OrderInv, InOrder, Taken
  <2> QED BY <2>4, <2>5
<1>8. CASE PollSend
  <2>1. UNCHANGED <<send_rx, submitted>> BY <1>8 DEF PollSend, appVars
  <2>2. PICK n \in 1 .. Len(out) : sent' = sent \o SubSeq(out, 1, n) /\ out' = Drain(out, n)
    BY ZenonT(30), <1>8 DEF PollSend
  <2>3. /\ out' \in Seq(Event) /\ Len(out') = Len(out) - n
        /\ \A i \in 1 .. Len(out) - n : out'[i] = out[i + n]
        /\ SubSeq(out, 1, n) \in Seq(Event) /\ Len(SubSeq(out, 1, n)) = n
        /\ \A i \in 1 .. n : SubSeq(out, 1, n)[i] = out[i]
    <3>1. n \in 0 .. Len(out) BY <1>1
    <3> QED BY ZenonT(30), <1>1, <2>2, <3>1, DrainFacts
  <2> DEFINE front == SubSeq(out, 1, n)
             w == Len(sent)
  <2> HIDE DEF front
  <2>4. /\ sent' \in Seq(Event) /\ Len(sent') = w + n
        /\ \A i \in 1 .. w : sent'[i] = sent[i]
        /\ \A i \in 1 .. n : sent'[w + i] = front[i]
    <3>1. sent' = sent \o front /\ front \in Seq(Event) /\ Len(front) = n BY ZenonT(30), <2>2, <2>3 DEF front
    <3>2. /\ sent \o front \in Seq(Event) /\ Len(sent \o front) = Len(sent) + Len(front)
          /\ \A i \in 1 .. Len(sent) : (sent \o front)[i] = sent[i]
          /\ \A i \in 1 .. Len(front) : (sent \o front)[Len(sent) + i] = front[i]
      <4>1. sent \in Seq(Event) /\ front \in Seq(Event) BY ZenonT(30), <1>1, <3>1
      <4> QED BY <4>1, ConcatFacts
    <3> QED BY ZenonT(30), <3>1, <3>2
  <2>5. /\ Taken' \in Seq(Event) /\ Len(Taken') = m
        /\ \A i \in 1 .. Len(sent') : Taken'[i] = sent'[i]
        /\ \A i \in 1 .. Len(out') : Taken'[Len(sent') + i] = out'[i]
    <3>1. /\ sent' \o out' \in Seq(Event)
          /\ Len(sent' \o out') = Len(sent') + Len(out')
          /\ \A i \in 1 .. Len(sent') : (sent' \o out')[i] = sent'[i]
          /\ \A i \in 1 .. Len(out') : (sent' \o out')[Len(sent') + i] = out'[i]
      <4>1. sent' \in Seq(Event) /\ out' \in Seq(Event) BY ZenonT(30), <2>3, <2>4
      <4> QED BY <4>1, ConcatFacts
    <3>2. Len(sent') + Len(out') = m BY <1>1, <1>2, <2>3, <2>4
    <3>3. Taken' = sent' \o out' BY DEF Taken
    <3> QED BY ZenonT(30), <3>1, <3>2, <3>3
  <2>6. ASSUME NEW i \in 1 .. m PROVE Taken'[i] = Taken[i]
    <3>1. CASE i <= w
      <4>1. i \in 1 .. w /\ i \in 1 .. Len(sent') BY SMTT(30), <1>1, <1>2, <2>4, <3>1
      <4> QED BY ZenonT(30), <1>2, <2>4, <2>5, <4>1
    <3>2. CASE w < i /\ i <= w + n
      <4> DEFINE x == i - w
      <4>1. x \in 1 .. n /\ x \in 1 .. Len(out) /\ i = w + x /\ i \in 1 .. Len(sent')
        BY <1>1, <1>2, <2>4, <3>2
      <4> HIDE DEF x
      <4>2. Taken'[i] = front[x] /\ Taken[i] = out[x] BY ZenonT(30), <1>2, <2>4, <2>5, <4>1
      <4> QED BY ZenonT(30), <2>3, <4>1, <4>2 DEF front
    <3>3. CASE w + n < i
      <4> DEFINE x == i - (w + n)
      <4>0. Len(sent') = w + n /\ w \in Nat /\ Len(out) \in Nat /\ m = w + Len(out)
        BY <1>1, <1>2, <2>4
      <4>1. x \in 1 .. Len(out) - n /\ x + n \in 1 .. Len(out) /\ i = Len(sent') + x /\ i = w + (x + n)
        BY <3>3, <4>0
      <4> HIDE DEF x
      <4>2. Taken'[i] = out'[x] /\ Taken[i] = out[x + n] BY ZenonT(30), <1>2, <2>3, <2>5, <4>1
      <4> QED BY ZenonT(30), <2>3, <4>1, <4>2
    <3> QED BY <1>1, <3>1, <3>2, <3>3
  <2>7. \A i \in 1 .. m : Taken'[i].n = i BY ZenonT(30), <1>3, <2>6
  <2> QED BY ZenonT(30), <1>3, <2>1, <2>5, <2>7 DEF OrderInv, InOrder, Taken
<1>9. CASE UNCHANGED <<sent, outgoing_transmits, send_rx, submitted>>
  BY ZenonT(30), <1>3, <1>4, <1>9
<1> QED BY ZenonT(30), <1>5, <1>6, <1>7, <1>8, <1>9, OrderFrame

\* Transmits and datagrams of any number of streams and handles leave once and
\* in the order of submission, however poll_send splits the batches.
THEOREM SentOnceInOrder == Spec => []InOrder
PROOF
<1>1. Init => OrderInv
  <2> SUFFICES ASSUME Init PROVE OrderInv OBVIOUS
  <2>1. sent = <<>> /\ outgoing_transmits = <<>> /\ send_rx = <<>> /\ submitted = 0 BY ZenonT(30) DEF Init
  <2>2. Len(Taken) = 0 BY <2>1 DEF Taken
  <2>3. Follows(send_rx, 0, 0)
    <3>1. {i \in 1 .. Len(send_rx) : send_rx[i].kind # "StreamDropped"} = {} BY <2>1
    <3>2. (0 + 1) .. 0 = {} OBVIOUS
    <3> QED BY ZenonT(30), <3>1, <3>2 DEF Follows
  <2> QED BY <2>1, <2>2, <2>3 DEF OrderInv, InOrder, Taken
<1>2. TypeInv /\ OrderInv /\ [Next]_vars => OrderInv' BY OrderStep
<1>3. OrderInv => InOrder BY DEF OrderInv
<1> QED BY <1>1, <1>2, <1>3, TypeInvariant, PTL DEF Spec

=============================================================================
