----------------------------- MODULE UdxSocket -----------------------------
(***************************************************************************)
(* A udx socket: struct UdxSocketInner of src/socket.rs, the task that     *)
(* drives it (SocketDriver) and those that share it: the clones of the     *)
(* handle UdxSocket, the pending calls of recv(), which hold a clone each, *)
(* and the streams, which hold the sending end of send_rx and the          *)
(* receiving end of the channel the socket keeps in streams.               *)
(*                                                                         *)
(* The driver's poll holds the lock of the socket from start to end; what  *)
(* does not need the lock (the streams' sends, the network, the reference  *)
(* count) moves between its steps.                                         *)
(*                                                                         *)
(* Abstractions.  What is sent is a number, counted up by the senders; a   *)
(* Transmit event stands for a packet set with one shared packet.  What is *)
(* received is the stream id in its header, or "dgram" when the header     *)
(* does not decode.  A waker the runtime or a channel holds for the driver *)
(* is a member of wakers.                                                  *)
(***************************************************************************)
EXTENDS Integers, Sequences, FiniteSets, Functions

CONSTANTS
  BATCH_SIZE,           \* messages per sendmmsg and recvmmsg, 32
  MAX_LOOP,             \* 60
  RECV_QUEUE_MAX_LEN,   \* 1024
  Handles,              \* the clones of the handle, pending recv() included
  First,                \* the handle bind() returns
  Futures,              \* the handles that are a RecvFuture
  Streams,              \* the streams connect() makes, in any order
  LocalId,              \* [Streams -> ids]: the local_id given to connect()
  PartialSends,         \* whether sendmmsg may take only some of the batch
  RecvErrors,           \* whether recvmmsg may fail
  MaxSubmits,           \* bound: transmits submitted
  MaxArrivals           \* bound: messages received

NoWaker == "none"
NoStream == "none"

ASSUME SocketAssumption ==
  /\ BATCH_SIZE \in Nat \ {0} /\ MAX_LOOP \in Nat \ {0, 1}
  /\ RECV_QUEUE_MAX_LEN \in Nat
  /\ IsFiniteSet(Handles) /\ Futures \subseteq Handles /\ NoWaker \notin Futures
  /\ First \in Handles \ Futures
  /\ DOMAIN LocalId = Streams /\ NoStream \notin Streams
  /\ PartialSends \in BOOLEAN /\ RecvErrors \in BOOLEAN

VARIABLES
  handle,     \* of each handle: "unused", "live", "dropping" or "dropped"
  future,     \* of each RecvFuture: "new", "asleep", "woken" or "ready"
  stream,     \* of each stream: "none", "open", "closed" or "freed"
  streams, send_rx, outgoing_transmits, outgoing_packet_sets,
  recv_dgrams, recv_waker, has_refs,
  wakers,     \* the driver's: "drive" is drive_waker
  scheduled,  \* the driver's task has been woken
  poll,       \* the locals of the driver's poll
  rx,         \* the kernel's receive queue
  sent,       \* history: what poll_send has reported as done, in order
  stamped,    \* the transmits whose packets have a time_sent
  submitted, arrived

ids == Range(LocalId)

Event == [kind : {"Transmit", "TransmitDgram"}, n : Nat]
           \cup [kind : {"StreamDropped"}, id : ids]
Poll == [pc : {"idle", "recv", "transmit", "send", "finish", "done", "failed"},
         iters : Nat, batch : Nat, should_continue : BOOLEAN,
         send_rx_pending : BOOLEAN]

recvVars == <<streams, recv_dgrams, recv_waker, future, rx>>
sendVars == <<outgoing_transmits, outgoing_packet_sets, sent, stamped>>
appVars == <<handle, stream, has_refs, submitted>>
vars == <<recvVars, sendVars, appVars, send_rx, wakers, scheduled, poll, arrived>>

\* UdxSocket::bind: the first handle, and a driver just spawned.
Init ==
  /\ handle = [h \in Handles |-> IF h = First THEN "live" ELSE "unused"]
  /\ future = [f \in Futures |-> "new"]
  /\ stream = [s \in Streams |-> "none"]
  /\ streams = [id \in ids |-> NoStream] /\ send_rx = <<>>
  /\ outgoing_transmits = <<>> /\ outgoing_packet_sets = <<>>
  /\ recv_dgrams = <<>> /\ recv_waker = NoWaker /\ has_refs = TRUE
  /\ wakers = {} /\ scheduled = TRUE
  /\ poll = [pc |-> "idle", iters |-> 0, batch |-> 0,
             should_continue |-> FALSE, send_rx_pending |-> FALSE]
  /\ rx = <<>> /\ sent = <<>> /\ stamped = {}
  /\ submitted = 0 /\ arrived = 0

-----------------------------------------------------------------------------
(* Wakers and references *)

Wake(w) ==
  /\ scheduled' = (scheduled \/ w \in wakers)
  /\ wakers' = wakers \ {w}

Ended == poll.pc \in {"done", "failed"}
Unlocked == poll.pc = "idle" \/ Ended
Live == {h \in Handles : handle[h] = "live"}

\* Arc::strong_count: a handle counts until its drop is over.
StrongCount ==
  Cardinality({h \in Handles : handle[h] \in {"live", "dropping"}})
    + (IF Ended THEN 0 ELSE 1)
SocketGone == StrongCount = 0
OnlyThisHandle == StrongCount = 1
OnlyDriverLeft == StrongCount = 2

Clone(h) ==
  /\ handle[h] = "unused" /\ Live # {}
  /\ handle' = [handle EXCEPT ![h] = "live"]
  /\ UNCHANGED <<recvVars, sendVars, stream, has_refs, submitted, send_rx,
                 wakers, scheduled, poll, arrived>>

\* Drop for UdxSocket: the count is read first and goes down at the end.
DropBegins(h) ==
  /\ handle[h] = "live"
  /\ handle' = [handle EXCEPT ![h] = "dropping"]
  /\ \/ ~OnlyDriverLeft /\ UNCHANGED <<has_refs, wakers, scheduled>>
     \/ OnlyDriverLeft /\ Unlocked /\ has_refs' = FALSE /\ Wake("drive")
  /\ UNCHANGED <<recvVars, sendVars, stream, submitted, send_rx, poll, arrived>>

DropEnds(h) ==
  /\ handle[h] = "dropping"
  /\ handle' = [handle EXCEPT ![h] = "dropped"]
  /\ UNCHANGED <<recvVars, sendVars, stream, has_refs, submitted, send_rx,
                 wakers, scheduled, poll, arrived>>

-----------------------------------------------------------------------------
(* The handle's calls and the streams *)

\* send_tx.send(event)
Push(event) ==
  /\ send_rx' = Append(send_rx, event)
  /\ Wake("send_rx")

Submit(kind) ==
  /\ submitted < MaxSubmits
  /\ submitted' = submitted + 1
  /\ Push([kind |-> kind, n |-> submitted + 1])
  /\ UNCHANGED <<recvVars, sendVars, handle, stream, has_refs, poll, arrived>>

Send == Unlocked /\ Live # {} /\ Submit("TransmitDgram")

\* The handle that was stored under the same local_id is dropped.
Connect(s) ==
  /\ stream[s] = "none" /\ Unlocked /\ Live # {}
  /\ stream' = [stream EXCEPT ![s] = "open"]
  /\ streams' = [streams EXCEPT ![LocalId[s]] = s]
  /\ UNCHANGED <<sendVars, recv_dgrams, recv_waker, future, rx, handle, has_refs,
                 submitted, send_rx, wakers, scheduled, poll, arrived>>

\* The stream's poll_transmit.
StreamTransmit(s) ==
  stream[s] = "open" /\ ~SocketGone /\ Submit("Transmit")

\* StreamDriver::poll finds the stream closed and drained.
StreamFinishes(s) ==
  /\ stream[s] = "open" /\ ~SocketGone
  /\ stream' = [stream EXCEPT ![s] = "closed"]
  /\ Push([kind |-> "StreamDropped", id |-> LocalId[s]])
  /\ UNCHANGED <<recvVars, sendVars, handle, has_refs, submitted, poll, arrived>>

\* The last UdxStream goes, and with it the receiver of the stream's channel.
StreamFreed(s) ==
  /\ stream[s] = "closed"
  /\ stream' = [stream EXCEPT ![s] = "freed"]
  /\ UNCHANGED <<recvVars, sendVars, handle, has_refs, submitted, send_rx,
                 wakers, scheduled, poll, arrived>>

PollFuture(f) ==
  /\ handle[f] = "live" /\ future[f] \in {"new", "woken"} /\ Unlocked
  /\ \/ /\ recv_dgrams # <<>>
        /\ recv_dgrams' = Tail(recv_dgrams)
        /\ future' = [future EXCEPT ![f] = "ready"]
        /\ UNCHANGED recv_waker
     \/ /\ recv_dgrams = <<>>
        /\ recv_waker' = f
        /\ future' = [future EXCEPT ![f] = "asleep"]
        /\ UNCHANGED recv_dgrams
  /\ UNCHANGED <<streams, rx, sendVars, appVars, send_rx, wakers, scheduled, poll,
                 arrived>>

-----------------------------------------------------------------------------
(* SocketDriver::poll *)

\* The network delivers; the driver's interest in reading is used up.
Arrives(m) ==
  /\ arrived < MaxArrivals /\ ~SocketGone
  /\ arrived' = arrived + 1
  /\ rx' = Append(rx, m)
  /\ Wake("read")
  /\ UNCHANGED <<streams, recv_dgrams, recv_waker, future, sendVars, appVars,
                 send_rx, poll>>

\* The kernel's send buffer has room again.
Writable ==
  /\ "write" \in wakers
  /\ Wake("write")
  /\ UNCHANGED <<recvVars, sendVars, appVars, send_rx, poll, arrived>>

PollStarts ==
  /\ poll.pc = "idle" /\ scheduled
  /\ scheduled' = FALSE
  /\ poll' = [pc |-> "recv", iters |-> 0, batch |-> 0,
              should_continue |-> FALSE, send_rx_pending |-> FALSE]
  /\ UNCHANGED <<recvVars, sendVars, appVars, send_rx, wakers, arrived>>

\* One turn of the loop in poll_recv: enough turns, a batch, or Pending.
PollRecv ==
  /\ poll.pc = "recv" /\ poll.batch = 0
  /\ \/ /\ poll.iters + 1 = MAX_LOOP
        /\ poll' = [poll EXCEPT !.pc = "transmit", !.should_continue = TRUE]
        /\ UNCHANGED wakers
     \/ /\ poll.iters + 1 < MAX_LOOP /\ rx # <<>>
        /\ poll' = [poll EXCEPT !.iters = @ + 1,
                                !.batch = IF Len(rx) < BATCH_SIZE THEN Len(rx)
                                          ELSE BATCH_SIZE]
        /\ UNCHANGED wakers
     \/ /\ poll.iters + 1 < MAX_LOOP /\ rx = <<>>
        /\ poll' = [poll EXCEPT !.pc = "transmit"]
        /\ wakers' = wakers \cup {"read"}
  /\ UNCHANGED <<recvVars, sendVars, appVars, send_rx, scheduled, arrived>>

\* The driver's task ends, and with it the driver's own UdxSocket.
Returns(pc) ==
  /\ poll' = [poll EXCEPT !.pc = pc]
  /\ has_refs' = (has_refs /\ ~OnlyDriverLeft)

PollRecvFails ==
  /\ RecvErrors
  /\ poll.pc = "recv" /\ poll.batch = 0 /\ poll.iters + 1 < MAX_LOOP
  /\ Returns("failed")
  /\ UNCHANGED <<recvVars, sendVars, handle, stream, submitted, send_rx, wakers,
                 scheduled, arrived>>

\* A message of the batch is taken from the buffer.
NextMessage ==
  /\ poll.pc = "recv" /\ poll.batch > 0
  /\ poll' = [poll EXCEPT !.batch = @ - 1]
  /\ rx' = Tail(rx)
  /\ UNCHANGED <<sendVars, appVars, send_rx, wakers, scheduled, arrived>>

Known(m) == m \in ids /\ streams[m] # NoStream

\* handle.recv_tx.send: a channel that has lost its receiver is removed.
DeliveredIsRemoved(m) ==
  IF stream[streams[m]] # "freed" THEN [streams EXCEPT ![m] = NoStream] ELSE streams
Delivered(m) ==
  IF stream[streams[m]] = "freed" THEN [streams EXCEPT ![m] = NoStream] ELSE streams

\* process_packet, for a stream that is known.
ProcessPacket ==
  /\ NextMessage
  /\ Known(Head(rx))
  /\ streams' = Delivered(Head(rx))
  /\ UNCHANGED <<recv_dgrams, recv_waker, future>>

\* recv_waker.take() and wake(), if there is one and its future still sleeps.
WakeNobody == future
WakeReceiver ==
  [f \in Futures |-> IF f = recv_waker /\ future[f] = "asleep" THEN "woken"
                     ELSE future[f]]

\* on_recv_dgram: no udx header, or a stream that is not known.
OnRecvDgram ==
  /\ NextMessage
  /\ ~Known(Head(rx))
  /\ \/ /\ Len(recv_dgrams) < RECV_QUEUE_MAX_LEN
        /\ recv_dgrams' = Append(recv_dgrams, Head(rx))
        /\ recv_waker' = NoWaker
        /\ future' = WakeReceiver
     \/ /\ Len(recv_dgrams) >= RECV_QUEUE_MAX_LEN
        /\ UNCHANGED <<recv_dgrams, recv_waker, future>>
  /\ UNCHANGED streams

BatchOverfull == Len(outgoing_transmits) <= BATCH_SIZE
BatchOpen == Len(outgoing_transmits) < BATCH_SIZE

\* The inner loop of poll_transmit: an event of send_rx.
TakeEvent ==
  /\ poll.pc = "transmit" /\ BatchOpen /\ send_rx # <<>>
  /\ LET event == Head(send_rx) IN
       \/ /\ event.kind = "StreamDropped"
          /\ streams' = [streams EXCEPT ![event.id] = NoStream]
          /\ UNCHANGED <<outgoing_transmits, outgoing_packet_sets>>
       \/ /\ event.kind = "TransmitDgram"
          /\ outgoing_transmits' = Append(outgoing_transmits, event)
          /\ UNCHANGED <<streams, outgoing_packet_sets>>
       \/ /\ event.kind = "Transmit"
          /\ outgoing_transmits' = Append(outgoing_transmits, event)
          /\ outgoing_packet_sets' = Append(outgoing_packet_sets, event.n)
          /\ UNCHANGED streams
  /\ send_rx' = Tail(send_rx)
  /\ UNCHANGED <<recv_dgrams, recv_waker, future, rx, sent, stamped, appVars,
                 wakers, scheduled, poll, arrived>>

\* The end of that loop: the batch is full, or send_rx is Pending.
BatchFilled ==
  /\ poll.pc = "transmit"
  /\ \/ /\ ~BatchOpen
        /\ poll' = [poll EXCEPT !.pc = "send"]
        /\ UNCHANGED wakers
     \/ /\ BatchOpen /\ send_rx = <<>>
        /\ poll' = [poll EXCEPT !.pc = "send", !.send_rx_pending = TRUE]
        /\ wakers' = wakers \cup {"send_rx"}
  /\ UNCHANGED <<recvVars, sendVars, appVars, send_rx, scheduled, arrived>>

\* poll_transmit has nothing to send, or poll_send is Pending.
SendNothingNoInterest ==
  /\ poll.pc = "send"
  /\ poll' = [poll EXCEPT !.pc = "finish"]
  /\ UNCHANGED <<recvVars, sendVars, appVars, send_rx, wakers, scheduled, arrived>>
SendNothing ==
  /\ poll.pc = "send"
  /\ wakers' = IF outgoing_transmits = <<>> THEN wakers
               ELSE wakers \cup {"write"}
  /\ poll' = [poll EXCEPT !.pc = "finish"]
  /\ UNCHANGED <<recvVars, sendVars, appVars, send_rx, scheduled, arrived>>

\* drain(..n)
DrainOneMore(queue, n) == SubSeq(queue, n + 2, Len(queue))
Drain(queue, n) == SubSeq(queue, n + 1, Len(queue))

\* n.min(self.outgoing_packet_sets.len())
StampOneLess(n) ==
  IF n < Len(outgoing_packet_sets) THEN n - 1 ELSE Len(outgoing_packet_sets)
StampCount(n) ==
  IF n < Len(outgoing_packet_sets) THEN n ELSE Len(outgoing_packet_sets)

\* What poll_transmit returns after a send.
SendNoMore == FALSE
SendMore == ~poll.send_rx_pending

\* poll_send returns Ok(n): n messages are sent, or the first is given up.
\* As many packet sets are stamped, however many of the n were datagrams.
PollSend ==
  /\ poll.pc = "send"
  /\ \E n \in 1 .. Len(outgoing_transmits) :
       /\ PartialSends \/ n = Len(outgoing_transmits)
       /\ sent' = sent \o SubSeq(outgoing_transmits, 1, n)
       /\ outgoing_transmits' = Drain(outgoing_transmits, n)
       /\ stamped' =
            stamped \cup {outgoing_packet_sets[i] : i \in 1 .. StampCount(n)}
       /\ outgoing_packet_sets' = Drain(outgoing_packet_sets, StampCount(n))
  /\ poll' = [poll EXCEPT !.pc = "finish", !.should_continue = @ \/ SendMore]
  /\ UNCHANGED <<recvVars, appVars, send_rx, wakers, scheduled, arrived>>

\* What SocketDriver::poll does with the results.
IdleAnyway == ~poll.should_continue /\ ~has_refs
Idle == ~poll.should_continue /\ ~has_refs /\ \A id \in ids : streams[id] = NoStream

PollEnds ==
  /\ poll.pc = "finish"
  /\ \/ Idle /\ Returns("done") /\ UNCHANGED <<wakers, scheduled>>
     \/ /\ ~Idle
        /\ poll' = [poll EXCEPT !.pc = "idle"]
        /\ scheduled' = (scheduled \/ poll.should_continue)
        /\ wakers' = IF poll.should_continue THEN wakers
                     ELSE wakers \cup {"drive"}
        /\ UNCHANGED has_refs
  /\ UNCHANGED <<recvVars, sendVars, handle, stream, submitted, send_rx, arrived>>

-----------------------------------------------------------------------------
(* The specification *)

DriverNext ==
  \/ PollStarts \/ PollRecv \/ PollRecvFails \/ ProcessPacket \/ OnRecvDgram
  \/ TakeEvent \/ BatchFilled \/ SendNothing \/ PollSend \/ PollEnds

HandleNext ==
  \/ Send
  \/ \E h \in Handles : Clone(h) \/ DropBegins(h) \/ DropEnds(h)
  \/ \E f \in Futures : PollFuture(f)

StreamNext ==
  \E s \in Streams : Connect(s) \/ StreamTransmit(s) \/ StreamFinishes(s)
                       \/ StreamFreed(s)

Next ==
  \/ DriverNext \/ HandleNext \/ StreamNext \/ Writable
  \/ \E m \in ids \cup {"dgram"} : Arrives(m)

Spec == Init /\ [][Next]_vars

\* A woken task is polled, a poll goes on to its end and a drop to its end,
\* and the kernel makes room for more.
Fairness ==
  /\ WF_vars(DriverNext) /\ SF_vars(PollSend) /\ WF_vars(Writable)
  /\ \A h \in Handles : WF_vars(DropEnds(h))
FairSpec == Spec /\ Fairness

-----------------------------------------------------------------------------
(* Properties *)

\* Every variable has its type; the queues keep within their capacities.
TypeOK ==
  /\ handle \in [Handles -> {"unused", "live", "dropping", "dropped"}]
  /\ future \in [Futures -> {"new", "asleep", "woken", "ready"}]
  /\ stream \in [Streams -> {"none", "open", "closed", "freed"}]
  /\ streams \in [ids -> Streams \cup {NoStream}]
  /\ send_rx \in Seq(Event)
  /\ outgoing_transmits \in Seq(Event) /\ Len(outgoing_transmits) <= BATCH_SIZE
  /\ outgoing_packet_sets \in Seq(Nat) /\ sent \in Seq(Event)
  /\ stamped \subseteq Nat
  /\ recv_dgrams \in Seq(ids \cup {"dgram"})
  /\ Len(recv_dgrams) <= RECV_QUEUE_MAX_LEN
  /\ recv_waker \in Futures \cup {NoWaker} /\ has_refs \in BOOLEAN
  /\ wakers \subseteq {"drive", "send_rx", "read", "write"}
  /\ scheduled \in BOOLEAN /\ poll \in Poll
  /\ rx \in Seq(ids \cup {"dgram"}) /\ submitted \in Nat /\ arrived \in Nat

\* The submissions in queue are those after the m-th, up to the n-th, in order.
Follows(queue, m, n) ==
  LET transmits == {i \in 1 .. Len(queue) : queue[i].kind # "StreamDropped"}
  IN  /\ {queue[i].n : i \in transmits} = (m + 1) .. n
      /\ \A i, j \in transmits : i < j => queue[i].n < queue[j].n

\* What is submitted to send_rx is sent once and in the order of submission:
\* poll_transmit neither loses, repeats nor reorders across a full batch, a
\* send that is Pending and a send of only a part of the batch.
InOrder ==
  LET taken == sent \o outgoing_transmits
  IN  /\ \A i \in 1 .. Len(taken) : taken[i].n = i
      /\ Follows(send_rx, Len(taken), submitted)

\* A packet that has been sent has a time_sent: poll_transmit stamps as many
\* packet sets as poll_send took messages, though some of those messages are
\* datagrams and have no packet set.
SentAreStamped ==
  \A i \in 1 .. Len(sent) : sent[i].kind = "Transmit" => sent[i].n \in stamped

\* A packet gets its time_sent only when it is sent (src/socket.rs:342,
\* "update packet sent time for data packets").
StampedAreSent ==
  \A n \in stamped : \E i \in 1 .. Len(sent) : sent[i].n = n

Asleep == poll.pc = "idle" /\ ~scheduled

\* The driver sleeps only when there is nothing for it to do that nobody will
\* wake it for: all that arrived is processed, a message it could not send has
\* it wait for room, what waits in send_rx waits behind such messages, and it
\* has someone to run for.
SleepingSocket ==
  Asleep =>
    /\ rx = <<>>
    /\ outgoing_transmits # <<>> => "write" \in wakers
    /\ send_rx # <<>> => outgoing_transmits # <<>>
    /\ has_refs \/ \E id \in ids : streams[id] # NoStream

Waiting(f) == handle[f] = "live" /\ future[f] = "asleep"

\* A pending recv() sleeps only while there is no datagram to receive, as long
\* as no two calls wait at the same time: recv_waker has room for one.  Calls
\* may follow each other, one that is given up included, whose waker stays.
OneWaits == \A f, g \in Futures : Waiting(f) /\ Waiting(g) => f = g
WaitsForNothing == \A f \in Futures : Waiting(f) => recv_dgrams = <<>>
ReceiverWoken == []OneWaits => []WaitsForNothing

\* The socket knows the id of an open stream: the packets it handles as
\* "received packet for nonexisting stream." (src/socket.rs:445) are never those
\* of an open one, whose channel the removal of its id would close.
ChannelOpen ==
  \A s \in Streams :
    stream[s] = "open" => streams[LocalId[s]] # NoStream \/ Ended

\* An open stream keeps the socket's driver running after the last handle.
ServesStreams ==
  poll.pc = "done" => \A s \in Streams : stream[s] # "open"

\* When the last handle is dropped and no stream is left the driver ends:
\* "Only the driver is left, shutdown." (src/socket.rs:120).
Abandoned ==
  /\ \A h \in Handles : handle[h] \in {"unused", "dropped"}
  /\ \A s \in Streams : stream[s] \in {"none", "closed", "freed"}
Shutdown == Abandoned ~> Ended

\* What the driver has taken from send_rx it sends, unless it ends first:
\* "drop the first (problematic) message, and retry the remaining ones"
\* (udx-udp/src/unix.rs:301).
Retried ==
  \A n \in 1 .. MaxSubmits :
    (\E i \in 1 .. Len(outgoing_transmits) : outgoing_transmits[i].n = n)
      ~> (Ended \/ \E i \in 1 .. Len(sent) : sent[i].n = n)

=============================================================================
