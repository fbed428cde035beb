------------------------------ MODULE UdxConn ------------------------------
(***************************************************************************)
(* Two connected udx streams: at each end the application's handle         *)
(* (UdxStream), the task that drives the stream (StreamDriver), and a      *)
(* network between the ends that loses, repeats, delays and reorders       *)
(* packets.  Both sides call the methods of module UdxStream under the     *)
(* mutex of the stream.                                                    *)
(*                                                                         *)
(* The loops of poll_write and poll_incoming hold the mutex from the first *)
(* iteration to the last: one iteration is one action here, and phase says *)
(* which loop holds the mutex of an end.                                   *)
(*                                                                         *)
(* The socket between stream and network (src/socket.rs) appears as what   *)
(* it does to packets: it sends those of poll_transmit and queues those    *)
(* received for a stream whose driver runs.  A packet that arrives while   *)
(* the driver is being polled counts as having arrived before or after the *)
(* poll, depending on whether that poll takes it from the channel.         *)
(***************************************************************************)
EXTENDS UdxStream

CONSTANTS
  End,          \* the two ends of the connection
  WriteLens,    \* sizes of the buffers passed to poll_write
  ReadCaps,     \* capacities of the buffers passed to poll_read
  MaxBytes,     \* bound: MaxBytes[e] bytes written at end e
  RxCapacity,   \* bound: RxCapacity[e] packets in the receive channel of e
  MayClose,     \* the ends whose application calls close()
  MayDrop,      \* the ends whose application drops its handles
  MaxHandles,   \* bound: MaxHandles[e] clones of the handle at a time
  MayBreak,     \* the ends whose socket driver may go
  SackEnd       \* the ends that also send SACKs (the C implementation, libudx)

ASSUME EndsAssumption ==
  /\ \E a, b \in End : a # b /\ End = {a, b}
  /\ WriteLens \subseteq Nat \ {0}
  /\ ReadCaps \subseteq Nat \ {0}
  /\ MaxBytes \in [End -> Nat]
  /\ MaxHandles \in [End -> Nat]
  /\ RxCapacity \in [End -> Nat]

VARIABLES
  stream,       \* the streams: End -> UdxStreamInner
  net,          \* net[e]: every packet ever sent to e; delivery removes none
  recv_rx,      \* recv_rx[e]: received packets the driver has not handled
  phase,        \* who holds the mutex between two steps
  remote_ack,   \* the local variable of poll_incoming, 0 outside of it
  left,         \* buf.len() - written of the poll_write in progress
  driver,       \* the StreamDriver task: running, returned, dropping, dropped
  handles,      \* the application's clones of its handle
  dropping,     \* those whose drop has read strong_count and is not over
  closing,      \* the futures returned by close()
  delivered,    \* history: bytes the reader at e was given
  intact        \* history: they were the bytes written, in order, no gap

vars == <<stream, net, recv_rx, phase, remote_ack, left, driver, handles,
          dropping, closing, delivered, intact>>

Peer(e) == CHOOSE p \in End : p # e

Init ==
  /\ stream = [e \in End |-> InitialStream]
  /\ net = [e \in End |-> {}]
  /\ recv_rx = [e \in End |-> {}]
  /\ phase = [e \in End |-> "idle"]
  /\ remote_ack = [e \in End |-> 0]
  /\ left = [e \in End |-> 0]
  /\ driver = [e \in End |-> "running"]
  /\ handles = [e \in End |-> 1]
  /\ dropping = [e \in End |-> 0]
  /\ closing = [e \in End |-> [c \in Closers |-> "none"]]
  /\ delivered = [e \in End |-> 0]
  /\ intact = [e \in End |-> TRUE]

-----------------------------------------------------------------------------
(* The application *)

AppUnchanged == UNCHANGED <<driver, handles, dropping, closing, delivered, intact>>

\* One iteration of poll_write with n bytes left to write.  When the first
\* iteration finds the window full the write is Pending.
WriteChunk(e, n, first) ==
  IF WindowFull(stream[e], n)
  THEN /\ stream' = [stream EXCEPT ![e].write_waker = @ \/ first]
       /\ left' = [left EXCEPT ![e] = 0]
       /\ phase' = [phase EXCEPT ![e] = "idle"]
  ELSE /\ stream' = [stream EXCEPT ![e] = SendDataPacket(@, n)]
       /\ left' = [left EXCEPT ![e] = n - ChunkLen(n)]
       /\ phase' = [phase EXCEPT ![e] = IF n > ChunkLen(n) THEN "writing"
                                                          ELSE "idle"]

\* Mutant: a stream that has ended accepts writes.
PollWriteEnded(e, n) ==
  /\ phase[e] = "idle" /\ handles[e] > 0
  /\ stream[e].tx_bytes + n <= MaxBytes[e]
  /\ WriteChunk(e, n, TRUE)
  /\ UNCHANGED <<net, recv_rx, remote_ack>> /\ AppUnchanged

PollWrite(e, n) ==
  /\ phase[e] = "idle" /\ handles[e] > 0
  /\ stream[e].error = "none"
  /\ stream[e].tx_bytes + n <= MaxBytes[e]
  /\ WriteChunk(e, n, TRUE)
  /\ UNCHANGED <<net, recv_rx, remote_ack>> /\ AppUnchanged

PollWriteMore(e) ==
  /\ phase[e] = "writing"
  /\ WriteChunk(e, left[e], FALSE)
  /\ UNCHANGED <<net, recv_rx, remote_ack>> /\ AppUnchanged

\* Where the reader's next byte must come from if packet k is read in turn.
ExpectedAt(e, k) ==
  delivered[e] + Total({j \in Run(stream[e]) : j < k}, Unread(stream[e].incoming))

\* The bytes of whole packets and of the first packet that does not fit are
\* the next ones of the peer's byte sequence.
ReadsInOrder(e, cap) ==
  LET s == stream[e]
      next == s.read_cursor + Cardinality(FullyRead(s, cap))
  IN  \A k \in Run(s) \cap (s.read_cursor .. next) :
        s.incoming[k].packet.off + s.incoming[k].read_offset = ExpectedAt(e, k)

\* The bytes poll_read puts into the buffer.
BytesPut(e, cap) ==
  Smaller(cap, Total(Run(stream[e]), Unread(stream[e].incoming)))

\* poll_read.  A reader whose call is Pending passes the whole buffer again:
\* bytes put into it count as read only when the call is Ready.
Read(e, cap) ==
  /\ phase[e] = "idle" /\ handles[e] > 0
  /\ stream' = [stream EXCEPT ![e] = PollRead(@, cap)]
  /\ IF DidRead(stream[e], cap)
     THEN /\ delivered' = [delivered EXCEPT ![e] = @ + BytesPut(e, cap)]
          /\ intact' = [intact EXCEPT ![e] = @ /\ ReadsInOrder(e, cap)]
     ELSE UNCHANGED <<delivered, intact>>
  /\ UNCHANGED <<net, recv_rx, phase, remote_ack, left, driver, handles, dropping, closing>>

\* close().  A sender left in on_close by an earlier call is dropped, which
\* resolves the future of that call.
Close(e, c) ==
  /\ phase[e] = "idle" /\ handles[e] > 0 /\ e \in MayClose
  /\ closing[e][c] = "none"
  /\ stream' = [stream EXCEPT ![e] =
                  [Terminate(@, "ConnectionReset") EXCEPT !.on_close = {c}]]
  /\ closing' = [closing EXCEPT ![e] =
                   [d \in Closers |-> IF d = c THEN "pending"
                                      ELSE IF d \in stream[e].on_close
                                      THEN "resolved" ELSE @[d]]]
  /\ UNCHANGED <<net, recv_rx, phase, remote_ack, left, driver, handles, dropping,
                 delivered, intact>>

\* The futures of the calls C are resolved.
Resolve(e, C) ==
  closing' = [closing EXCEPT ![e] =
                [c \in Closers |-> IF c \in C THEN "resolved" ELSE @[c]]]

Clone(e) ==
  /\ handles[e] > 0 /\ handles[e] + dropping[e] < MaxHandles[e]
  /\ handles' = [handles EXCEPT ![e] = @ + 1]
  /\ UNCHANGED <<stream, net, recv_rx, phase, remote_ack, left, driver, dropping,
                 closing, delivered, intact>>

\* Arc::strong_count: a reference counts until its drop is over.
StrongCount(e) ==
  handles[e] + dropping[e] + IF driver[e] = "dropped" THEN 0 ELSE 1

\* Mutant: the driver's own reference is forgotten.
DropEarly(e) == StrongCount(e) <= 3

\* "Only the driver is left, shutdown."
LastDrop(e) == StrongCount(e) <= 2

\* Drop for UdxStream, of a clone that is not the one inside poll_write: the
\* count is read first, and goes down when the drop is over.
DropTerminates(e) ==
  \/ /\ LastDrop(e) /\ phase[e] = "idle"
     /\ stream' = [stream EXCEPT ![e] = Terminate(@, "ConnectionReset")]
  \/ ~ LastDrop(e) /\ UNCHANGED stream

DropBegins(e) ==
  /\ e \in MayDrop
  /\ handles[e] > IF phase[e] = "writing" THEN 1 ELSE 0
  /\ handles' = [handles EXCEPT ![e] = @ - 1]
  /\ dropping' = [dropping EXCEPT ![e] = @ + 1]
  /\ DropTerminates(e)
  /\ UNCHANGED <<net, recv_rx, phase, remote_ack, left, driver, closing,
                 delivered, intact>>

\* The last reference frees the stream, and with it the sender in on_close.
Freed(e) == Resolve(e, IF StrongCount(e) = 1 THEN stream[e].on_close ELSE {})

DropEnds(e) ==
  /\ dropping[e] > 0
  /\ dropping' = [dropping EXCEPT ![e] = @ - 1]
  /\ Freed(e)
  /\ UNCHANGED <<stream, net, recv_rx, phase, remote_ack, left, driver, handles,
                 delivered, intact>>

-----------------------------------------------------------------------------
(* The driver *)

\* The start of StreamDriver::poll: the task runs because it was woken.
Woken(e) == driver[e] = "running" /\ stream[e].scheduled /\ phase[e] = "idle"

PollStarts(s) == [s EXCEPT !.scheduled = FALSE, !.drive_waker = FALSE]

DriverReturns(e) ==
  /\ Woken(e) /\ ClosedAndDrained(stream[e])
  /\ driver' = [driver EXCEPT ![e] = "returned"]
  /\ stream' = [stream EXCEPT ![e] = [PollStarts(@) EXCEPT !.on_close = {}]]
  /\ Resolve(e, stream[e].on_close)
  /\ UNCHANGED <<net, recv_rx, phase, remote_ack, left, handles, dropping, delivered, intact>>

\* The finished task drops its UdxStream: the count is at most 2, and the
\* stream terminated again, unless the application holds two clones.
DriverDropBegins(e) ==
  /\ driver[e] = "returned"
  /\ driver' = [driver EXCEPT ![e] = "dropping"]
  /\ DropTerminates(e)
  /\ UNCHANGED <<net, recv_rx, phase, remote_ack, left, handles, dropping, closing,
                 delivered, intact>>

DriverDropEnds(e) ==
  /\ driver[e] = "dropping"
  /\ driver' = [driver EXCEPT ![e] = "dropped"]
  /\ Freed(e)
  /\ UNCHANGED <<stream, net, recv_rx, phase, remote_ack, left, handles, dropping,
                 delivered, intact>>

DriverPolls(e) ==
  /\ Woken(e) /\ ~ ClosedAndDrained(stream[e])
  /\ stream' = [stream EXCEPT ![e] = PollStarts(@)]
  /\ phase' = [phase EXCEPT ![e] = "incoming"]
  /\ UNCHANGED <<net, recv_rx, remote_ack, left>> /\ AppUnchanged

\* One iteration of poll_incoming.
PollIncoming(e, p) ==
  /\ phase[e] = "incoming"
  /\ recv_rx' = [recv_rx EXCEPT ![e] = @ \ {p}]
  /\ remote_ack' = [remote_ack EXCEPT ![e] = Larger(@, p.ack)]
  /\ stream' = [stream EXCEPT ![e] = HandleIncoming(@, p)]
  /\ UNCHANGED <<net, phase, left>> /\ AppUnchanged

\* The stream once poll_incoming and poll_check_timeouts are done.
Checked(e) ==
  PollCheckTimeouts(HandleIncomingMaxRemoteAck(stream[e], remote_ack[e]))

GivesUp(e) == TimesOut(HandleIncomingMaxRemoteAck(stream[e], remote_ack[e]))

\* What StreamDriver::poll does with an error of poll_drive.
Failed(s, err) == [Terminate(s, err) EXCEPT !.scheduled = TRUE]

\* Mutant: a closed channel is taken for an empty one.
ChannelNotClosed(e) == FALSE

\* poll_incoming fails, and forgets remote_ack, once the channel is closed
\* and empty.
ChannelClosed(e) == stream[e].rx_closed

DriveBroken(e) ==
  /\ phase[e] = "incoming" /\ recv_rx[e] = {} /\ ChannelClosed(e)
  /\ stream' = [stream EXCEPT ![e] = Failed(@, "BrokenPipe")]
  /\ phase' = [phase EXCEPT ![e] = "idle"]
  /\ remote_ack' = [remote_ack EXCEPT ![e] = 0]
  /\ UNCHANGED <<net, recv_rx, left>> /\ AppUnchanged

\* The rest of poll_drive.
DriveFails(e) ==
  /\ phase[e] = "incoming" /\ recv_rx[e] = {} /\ ~ ChannelClosed(e) /\ GivesUp(e)
  /\ stream' = [stream EXCEPT ![e] = Failed(Checked(e), "TimedOut")]
  /\ phase' = [phase EXCEPT ![e] = "idle"]
  /\ remote_ack' = [remote_ack EXCEPT ![e] = 0]
  /\ UNCHANGED <<net, recv_rx, left>> /\ AppUnchanged

Drive(e) ==
  /\ phase[e] = "incoming" /\ recv_rx[e] = {} /\ ~ ChannelClosed(e) /\ ~ GivesUp(e)
  /\ LET s == FlushWaitingPackets(Checked(e))
     IN  /\ stream' = [stream EXCEPT ![e] =
                         [s EXCEPT !.send_queue = {}, !.drive_waker = TRUE]]
         /\ net' = [net EXCEPT ![Peer(e)] = @ \cup s.send_queue]
  /\ phase' = [phase EXCEPT ![e] = "idle"]
  /\ remote_ack' = [remote_ack EXCEPT ![e] = 0]
  /\ UNCHANGED <<recv_rx, left>> /\ AppUnchanged

-----------------------------------------------------------------------------
(* Timer and network *)

\* The Sleep of rto_timeout elapses and wakes the driver that polled it.
TimerElapses(e) ==
  /\ driver[e] = "running" /\ stream[e].rto_timeout = "armed"
  /\ stream' = [stream EXCEPT ![e].rto_timeout = "elapsed", ![e].scheduled = TRUE]
  /\ UNCHANGED <<net, recv_rx, phase, remote_ack, left>> /\ AppUnchanged

\* A packet arrives, for the first time or again: the network, and the socket's
\* poll_recv and process_packet, which may take any packet of net at any time.
Deliver(e, p) ==
  /\ driver[e] = "running" /\ phase[e] # "incoming" /\ ~ stream[e].rx_closed
  /\ Cardinality(recv_rx[e]) < RxCapacity[e]
  /\ recv_rx' = [recv_rx EXCEPT ![e] = @ \cup {p}]
  /\ stream' = [stream EXCEPT ![e].scheduled = TRUE]
  /\ UNCHANGED <<net, phase, remote_ack, left>> /\ AppUnchanged

\* The socket's driver ends with an error, or connect() is called with the id
\* of this stream: the sender of the channel is dropped.
SocketGone(e) ==
  /\ e \in MayBreak /\ driver[e] = "running" /\ phase[e] # "incoming"
  /\ ~ stream[e].rx_closed
  /\ stream' = [stream EXCEPT ![e].rx_closed = TRUE, ![e].scheduled = TRUE]
  /\ UNCHANGED <<net, recv_rx, phase, remote_ack, left>> /\ AppUnchanged

\* The packets an end holds beyond a gap, as ranges.
SackRanges(s) ==
  {r \in (DOMAIN s.incoming) \X {i + 1 : i \in DOMAIN s.incoming} :
     /\ s.ack < r[1] /\ r[1] < r[2]
     /\ r[1] - 1 \notin DOMAIN s.incoming /\ r[2] \notin DOMAIN s.incoming
     /\ (r[1] .. (r[2] - 1)) \subseteq DOMAIN s.incoming}

\* async-udx handles SACKs but sends none: this is its peer libudx, which
\* lists what it holds beyond the first gap in ascending order.
SendSack(e) ==
  /\ e \in SackEnd /\ phase[e] = "idle" /\ stream[e].error = "none"
  /\ \E q, r \in SackRanges(stream[e]) :
       /\ q[1] < r[1]
       /\ net' = [net EXCEPT ![Peer(e)] = @ \cup
            {[CreatePacket(stream[e], {"SACK"}, 0, 0) EXCEPT !.sacks = <<q, r>>]}]
  /\ UNCHANGED <<stream, recv_rx, phase, remote_ack, left>> /\ AppUnchanged

-----------------------------------------------------------------------------
(* Specification *)

AppNext(e) ==
  \/ \E n \in WriteLens : PollWrite(e, n)
  \/ \E cap \in ReadCaps : Read(e, cap)
  \/ \E c \in Closers : Close(e, c)
  \/ Clone(e) \/ DropBegins(e) \/ DropEnds(e)

DriverNext(e) ==
  \/ DriverReturns(e)
  \/ DriverDropBegins(e) \/ DriverDropEnds(e)
  \/ DriverPolls(e)
  \/ \E p \in recv_rx[e] : PollIncoming(e, p)
  \/ DriveBroken(e)
  \/ DriveFails(e)
  \/ Drive(e)

Next ==
  \E e \in End :
    \/ AppNext(e)
    \/ PollWriteMore(e)
    \/ DriverNext(e)
    \/ TimerElapses(e)
    \/ \E p \in net[e] : Deliver(e, p)
    \/ SocketGone(e)
    \/ SendSack(e)

Spec == Init /\ [][Next]_vars

\* When TaskStep(e) is enabled, and that a step was one of its steps.
TaskReady(e) ==
  Woken(e) \/ phase[e] # "idle" \/ driver[e] \in {"returned", "dropping"}

TaskMoves(e) ==
  \/ phase[e] # "idle" /\ <<phase[e], recv_rx[e], left[e]>>' # <<phase[e], recv_rx[e], left[e]>>
  \/ phase[e] = "idle" /\ phase'[e] = "incoming"
  \/ driver'[e] # driver[e]

\* The runtime polls woken tasks, its timers elapse, and a thread inside a
\* critical section leaves it.  Nothing is assumed of network, reader or
\* writer.  The first conjunct is WF_vars(DriverNext(e) \/ PollWriteMore(e)),
\* spelt out because TLC is slow to evaluate ENABLED.
Fairness ==
  \A e \in End : /\ []<>(~ TaskReady(e)) \/ []<><<TaskMoves(e)>>_vars
                 /\ WF_vars(TimerElapses(e))

FairSpec == Spec /\ Fairness

-----------------------------------------------------------------------------
(* Properties *)

\* The variables have their types.  The counters of UdxStreamInner are
\* unsigned: inflight, stats.inflight_packets and stats.inflight_bytes never
\* go below zero.
TypeOK ==
  /\ DOMAIN stream = End
  /\ \A e \in End : StreamOK(stream[e])
  /\ net \in [End -> SUBSET Packet]
  /\ recv_rx \in [End -> SUBSET Packet]
  /\ phase \in [End -> {"idle", "incoming", "writing"}]
  /\ remote_ack \in [End -> Nat]
  /\ left \in [End -> Nat]
  /\ driver \in [End -> {"running", "returned", "dropping", "dropped"}]
  /\ handles \in [End -> Nat] /\ dropping \in [End -> Nat]
  /\ closing \in [End -> [Closers -> {"none", "pending", "resolved"}]]
  /\ delivered \in [End -> Nat]
  /\ intact \in [End -> BOOLEAN]

\* What a sender takes as acknowledged (remote_acked) its peer has received
\* in order (ack), and a receiver acknowledges only what was sent: the test
\* "received ack is out of bounds" in handle_incoming never fires.
AckedIsReceived ==
  \A e \in End : /\ stream[e].remote_acked <= stream[Peer(e)].ack
                 /\ stream[Peer(e)].ack <= stream[e].seq

\* Reliability of the retransmission buffer: a packet leaves outgoing, by an
\* ack or by a SACK, only when the peer has it.
NothingForgotten ==
  \A e \in End : \A i \in 0 .. (stream[e].seq - 1) :
     i \in DOMAIN stream[e].outgoing \/ Got(stream[Peer(e)], i)

\* The counters agree with the packets they count, through writes, acks in
\* any order, timeouts and retransmissions.
InflightExact == \A e \in End : CountersExact(stream[e])

\* Congestion control: a live stream has at most cwnd bytes in flight, plus
\* the one header send_data_packet does not count, also just after a timeout
\* halved the window.
CwndRespected ==
  \A e \in End :
     stream[e].error = "none" => stream[e].inflight <= stream[e].cwnd + HEADER_SIZE

\* The reader is given the bytes its peer wrote, in order, without gap or
\* repetition, and never more of them than were written.
IntactStream ==
  \A e \in End : intact[e] /\ delivered[e] <= stream[Peer(e)].tx_bytes

\* The receive window holds exactly what the reader has not taken, whatever
\* the order in which packets arrive and the reader reads.
WindowShape == \A e \in End : WindowIntact(stream[e])

\* No lost wake-up of the reader: a reader that waits has nothing to read
\* and no error to be told of, when buffers hold a full packet.
BlockedReader ==
  \A e \in End : stream[e].read_waker =>
     stream[e].error = "none" /\ stream[e].read_cursor = stream[e].ack

\* No lost wake-up of the driver: a driver task that sleeps can be woken, has
\* nothing to handle or to send, a socket that lives, and a timer running for
\* what is unacked.
SleepingDriver ==
  \A e \in End :
     driver[e] = "running" /\ phase[e] # "incoming" /\ ~ stream[e].scheduled =>
        /\ stream[e].drive_waker
        /\ recv_rx[e] = {} /\ ~ stream[e].rx_closed /\ stream[e].send_queue = {}
        /\ DOMAIN stream[e].outgoing # {} => stream[e].rto_timeout = "armed"

\* From s to t no counter goes down, and what is still to be acknowledged of
\* the packets numbered before is what it was: no packet that was acknowledged
\* is taken up again, and a number keeps its packet.
Onward(s, t) ==
  /\ s.seq <= t.seq /\ s.ack <= t.ack
  /\ s.remote_acked <= t.remote_acked /\ s.read_cursor <= t.read_cursor
  /\ \A i \in DOMAIN t.outgoing :
       i < s.seq => i \in DOMAIN s.outgoing /\ t.outgoing[i].packet = s.outgoing[i].packet

\* Acks that are late, repeated or overtaken, the reset of remote_ack with each
\* poll, timeouts and retransmissions take nothing back of what was sent,
\* received, acknowledged or read.
NothingTakenBack == [][\A e \in End : Onward(stream[e], stream'[e])]_vars

\* How often a packet was given to send_queue.
Attempts(out) == out.transmits + IF out.waiting THEN 0 ELSE 1

\* poll_check_timeouts tests transmits > UDX_MAX_TRANSMITS before counting,
\* and does not count the first transmission.
AttemptsBounded ==
  \A e \in End : \A i \in DOMAIN stream[e].outgoing :
     Attempts(stream[e].outgoing[i]) <= MAX_TRANSMITS + 2

\* close() resolves when the stream is drained: the peer has every byte.
CloseFlushes ==
  \A e \in End : \A c \in Closers :
     closing[e][c] = "resolved" =>
        \A i \in 0 .. (stream[e].seq - 1) : Got(stream[Peer(e)], i)

\* Dropping clones in any interleaving does not shut down a stream that is
\* still held: a running stream that close() was not called on is reset only
\* by a drop that leaves no handle.
ResetByLastDrop ==
  \A e \in End :
     /\ stream[e].error = "ConnectionReset" /\ driver[e] = "running"
     /\ \A c \in Closers : closing[e][c] = "none"
     => handles[e] = 0

\* Every write is acknowledged in the end or the stream fails, also when the
\* socket goes.
DrainsOrFails ==
  \A e \in End :
     (DOMAIN stream[e].outgoing # {}) ~>
        (DOMAIN stream[e].outgoing = {} \/ stream[e].error # "none")

\* A blocked writer is woken, by an ack or by the failure of the stream.
WriterWoken ==
  \A e \in End : stream[e].write_waker ~> ~ stream[e].write_waker

-----------------------------------------------------------------------------
(* What comments and tests of the repository say, and the code does not do *)

\* src/constants.rs: UDX_MAX_TRANSMITS is the "max transmit attempts per
\* packet".
AttemptsWithinMax ==
  \A e \in End : \A i \in DOMAIN stream[e].outgoing :
     Attempts(stream[e].outgoing[i]) <= MAX_TRANSMITS

\* src/stream.rs, in Drop: "Only the driver is left, shutdown."
LastDropCloses ==
  \A e \in End : handles[e] + dropping[e] = 0 => stream[e].error # "none"

\* The same comment: the driver of a stream without handles ends when its
\* packets are acknowledged.
AbandonedEnds ==
  \A e \in End :
     (handles[e] + dropping[e] = 0 /\ stream[e].rx_closed
        /\ DOMAIN stream[e].outgoing = {}) ~> driver[e] # "running"

\* README.md: the streams are "reliable".  A reader that would now be told
\* UnexpectedEof has been given every byte its peer wrote.
EofAfterAll ==
  \A e \in End :
     /\ stream[e].error = "UnexpectedEof" /\ phase[e] = "idle"
     /\ Run(stream[e]) = {}
     => delivered[e] = stream[Peer(e)].tx_bytes

\* tests/stream.rs: once close() has resolved, reads and writes at this end
\* fail with ConnectionReset, "stream closed".
ResolvedIsReset ==
  \A e \in End : \A c \in Closers :
     closing[e][c] = "resolved" => stream[e].error = "ConnectionReset"

\* tests/stream.rs, at close.await: "wait until closing is complete == all
\* packages flushed".  Once every packet is acknowledged, the future of
\* close() resolves.
CloseCompletes ==
  \A e \in End : \A c \in Closers :
     (closing[e][c] = "pending" /\ DOMAIN stream[e].outgoing = {})
        ~> closing[e][c] = "resolved"

=============================================================================
