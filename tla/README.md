# A TLA+ development of async-udx

async-udx carries reliable, ordered, congestion-controlled byte streams over UDP.
Many streams share one socket; each stream has a tokio task that drives it. This
directory models the code in TLA+, checks it on small instances with TLC, and proves
with TLAPS, for every value of the constants, the central safety properties and that
two connected streams implement an abstract byte stream.
Source paths below are relative to the root of the repository.

## The system

| Part | Source | State | Operations |
| --- | --- | --- | --- |
| Stream protocol | `src/stream.rs`, `UdxStreamInner` | sequence numbers (`seq`, `ack`, `remote_acked`, `read_cursor`), `outgoing` (unacknowledged packets), `incoming` (received, unread), `send_queue`, `inflight`, `cwnd`, `rto_timeout`, wakers, `error`, `state`, `on_close` | `send_data_packet`, `send_state_packet`, `handle_incoming`, `handle_incoming_sacks`, `handle_incoming_max_remote_ack`, `poll_check_timeouts`, `flush_waiting_packets`, `poll_transmit`, `read_next`, `terminate` |
| Stream handle | `src/stream.rs`, `UdxStream` | the mutex, the number of clones | `connect`, `close`, `poll_read`, `poll_write`, `Drop` |
| Stream driver | `src/stream.rs`, `StreamDriver` | a task: woken, polled, finished | `poll` = `poll_incoming`, `poll_check_timeouts`, `flush_waiting_packets`, `poll_transmit` |
| Timer, RTT estimation | `src/stream.rs` | `rto_timeout`, `srtt`, `rttvar`, `rto` | in `handle_remote_ack_for_packet`, `poll_check_timeouts` |
| Socket driver | `src/socket.rs` | table of streams, queue of transmits and of packet sets, queue of datagrams, wakers | `bind`, `connect`, `poll_transmit`, `poll_recv`, `process_packet`, `Drop` |
| Datagram API | `src/socket.rs` | `recv_dgrams`, `recv_waker` | `send`, `recv` |
| Packets | `src/packet.rs`, `src/constants.rs` | `waiting`, `skip`, `transmits`, `time_sent` | `Header::encode`, `Header::from_bytes`, `PacketSet::to_transmit` |
| Errors | `src/error.rs` | – | – |
| Mutex | `src/mutex.rs` | – | a lock with timing logs |
| UDP | `udx-udp/src` | GSO support of the kernel | `sendmmsg`, `recvmmsg`, control messages |

How they interact. A write fills `outgoing` and `send_queue` under the stream's mutex
and wakes the driver. The driver, when polled, takes the packets the socket driver
received for the stream out of a channel, applies their acks, marks packets lost when
the timer has elapsed, queues those that fit the window again and hands `send_queue`
to the socket driver through a channel. The reader takes consecutive packets out of
`incoming` under the same mutex. `close` and `Drop` set `error`, send an END and leave
it to the driver to finish once everything is acknowledged.

What makes it hard. The network loses, repeats, delays and reorders packets. Three
parties (application, driver, socket) wake one another through single-slot wakers.
Four counters follow the contents of two buffers through acks, SACKs, timeouts and
retransmissions in any order. Closing involves two ends, two futures and the drop of
a task. `PROJECT.json` lists every such place with its line under `hazards`.

What must hold. The reader gets the bytes that were written, whole and in order; a
packet is forgotten only when the peer has it; acknowledged means received; counters
are exact; the congestion window holds; nobody sleeps on work; a write is acknowledged
or the stream fails, and fails only after long silence; `close()` resolves when, and
only when, the peer has everything; dropping clones of a handle ends a stream with the
last of them.

## Modules

| Module | Models |
| --- | --- |
| `UdxStream` | a stream as a record, and every method of `UdxStreamInner` as an operator from the stream before the call to the stream after it |
| `UdxConn` | two connected streams: application, driver task, timer and network of each end, as actions that call the operators of `UdxStream`; their properties |
| `ByteStream` | what a connection promises: two byte streams, each four cursors into the bytes written |
| `UdxBytes` | the refinement mapping from `UdxConn` to `ByteStream` |
| `UdxTimer` | the retransmission timer and the round trip estimator of one stream, on a clock |
| `UdxHeader` | the twenty bytes of a header and the datagram of a packet |
| `UdxSocket` | a socket: its driver, its handles, pending `recv()` calls, its table of streams and the channel of outgoing events |
| `UdxBatch` | from the send queue of a stream to datagrams: packet sets, the copy into one buffer, the kernel's segmentation |
| `MCConn`, `MCTimer`, `MCSocket`, `MCBatch` | the instances that TLC checks |
| `UdxStreamProofs` | lemmas: what each method of a stream keeps and changes, sums over consecutive packets, and what the receive window holds of the bytes written |
| `UdxConnProofs` | the inductive invariant of two connected streams and its theorems |
| `UdxDeliveryProofs` | the inductive invariant of the byte positions, and what the steps of the application and of `poll_incoming` make of it |
| `UdxBytesProofs` | the same for the steps of the driver; `IntactStream`, `BlockedReader` and the refinement |
| `UdxDriverProofs` | the inductive invariant of an end: its driver, its window, its closes and drops, and their theorems |
| `UdxTimerProofs` | the inductive invariant of the timer and its theorems |
| `UdxSocketProofs` | the inductive invariants of the socket and their theorems |
| `UdxPacketProofs` | the round-trip theorems of headers and packets; the inductive invariant of the send path and its theorems |

### `UdxStream`

The fields of the record are those of the struct, without addresses, ids, durations
and the statistics that only count upwards; `tx_bytes` stays, because it names the
position of the next byte. `scheduled` stands for the runtime: the driver task has
been woken and not yet been polled. `outgoing` and `incoming` are functions from
sequence numbers. A loop that removes packets one by one and adjusts counters on each
(`handle_incoming_max_remote_ack`, `handle_incoming_sacks`, `poll_check_timeouts`,
`flush_waiting_packets`, `read_next`) is one operator that says which packets the loop
reaches, and changes them at once. The early exits are in that set: `Exhausted` and
`Lost` for the error of `poll_check_timeouts`, which leaves the packets before the
exhausted one marked as lost; `Flushable` for the `break` of
`flush_waiting_packets`; the missing last range in `HandleIncomingSacks`, whose loop
condition is `i + 8 < buf.len()`.

A payload is an offset into the bytes its writer wrote and a length: enough to tell
whether the reader is given the right bytes. `Total` adds sizes by counting bytes; it
is a cardinality and not a recursive sum so that facts about it can be proved.

### `UdxConn`

| Action | Code |
| --- | --- |
| `PollWrite`, `PollWriteMore` | `poll_write`, one iteration of its loop per step |
| `Read` | `poll_read` and `read_next` |
| `Close` | `UdxStream::close` |
| `Clone`, `DropBegins`, `DropEnds` | the application's clones of the handle; a drop reads `strong_count` first and gives up its own reference last |
| `DriverPolls` | `StreamDriver::poll` up to the first iteration of `poll_incoming` |
| `PollIncoming` | one iteration of `poll_incoming`: `handle_incoming` |
| `Drive`, `DriveFails` | the rest of `poll_drive`, without and with the error TimedOut |
| `DriveBroken` | `poll_incoming` finds its channel closed: the error BrokenPipe |
| `DriverReturns`, `DriverDropBegins`, `DriverDropEnds` | the poll that finds the stream drained; the drop of the finished task and its handle |
| `TimerElapses` | the `Sleep` of `rto_timeout` |
| `Deliver` | network and socket: a packet reaches the channel of the stream |
| `SocketGone` | the socket drops the sender of the stream's channel: it is freed, or another `connect()` takes the id |
| `SendSack` | the C implementation as peer, which sends SACKs; async-udx only reads them |

`phase` says which loop holds the mutex of an end, so steps of the application and of
the driver of one end never interleave inside a critical section, while both ends,
timer and network do. `net[e]` is the set of all packets ever sent to `e`; `Deliver`
takes any of them, any number of times, at any later moment: loss, duplication, delay
and reordering in one. A packet that is never delivered is a lost one. `delivered` and
`intact` are history variables: how many bytes the reader was given and whether they
were the right ones. A reader whose call returned Pending passes the same buffer again
from its start, as `AsyncReadExt::read` does.

An end has several clones of its handle (`handles`), and those being dropped
(`dropping`): `Drop` tests `strong_count` and only afterwards gives up its reference, so
two drops, or a drop and the end of the driver task, overlap. The last reference frees
the stream and with it the sender in `on_close`.

### `ByteStream` and `UdxBytes`

`ByteStream` says what the users of a connection see, with no packets in it: bytes are
written to an open stream, arrive, are confirmed to the writer once they have arrived
and are read in order once they have arrived; an ended stream stays ended. `UdxBytes`
maps a connection to it: written is `tx_bytes`, received what was delivered and what
`poll_read` could deliver now, confirmed `tx_bytes - inflight_bytes`, read what was
delivered, provided it was the right bytes. The END, retransmissions, windows, wakers
and tasks map to stutters; one ack can confirm many packets, and a read, several.

### `UdxTimer`

`UdxConn` lets the timer elapse at any moment, which covers every duration but says
nothing about them. `UdxTimer` takes one stream that writes, with the same operators,
and a clock. A poll of the driver is `PollBegins`, an `AckNext` for every packet the ack
covers (the loop of `handle_incoming_max_remote_ack`, because each packet may give a
sample) and `PollEnds` or `PollFails`; no time passes within it. A poll may come at any
moment, as other wake-ups of the task make it. `Transmit` is the socket driver, which
stamps `time_sent` and may be late; a packet declared lost before it was sent is queued
twice. Acks are the peer's and may come any time after
`MIN_RTT`. The estimator divides integers, as `Duration` does with nanoseconds.

### `UdxHeader`

Buffers are sequences of bytes. `Encode` writes over the first twenty, `FromBytes` reads
them, `NewPacket` is the buffer of `Packet::new` and `Body` what `process_packet` leaves
of a datagram. `encode` cuts `typ` and `data_offset` to a byte; `Created` are the headers
`create_header` makes, which fit.

### `UdxSocket`

The driver's `poll` holds the lock of the socket from start to end, but network,
streams and the reference count do not need the lock. Each loop turn of `poll_recv` and
`poll_transmit` is therefore a step of its own, with the locals of `poll` in the record
`poll`; what needs the lock has the guard `Unlocked`.

| Action | Code |
| --- | --- |
| `Clone`, `DropBegins`, `DropEnds` | a handle; the drop reads `strong_count` first and gives up its own reference last |
| `Send`, `PollFuture` | `UdxSocket::send`, `RecvFuture::poll`; a `RecvFuture` holds a clone of the handle, so dropping that one gives up the call |
| `Connect`, `StreamTransmit`, `StreamFinishes`, `StreamFreed` | a stream as the socket sees it: inserted, sending, sending `StreamDropped`, and its channel closing |
| `PollStarts`, `PollEnds` | `SocketDriver::poll` |
| `PollRecv`, `PollRecvFails`, `ProcessPacket`, `OnRecvDgram` | `poll_recv`: a batch, then its messages one by one |
| `TakeEvent`, `BatchFilled`, `SendNothing`, `PollSend` | `poll_transmit`: the inner loop, its end, and `poll_send` Pending or Ok(n) |
| `Arrives`, `Writable` | network and kernel, through tokio's `AsyncFd` |

`wakers` holds who has a waker of the driver: socket read and write readiness, `send_rx`
and `drive_waker`. With `PartialSends` a send takes any non-empty prefix of the batch:
`sendmmsg` may do so, an error gives up the first message alone, and the code passes
only the first slice of its ring buffer. Otherwise a send takes the whole batch.
Two streams may be given the same id (`LocalId`), as `connect()` allows.

### `UdxBatch`

Two tasks: the stream's driver, which cuts its send queue into sets, and the socket's,
which copies a set into one buffer. Both loops are modelled turn by turn, because they
run beside each other: an acknowledgement may set `skip` while the set is being copied,
and an I/O error may lower `max_gso_segments` while the next one is being collected.

| Action | Code |
| --- | --- |
| `Queue`, `Retransmit` | `send_data_packet`, `send_state_packet`; `flush_waiting_packets` for a packet declared lost, which may still be waiting to be sent |
| `Acked` | `handle_remote_ack_for_packet` sets `skip` |
| `PollTransmit`, `PopFront`, `LoopEnds` | `UdxStreamInner::poll_transmit`: before, in and after its loop; the stream is locked meanwhile |
| `TakeSet`, `CopyPacket` | the socket's `poll_transmit` takes a set; `to_transmit` copies a packet |
| `Transmit`, `TransmitFails` | `sendmmsg` and the kernel's UDP_SEGMENT (`Segments`); a failure gives up the set |

A reference (`PacketRef`) is its place in the order of pushes to `send_queue`, and
`queued` says to which packet it refers: a retransmission is a second reference to the
same packet. A byte is a reference and an offset, so that a datagram that is not one
whole packet shows, and one that comes too early too.

## Runs

Deadlock is not checked: idle or closed streams and sockets have nothing to do, and the
clock stops at its bound.

| Run | Checks | Instance |
| --- | --- | --- |
| `data` | `TypeOK`, `InflightExact`, `IntactStream`, `WindowShape`, `BlockedReader`, `SleepingDriver`, `AckedIsReceived`, `ImplementsByteStream`, `NothingTakenBack` | two packets of 2 bytes, 2 in the channel of the reader, reads of 3, so that a read takes one packet and a part of the next |
| `close` | `CloseFlushes`, `ResetByLastDrop`, `SleepingDriver`, `BlockedReader` | 1 byte; `close()` at the end that writes, two clones and a socket that goes at the other |
| `sack` | `NothingForgotten` | 4 packets, so that the peer holds two ranges beyond gaps |
| `live` | `CwndRespected`, `AttemptsBounded`, `NothingTakenBack`, `DrainsOrFails`, `WriterWoken` | fair scheduling, packets of 1 byte, 3 to write in ones and twos, a window of two, 2 in the channel of the writer, so that a batch holds two acks |
| `timer` | `TypeOK`, `RtoWithinSamples`, `GivesUpLate`, `LossesSpaced` | 2 packets, 10 ticks, a smallest timeout of 2, a round trip of at least 1, one retransmission more than in the other runs |
| `socket_recv` | `SleepingSocket`, `ReceiverWoken` | a handle and two calls of `recv()`, together or in turn, no stream, 3 arrivals, 2 sends, whole sends |
| `socket_send` | `TypeOK`, `InOrder`, `SentAreStamped` | batches of 3, 4 submissions, partial sends, 2 arrivals for a receive queue of 1 |
| `socket_live` | `ChannelOpen`, `ServesStreams`, `SleepingSocket`, `Shutdown`, `Retried` | fair scheduling, one handle, two streams with ids of their own, an arrival for either, failing reads, whole sends |
| `wire` | `WireIntact`, `SentInOrder`, `Conserved` | 4 packets of two sizes, sets of up to 3, 2 retransmissions |

Bounds and why they are enough. The constants keep the ratio of the code: a new window
is two full packets, as `2 * UDX_MTU`. Two or three packets are enough for a gap, a
packet beyond it, a duplicate of either and a full window. `MAX_TRANSMITS`
is 0 (one retransmission) except where the limit is the question: a second
retransmission repeats the same steps. `SSTHRESH` is small enough that slow start and
congestion avoidance both occur. `RxCapacity` bounds what one poll can take from the
channel; two suffices for packets (`data`) and for acks (`live`) that arrive out of
order within a batch, and the proofs are about batches of any size. Sequence numbers are
naturals: the code's `u32` wraps after 2^32 packets, which no instance reaches.
For the socket, a batch of one message already fills, is Pending and goes on; three are
needed for a partial send of a batch that is not full. `MAX_LOOP` is small enough for
`poll_recv` to stop at it with messages left. `RECV_QUEUE_MAX_LEN` is small enough to
drop a datagram. For packet sets, four packets pass the limit of three, with and
without a change of size. For the timer, two packets let one be written while the other
waits for its retransmission, and ten ticks hold the timeouts after which a stream with
`MAX_TRANSMITS` 1 gives up.

Three runs show where the code departs from what the repository says of it
(`findings` in `PROJECT.json`):

| Run | Claim | What happens |
| --- | --- | --- |
| `eof` | "reliable" (`README.md`) | END overtakes data; the reader is told UnexpectedEof before it was given all bytes |
| `hang` | "wait until closing is complete == all packages flushed" (`tests/stream.rs`) | all packets acknowledged, timer elapsed: `close()` sends an END and the driver sleeps; when the END is lost nothing polls the driver again |
| `socket_partial` | "retry the remaining ones" (`udx-udp/src/unix.rs`) | a partial send with `send_rx` empty: the driver sleeps on the rest without interest in writing |

Thirteen more configurations each give TLC a counterexample of the same kind. They are kept
beside the runs, for instance `tlc -config MCSocket_race.cfg MCSocket`:

| Configuration | Property | Claim | What happens |
| --- | --- | --- | --- |
| `MCConn_short.cfg` | `IntactStream` | "reliable" (`README.md`) | a packet larger than the read buffer: `read_next` puts bytes into the buffer and moves the offset, but the call is Pending; the bytes are lost |
| `MCConn_race.cfg` | `LastDropCloses` | "Only the driver is left, shutdown." (`src/stream.rs`) | two clones dropped at once both read 3; nobody terminates the stream |
| `MCConn_spin.cfg` | `AbandonedEnds` | the same comment | a stream whose socket is gone fails in `poll_incoming` before it can send its END: it is never drained and its driver polls itself for ever |
| `MCTimer_sample.cfg` | `SamplesAreRoundTrips` | "First round trip time sample" (`src/stream.rs`) | only packets declared lost once are measured, from their second transmission; the ack of the first gives a sample of no time at all |
| `MCTimer_early.cfg` | `LostAfterTimeout` | "Consider all packet losts" after a timeout (`src/stream.rs`) | an idle stream's timer has elapsed: a packet is declared lost in the poll that sends it |
| `MCConn_attempts.cfg` | `AttemptsWithinMax` | "Max transmit attempts per packet" (`src/constants.rs`) | the limit is tested before counting and the first transmission is not counted: a packet is sent up to `UDX_MAX_TRANSMITS + 2` times (`AttemptsBounded` checks that bound) |
| `MCConn_reset.cfg` | `ResolvedIsReset` | ConnectionReset after close (`tests/stream.rs`) | the peer's END overwrites the error with UnexpectedEof until the finished driver task is dropped |
| `MCConn_reclose.cfg` | `CloseFlushes` | "closing is complete == all packages flushed" (`tests/stream.rs`) | a second `close()` drops the first one's sender and so resolves its future with packets unacknowledged |
| `MCSocket_reconnect.cfg` | `ChannelOpen` | "received packet for nonexisting stream." (`src/socket.rs`) | a closed stream's `StreamDropped` names only the id; a stream connected with that id meanwhile is removed |
| `MCSocket_stamp.cfg` | `StampedAreSent` | "update packet sent time for data packets." (`src/socket.rs`) | sets are stamped by the number of messages sent; after a datagram and a partial send a set that is still queued is stamped |
| `MCSocket_race.cfg` | `Shutdown` | "Only the driver is left, shutdown." (`src/socket.rs`) | two handles dropped at once both read 3; the driver never ends |
| `MCBatch_limit.cfg` | `SetsWithinLimit` | "may not be larger than max_segments" (`src/packet.rs`) | an EIO lowers the limit while larger sets wait |
| `MCBatch_empty.cfg` | `NothingForAcked` | "we need to remove it from the queue" (`src/stream.rs`) | an acknowledged packet alone in its set is sent as an empty datagram, which the peer hands to `recv()` |

Five properties hold in the runs and fail in a larger instance: `IntactStream` (`data`
has buffers of a full packet), `CloseFlushes` (`close` has one `close()` per end),
`ChannelOpen` (`socket_live` has distinct ids), and `Shutdown` and `Retried`
(`socket_live` has one handle and whole sends). `ResolvedIsReset` fails although the
test passes: the test reads the error after the driver task was dropped.

### Fairness

`FairSpec` assumes that the runtime polls a task that was woken, that a thread inside
a critical section leaves it, that a finished task is dropped and that an armed timer
elapses. This is what tokio and the operating system provide. Nothing is assumed of
the network, the reader or the writer: `DrainsOrFails` holds when no packet arrives.
The first assumption is weak fairness of `DriverNext(e) \/ PollWriteMore(e)`, spelt
out with `TaskReady` and `TaskMoves`.

For the socket: the runtime polls the driver when woken and a poll goes on to its end
(weak fairness of `DriverNext`), a drop that has begun ends, and the kernel makes room:
it reports room to those who asked (`Writable`) and does not refuse forever (strong
fairness of `PollSend`, since every refusal disables it for a while). Nothing is assumed
of the network, the handles or the streams.

## Theorems

Two connected streams, from `ConstantsAssumption` and `EndsAssumption` (sizes are natural
numbers, payloads may be non-empty, there are two ends), for every value of the constants:

| Theorem | Statement |
| --- | --- |
| `TypeCorrect` | `Spec => []TypeOK`; in particular no unsigned counter underflows |
| `CountersCorrect` | `Spec => []InflightExact` |
| `WindowCorrect` | `Spec => []WindowShape` |
| `AcksCorrect` | `Spec => []AckedIsReceived` |
| `RetransmissionCorrect` | `Spec => []NothingForgotten` |
| `NoneTakenBack` | `Spec => NothingTakenBack`, an action property |
| `Invariance` | `Spec => []IInv`, from which the others follow |

The argument. None of these is inductive alone: `AckedIsReceived` depends on what
packets in flight say, and underflow of `inflight` on what `outgoing` holds. `IInv`
adds that every packet in the network, in a channel, in a send queue or in `outgoing`
is `Truthful`: it acknowledges no more than its sender has received, its SACK ranges
lie within what its sender holds, its number is below its sender's `seq`. A packet
that was true stays true because what an end has got only grows (`Grows`,
`TruthfulGrows`): this is why delay and duplication do no harm. `SideOK` gathers what
holds at each end, `EnvironmentOK` the rest. `UdxStreamProofs` shows for every method
which fields it changes and that it keeps types, counters and window; `UdxConnProofs`
has one lemma per action. Each shows that the step keeps `IInv` and moves both streams
`Onward` (`StepOK`), which gives `NextIInv` and the action property `NothingTakenBack`:
a late ack is smaller than what `remote_acked` holds already, and only
`send_data_packet` puts a packet into `outgoing`, under a new number.

The bytes, from the same assumptions, in `UdxDeliveryProofs` and `UdxBytesProofs`:

| Theorem | Statement |
| --- | --- |
| `ReadsWhatWasWritten` | `Spec => []IntactStream`, if readers pass buffers of a full packet (`FullBuffers`) |
| `Refinement` | `Spec => ImplementsByteStream`, if moreover nobody sends SACKs |
| `ReaderIsWoken` | `Spec => []BlockedReader`, if readers pass buffers of a full packet |
| `BytesInvariance` | `Spec => []BInv`, from which these follow |

`IntactStream` needs to know which bytes a packet carries. `BInv` says that for each
direction there is a cut `off` of the bytes written: packet `i`, wherever a copy of it is
(in `outgoing`, a send queue, the network, the peer's window), carries the bytes from
`off[i]` to `off[i + 1]` (`Layout`), and the reader has been given the bytes up to its
place in packet `read_cursor` (`Reading`). The cut is an existential, extended by
each write and otherwise kept: a retransmission is a copy. That the bytes between
`read_cursor` and `ack` add up to a difference of `off` is a fact about sums over
intervals (`Telescope` in `UdxStreamProofs`), proved by minimal counterexample, since the prover has no
induction. Every action is one of four kinds of step (`Keeps`, `Sends`, `Takes`, `Read`);
each kind keeps `BInv` and maps to a step or a stutter of `ByteStream`. `FullBuffers`
cannot be left out (`MCConn_short.cfg`). With SACKs the theorem `Refinement` would be
false as stated: a SACK confirms bytes beyond a gap, which no cursor describes.

`BlockedReader` has two halves. That no step but `poll_read` makes a reader wait, and that
a step which moves `ack` or ends the stream takes the waker with it, is `NextWaits` in
`UdxConnProofs`. That `poll_read` registers only on an empty window needs `BInv`: a
packet in the window is no larger than the buffer, so a call that read no whole packet
had none.

Driver, window, closing and dropping, from the same assumptions, in `UdxDriverProofs`:

| Theorem | Statement |
| --- | --- |
| `DriverIsWoken` | `Spec => []SleepingDriver` |
| `WindowIsKept` | `Spec => []CwndRespected` |
| `AttemptsEnd` | `Spec => []AttemptsBounded` |
| `HeldIsNotReset` | `Spec => []ResetByLastDrop` |
| `CloseWaits` | `Spec => []CloseFlushes`, if `close()` is called at most once at an end (`OneCloser`) |
| `EndsInvariance` | `Spec => []EndsOK`, from which the others follow |

`EndOK` is about one end. A running driver that is neither being polled nor scheduled is
`Asleep`: it can be woken and has nothing to do. Every method that queues a packet wakes
the driver, so a driver that could be woken is scheduled afterwards; in the middle of a
poll nothing is required, because the poll ends with `Asleep` or with the driver
scheduled. The bound on `inflight` says nothing while a stream is failing, and is restored
after a timeout because `poll_check_timeouts` takes all of `outgoing` out of flight before
`flush_waiting_packets` fills the halved window. A driver that is not running, and a
`close()` that has resolved, mean that `outgoing` is empty; with `NothingForgotten` this
is `CloseFlushes`. A stream reset without `close()` has no handle left, because
`strong_count` was at most 2 and the driver counts as one. `OneCloser` cannot be left out
(`MCConn_reclose.cfg`).

The timer, from `ConstantsAssumption` and `TimeAssumption`, for any number of packets,
any timeouts and any running time, in `UdxTimerProofs`:

| Theorem | Statement |
| --- | --- |
| `TimerTypes` | `Spec => []TypeOK` |
| `RtoBounded` | `Spec => []RtoWithinSamples` |
| `LossesAreSpaced` | `Spec => LossesSpaced` |
| `PatientStream` | `Spec => GivesUpLate` |
| `TimerInvariance` | `Spec => []TInv`, from which the others follow |

`TInv` adds to the types that the deadline is at least a timeout after the last ack or
timeout (`quiet_since`), that `srtt` and `rttvar` are within the longest sample, and that
a packet declared lost `k` times was written at least `k - 1` of the smallest timeouts
before the last timeout: the elapsed timer of an idle stream gives away one, no more.

The header, in `UdxPacketProofs`, for all field values and buffers:

| Theorem | Statement |
| --- | --- |
| `HeaderRoundTrip` | `from_bytes` gives back what `encode` wrote, whatever else the buffer holds |
| `PacketRoundTrip` | a datagram of `Packet::new` is taken apart into the same header and body |
| `NothingLost` | encoding a decoded header over its buffer changes nothing: no byte is ignored |

They rest on what `to_le_bytes` and `from_le_bytes` do to a number of four bytes
(`LeBytes`, `BytesLe`).

The send path, in `UdxPacketProofs`, from `BatchAssumption` (positive limits, packets of
at least a header), for any sizes, limits and numbers of packets and retransmissions:

| Theorem | Statement |
| --- | --- |
| `DatagramsIntact` | `Spec => []WireIntact` |
| `DatagramsInOrder` | `Spec => []SentInOrder` |
| `PacketsConserved` | `Spec => []Conserved` |
| `BatchInvariance` | `Spec => []BatchInv`, from which the others follow |

`BatchInv` places every reference. There are cuts `done <= c[0] <= ... <= c[n]` such that
the wire has references up to `done`, the set being copied those from there to `c[0]`
(`Copying`), the `i`-th set in the channel those from `c[i - 1]` to `c[i]` (`Chain`), the
set being collected the next ones and `send_queue` the rest (`Collecting`). Each is a run
of consecutive numbers, so nothing is lost, repeated or overtaken. The packets of a set
have its segment size (`Even`), hence what is left of it after skipping fills the buffer
with pieces of that size (`Holds`), and cutting it by size gives them back (`Cutting`).
The runs take the place of an induction over flattened sequences.

The socket, from `SocketAssumption` (positive batch size, `MAX_LOOP` at least 2, finitely
many handles), for any number of handles, calls and streams:

| Theorem | Statement |
| --- | --- |
| `SocketTypeCorrect` | `Spec => []TypeOK`: types, and the capacities of the queues |
| `StampsCorrect` | `Spec => []SentAreStamped` |
| `ChannelsCorrect` | `Spec => []ChannelOpen`, if no two streams have the same local id (`Distinct`) |
| `StreamsServed` | `Spec => []ServesStreams`, under the same condition |
| `SocketIsWoken` | `Spec => []SleepingSocket`, if every send takes the whole batch (`~PartialSends`) |
| `ReceiverIsWoken` | `Spec => ReceiverWoken`, which is `[]OneWaits => []WaitsForNothing`: any number of calls of `recv()`, of which no two wait at the same time |
| `SentOnceInOrder` | `Spec => []InOrder` |

`StampsCorrect` needs `StampInv`: a queued packet that is not stamped has its set at its
own place in `outgoing_packet_sets` or before it, so stamping as many sets as messages
were sent reaches it. `ChannelsCorrect` needs `ChannelInv`: an open stream is found under
its id, and each `StreamDropped` on its way names a stream that has closed. `MCSocket_reconnect.cfg`
shows that `Distinct` cannot be left out. `StreamsServed` adds
`EndInv`: `has_refs` goes with the last live handle (a fact about the cardinality that
`strong_count` reads), so that nobody can connect after the driver is done.
`SocketIsWoken` needs `SleepInv`, which says what each part of a poll leaves to the next
ones: from the end of `poll_recv` on, the driver is to be polled again or its waker is
with the empty UDP socket (`Reads`); `send_rx` was found empty and has its waker, or the
batch has something to send; after the send, the driver waits for room or for an event
(`Sends`). What others do meanwhile wakes it (`OthersWake`). `MCSocket_partial.cfg` shows
that whole sends cannot be left out of the premise. `ReceiverIsWoken` needs
`ReceiveInv`: a waiting call has its waker in `recv_waker`, whatever calls before it left
there; a second one that waits would take its place.

`SentOnceInOrder` says of a queue with other events in it which submissions it holds and
that they rise (`Follows`), which each push and each take keeps, whatever lies between.

Only model-checked: the liveness properties (`DrainsOrFails`, `WriterWoken`, `Shutdown`,
`Retried`), which are out of the prover's reach. Every safety property of the runs is
proved, some under a premise that the tables name and that a configuration above shows
to be needed: `FullBuffers`, `OneCloser`, `Distinct`, whole sends. `OneWaits`
stands for what the code supports, a single `recv_waker`; two calls that wait at the same
time are outside `ReceiverWoken`. SACKs are left out of `Refinement` alone.

## Not modelled

- The socket inside `UdxConn`, which sees a network in its place, and the
  `unimplemented!()` of `poll_transmit`: it needs the socket to be freed between
  `poll_incoming` and `poll_transmit` of one poll, and `SocketGone` is one step.
- The overflow timer of the socket: no `poll_send` returns the error that starts it.
  Socket statistics.
- Control messages (`udx-udp/src/cmsg.rs`), which lay out `cmsghdr` structures with
  libc's macros in a buffer on the stack: pointer arithmetic on a layout that the
  repository does not define. Likewise the other system calls, ECN, addresses, socket
  options, and the variants for macOS and other platforms, which send and receive one
  message at a time.
- Wrap-around of `u32` sequence numbers: the models describe a stream up to 2^32 packets.
  The code compares and increments without regard to it (a debug build panics, a release
  build wraps), so there is no arithmetic of the code to check beyond that point.
- The instrumented mutex (`src/mutex.rs`), which logs how long a lock is held or waited
  for: it is a mutex, and that is the atomicity of the actions. Several readers or
  writers of one stream that share its single-slot wakers.
- `poll_flush` and `poll_shutdown`, which do nothing; logging; the C implementation
  beyond the SACKs it sends; examples, benchmarks and the end-to-end programs, which use
  the library and hold no protocol state.

## Plan

1. The wakers of several readers and writers of one stream.
2. `UdxSocket` and two `UdxConn` ends in one module, when an instance that is small
   enough for TLC still shows more than the two apart.
