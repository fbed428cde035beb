-------------------------- MODULE UdxStreamProofs --------------------------
(***************************************************************************)
(* What the methods of a stream (module UdxStream) do to it: lemmas about  *)
(* single calls, for streams of any size; how the writer's bytes are cut   *)
(* into packets, and that the packets between read_cursor and ack hold the *)
(* bytes that follow those already read.                                   *)
(***************************************************************************)
EXTENDS UdxStream, FiniteSetTheorems, WellFoundedInduction, TLAPS

-----------------------------------------------------------------------------
(* Arithmetic of finite sets *)

\* The order of the naturals, and the numbers of an interval.
LEMMA LeqRefl ==
  \A x \in Nat : x <= x /\ 0 <= x
  OBVIOUS

\* The order of the naturals is transitive.
LEMMA LeqTrans ==
  \A x, y, z \in Nat : x <= y /\ y <= z => x <= z
  OBVIOUS

\* The order of the naturals is transitive, the strict form.
LEMMA LessLeq ==
  \A x, y, z \in Nat : x < y /\ y <= z => x < z
  OBVIOUS

\* A natural and the next one.
LEMMA NextNat ==
  \A x \in Nat : x + 1 \in Nat /\ x <= x + 1 /\ x < x + 1
  OBVIOUS

\* A natural that is not zero.
LEMMA PositiveNat ==
  \A x \in Nat : /\ x > 0 <=> x # 0
                 /\ x > 0 => x - 1 \in Nat
  OBVIOUS

\* The empty sequence has no positions.
LEMMA NoPositions ==
  Len(<<>>) = 0 /\ 1 .. Len(<<>>) = {}
  OBVIOUS

\* The numbers of an interval of naturals that leaves out its end.
LEMMA InInterval ==
  \A x, y, i \in Nat : x <= i /\ i < y => i \in x .. (y - 1)
  OBVIOUS

\* An interval grows by one number.
LEMMA NextInterval ==
  \A y \in Nat : \A i \in 0 .. ((y + 1) - 1) : i = y \/ i \in 0 .. (y - 1)
  OBVIOUS

\* A non-empty set of naturals has a least element.
LEMMA LeastElement ==
  ASSUME NEW T, T \subseteq Nat, T # {}
  PROVE  \E x \in T : \A y \in T : x <= y
<1>1. PICK x \in T : \A y \in T : ~ (<<y, x>> \in OpToRel(<, Nat))
  BY ZenonT(30), NatLessThanWellFounded, WFMin
<1>2. \A y \in T : ~ (y < x)
  BY ZenonT(30), <1>1 DEF OpToRel
<1> QED BY <1>2

\* NextGap, which models the loop that advances ack, stops at the first
\* number that is not in D.
LEMMA NextGapProperties ==
  ASSUME NEW D, D \subseteq Nat, IsFiniteSet(D), NEW a \in Nat
  PROVE  /\ NextGap(D, a) \in Nat
         /\ a <= NextGap(D, a)
         /\ NextGap(D, a) \notin D
         /\ a .. (NextGap(D, a) - 1) \subseteq D
<1> DEFINE c == Cardinality(D)
           T == (a .. (a + c)) \ D
<1>1. c \in Nat
  BY FS_CardinalityType
<1>2. T # {}
  <2> SUFFICES ASSUME a .. (a + c) \subseteq D PROVE FALSE
    OBVIOUS
  <2>1. Cardinality(a .. (a + c)) <= c
    BY ZenonT(30), FS_Subset
  <2>2. Cardinality(a .. (a + c)) = c + 1
    <3> HIDE DEF c
    <3>1. a \in Int /\ a + c \in Int
      BY <1>1
    <3> QED BY <1>1, <3>1, FS_Interval
  <2> QED BY <1>1, <2>1, <2>2
<1>3. \E x \in T : \A y \in T : x <= y
  <2>1. T \subseteq Nat
    BY <1>1
  <2> QED BY ZenonT(30), <1>2, <2>1, LeastElement
<1>4. NextGap(D, a) \in T /\ \A y \in T : NextGap(D, a) <= y
  BY <1>3 DEF NextGap, Min
<1> QED BY <1>1, <1>4

\* A finite set that with a number contains all smaller ones from a on is an
\* interval from a on.
LEMMA InitialSegment ==
  ASSUME NEW D, D \subseteq Nat, IsFiniteSet(D), NEW a \in Nat,
         \A k \in D : a <= k /\ a .. k \subseteq D
  PROVE  D = a .. (a + Cardinality(D) - 1)
<1> DEFINE n == NextGap(D, a)
<1>1. n \in Nat /\ a <= n /\ n \notin D /\ a .. (n - 1) \subseteq D
  BY ZenonT(30), NextGapProperties
<1>2. D = a .. (n - 1)
  <2> HIDE DEF n
  <2> SUFFICES ASSUME NEW k \in D PROVE k \in a .. (n - 1)
    BY ZenonT(30), <1>1
  <2> QED BY <1>1
<1>3. Cardinality(D) = n - a
  <2> HIDE DEF n
  <2>1. n - 1 \in Int /\ a \in Int
    BY <1>1
  <2>2. Cardinality(a .. (n - 1)) = IF a > n - 1 THEN 0 ELSE (n - 1) - a + 1
    BY <2>1, FS_Interval
  <2> QED BY <1>1, <1>2, <2>2
<1> QED BY <1>1, <1>2, <1>3

\* A finite set of packets has finitely many bytes to count.
LEMMA BytesFinite ==
  ASSUME NEW S, IsFiniteSet(S), NEW f
  PROVE  IsFiniteSet(Bytes(S, f)) /\ Total(S, f) \in Nat
<1>1. MTU \in Nat
  BY ConstantsAssumption DEF MTU
<1>2. IsFiniteSet(1 .. MTU)
  BY <1>1, FS_Interval
<1>3. IsFiniteSet(S \X (1 .. MTU))
  BY ZenonT(30), <1>2, FS_Product
<1>4. IsFiniteSet(Bytes(S, f))
  BY <1>3, FS_Subset DEF Bytes
<1> QED BY <1>4, FS_CardinalityType DEF Total

\* Total depends on the sizes of the packets in S only.
LEMMA TotalExtensional ==
  ASSUME NEW S, NEW f, NEW g, \A i \in S : f[i] = g[i]
  PROVE  Total(S, f) = Total(S, g)
<1>1. Bytes(S, f) = Bytes(S, g)
  BY DEF Bytes
<1> QED BY <1>1 DEF Total

\* Removing packets subtracts their sizes.
LEMMA TotalRemove ==
  ASSUME NEW S, IsFiniteSet(S), NEW T, T \subseteq S, NEW f
  PROVE  /\ Total(T, f) \in Nat
         /\ Total(T, f) <= Total(S, f)
         /\ Total(S \ T, f) = Total(S, f) - Total(T, f)
<1>1. IsFiniteSet(T) /\ IsFiniteSet(S \ T)
  BY FS_Subset
<1>2. /\ IsFiniteSet(Bytes(S, f)) /\ IsFiniteSet(Bytes(T, f))
      /\ IsFiniteSet(Bytes(S \ T, f))
      /\ Total(S, f) \in Nat /\ Total(T, f) \in Nat /\ Total(S \ T, f) \in Nat
  BY <1>1, BytesFinite
<1>3. /\ Bytes(S, f) = Bytes(T, f) \cup Bytes(S \ T, f)
      /\ Bytes(T, f) \cap Bytes(S \ T, f) = {}
  BY DEF Bytes
<1>4. Total(S, f) = Total(T, f) + Total(S \ T, f)
  <2> DEFINE A == Bytes(T, f)
             B == Bytes(S \ T, f)
  <2>1. Cardinality(A \cup B) = Cardinality(A) + Cardinality(B) - Cardinality(A \cap B)
    <3> HIDE DEF A, B
    <3> QED BY ZenonT(30), <1>2, FS_Union DEF A, B
  <2>2. Cardinality(A \cap B) = 0
    BY <1>3, FS_EmptySet
  <2> QED BY <1>2, <1>3, <2>1, <2>2 DEF Total
<1> QED BY <1>2, <1>4

\* The sum over one packet is the size of that packet.
LEMMA TotalSingleton ==
  ASSUME NEW i, NEW f, f[i] \in 0 .. MTU
  PROVE  Total({i}, f) = f[i]
<1>1. MTU \in Nat
  BY ConstantsAssumption DEF MTU
<1>2. PICK n \in 0 .. MTU : n = f[i]
  OBVIOUS
<1>3. n \in Nat
  BY <1>1
<1>4. Bytes({i}, f) = {i} \X (1 .. n)
  BY <1>1, <1>2 DEF Bytes
<1>5. IsFiniteSet(1 .. n) /\ Cardinality(1 .. n) = n
  <2>1. /\ IsFiniteSet(1 .. n)
        /\ Cardinality(1 .. n) = IF 1 > n THEN 0 ELSE n - 1 + 1
    BY <1>3, FS_Interval
  <2> QED BY <1>3, <2>1
<1>6. IsFiniteSet({i}) /\ Cardinality({i}) = 1
  BY ZenonT(30), FS_Singleton
<1>7. Cardinality({i} \X (1 .. n)) = 1 * n
  BY <1>5, <1>6, FS_Product, ZenonT(30)
<1>8. Cardinality(Bytes({i}, f)) = 1 * n
  BY <1>4, <1>7
<1>9. 1 * n = n
  BY <1>3
<1> QED BY <1>2, <1>8, <1>9 DEF Total

\* Adding a packet adds its size.
LEMMA TotalAdd ==
  ASSUME NEW S, IsFiniteSet(S), NEW i, i \notin S, NEW f, f[i] \in 0 .. MTU
  PROVE  Total(S \cup {i}, f) = Total(S, f) + f[i]
<1>1. IsFiniteSet(S \cup {i})
  BY FS_AddElement
<1>2. Total((S \cup {i}) \ {i}, f) = Total(S \cup {i}, f) - Total({i}, f)
  BY <1>1, TotalRemove
<1>3. (S \cup {i}) \ {i} = S
  OBVIOUS
<1>4. Total({i}, f) = f[i]
  BY TotalSingleton
<1>5. Total(S, f) \in Nat /\ Total(S \cup {i}, f) \in Nat /\ f[i] \in Int
  BY <1>1, BytesFinite, ConstantsAssumption DEF MTU
<1> QED BY <1>2, <1>3, <1>4, <1>5

-----------------------------------------------------------------------------
(* Maps keyed by sequence numbers *)

\* Inserting into outgoing or incoming keeps them maps.
LEMMA InsertMap ==
  ASSUME NEW f, NEW T, IsMapTo(f, T), NEW k \in Nat, NEW v \in T
  PROVE  IsMapTo(Insert(f, k, v), T)
<1>1. IsFiniteSet(DOMAIN f \cup {k})
  BY ZenonT(30), FS_AddElement DEF IsMapTo
<1>2. /\ DOMAIN Insert(f, k, v) = DOMAIN f \cup {k}
      /\ \A i \in DOMAIN f \cup {k} :
            Insert(f, k, v)[i] = IF i = k THEN v ELSE f[i]
      /\ Insert(f, k, v) = [i \in DOMAIN Insert(f, k, v) |-> Insert(f, k, v)[i]]
  BY DEF Insert
<1> QED BY <1>1, <1>2 DEF IsMapTo

-----------------------------------------------------------------------------
(* Methods that queue a packet *)

\* create_packet makes a packet.
LEMMA CreatePacketType ==
  ASSUME NEW s, StreamOK(s), NEW typ \in SUBSET Flags, NEW off \in Nat, NEW len \in Nat
  PROVE  CreatePacket(s, typ, off, len) \in Packet
<1>1. <<>> \in Seq(Nat \X Nat)
  OBVIOUS
<1>2. (IF LocalClosed(s.state) THEN typ \cap {"END"} ELSE typ) \in SUBSET Flags
  OBVIOUS
<1>3. s.seq \in Nat /\ s.ack \in Nat
  BY DEF StreamOK
<1> QED BY <1>1, <1>2, <1>3 DEF CreatePacket, Packet

\* wake_driver changes the waker and the schedule of the driver only.
LEMMA WakeDriverFrame ==
  ASSUME NEW s, DOMAIN s = StreamFields
  PROVE  /\ DOMAIN WakeDriver(s) = StreamFields
         /\ \A f \in StreamFields \ {"drive_waker", "scheduled"} :
               WakeDriver(s)[f] = s[f]
         /\ s.drive_waker \in BOOLEAN => WakeDriver(s).drive_waker \in BOOLEAN
         /\ s.scheduled \in BOOLEAN => WakeDriver(s).scheduled \in BOOLEAN
BY ZenonT(30) DEF StreamFields, WakeDriver

\* send_state_packet queues one packet, a bare ack or an END, and wakes the
\* driver.
LEMMA SendStatePacketFrame ==
  ASSUME NEW s, StreamOK(s)
  PROVE  /\ StreamOK(SendStatePacket(s))
         /\ \A f \in StreamFields \ {"drive_waker", "scheduled", "send_queue"} :
               SendStatePacket(s)[f] = s[f]
         /\ \E p \in Packet :
               /\ SendStatePacket(s).send_queue = s.send_queue \cup {p}
               /\ p.typ \subseteq {"END"} /\ p.ack = s.ack /\ p.sacks = <<>>
<1> DEFINE typ == IF s.error # "none" THEN {"END"} ELSE {}
           p == CreatePacket(s, typ, 0, 0)
           t == [s EXCEPT !.send_queue = @ \cup {p}]
<1>1. typ \in SUBSET Flags
  BY DEF Flags
<1>2. p \in Packet /\ p.ack = s.ack /\ p.sacks = <<>> /\ p.typ \subseteq {"END"}
  BY ZenonT(30), <1>1, CreatePacketType DEF CreatePacket
<1>3. SendStatePacket(s) = WakeDriver(t)
  BY DEF SendStatePacket
<1> HIDE DEF p
<1>4. /\ DOMAIN t = StreamFields /\ t.send_queue = s.send_queue \cup {p}
      /\ \A f \in StreamFields \ {"send_queue"} : t[f] = s[f]
  BY DEF StreamOK, StreamFields
<1> HIDE DEF t
<1>5. /\ DOMAIN WakeDriver(t) = StreamFields
      /\ WakeDriver(t).send_queue = s.send_queue \cup {p}
      /\ \A f \in StreamFields \ {"drive_waker", "scheduled", "send_queue"} :
            WakeDriver(t)[f] = s[f]
      /\ WakeDriver(t).drive_waker \in BOOLEAN
      /\ WakeDriver(t).scheduled \in BOOLEAN
  BY <1>4, WakeDriverFrame DEF StreamFields, StreamOK
<1>6. StreamOK(WakeDriver(t))
  BY SMTT(30), <1>2, <1>5 DEF StreamOK, StreamFields
<1> QED BY <1>2, <1>3, <1>5, <1>6

\* terminate touches no packet, number or counter: it sets error and state,
\* queues an END and wakes everyone.
LEMMA TerminateFrame ==
  ASSUME NEW s, StreamOK(s), NEW err \in Errors
  PROVE  /\ StreamOK(Terminate(s, err))
         /\ Terminate(s, err).error = err
         /\ \A f \in StreamFields \ {"drive_waker", "scheduled", "send_queue", "error",
                                     "state", "read_waker", "write_waker"} :
               Terminate(s, err)[f] = s[f]
         /\ \A q \in Terminate(s, err).send_queue :
               \/ q \in s.send_queue
               \/ (q.typ \subseteq {"END"} /\ q.ack = s.ack /\ q.sacks = <<>>)
<1> DEFINE s0 == [s EXCEPT !.error = err, !.state = CloseLocal(@)]
           s1 == SendStatePacket(s0)
           s2 == [s1 EXCEPT !.read_waker = FALSE, !.write_waker = FALSE]
<1>1. Terminate(s, err) = WakeDriver(s2)
  BY DEF Terminate
<1>2. /\ StreamOK(s0) /\ s0.error = err
      /\ \A f \in StreamFields \ {"error", "state"} : s0[f] = s[f]
  <2>1. CloseLocal(s.state) \in StreamStates
    BY DEF CloseLocal, StreamStates
  <2> QED BY ZenonT(30), <2>1 DEF StreamOK, StreamFields
<1> HIDE DEF s0
<1>3. /\ StreamOK(s1) /\ s1.error = err
      /\ \A f \in StreamFields \ {"drive_waker", "scheduled", "send_queue",
                                  "error", "state"} : s1[f] = s[f]
      /\ \E p \in Packet : /\ s1.send_queue = s.send_queue \cup {p}
                           /\ p.typ \subseteq {"END"} /\ p.ack = s.ack /\ p.sacks = <<>>
  <2>1. s0.ack = s.ack /\ s0.send_queue = s.send_queue
    BY <1>2 DEF StreamFields
  <2>2. /\ StreamOK(s1)
        /\ \A f \in StreamFields \ {"drive_waker", "scheduled", "send_queue"} : s1[f] = s0[f]
        /\ \E p \in Packet : /\ s1.send_queue = s0.send_queue \cup {p}
                             /\ p.typ \subseteq {"END"} /\ p.ack = s0.ack /\ p.sacks = <<>>
    BY ZenonT(30), <1>2, SendStatePacketFrame
  <2> HIDE DEF s1
  <2>3. s1.error = err
    BY <1>2, <2>2 DEF StreamFields
  <2>4. \A f \in StreamFields \ {"drive_waker", "scheduled", "send_queue", "error", "state"} :
           s1[f] = s[f]
    BY <1>2, <2>2
  <2> QED BY <2>1, <2>2, <2>3, <2>4
<1> HIDE DEF s1
<1>4. /\ StreamOK(s2)
      /\ \A f \in StreamFields \ {"read_waker", "write_waker"} : s2[f] = s1[f]
  BY ZenonT(30), <1>3 DEF StreamOK, StreamFields
<1> HIDE DEF s2
<1>5. /\ DOMAIN WakeDriver(s2) = StreamFields
      /\ \A f \in StreamFields \ {"drive_waker", "scheduled"} : WakeDriver(s2)[f] = s2[f]
      /\ WakeDriver(s2).drive_waker \in BOOLEAN /\ WakeDriver(s2).scheduled \in BOOLEAN
  BY <1>4, WakeDriverFrame DEF StreamOK
<1>6. StreamOK(WakeDriver(s2))
  BY <1>4, <1>5 DEF StreamOK, StreamFields
<1>7. WakeDriver(s2).error = err /\ WakeDriver(s2).send_queue = s1.send_queue
  BY <1>3, <1>4, <1>5 DEF StreamFields
<1>8. \A f \in StreamFields \ {"drive_waker", "scheduled", "send_queue", "error",
                               "state", "read_waker", "write_waker"} :
        WakeDriver(s2)[f] = s[f]
  BY <1>3, <1>4, <1>5
<1>9. \A q \in WakeDriver(s2).send_queue :
         \/ q \in s.send_queue
         \/ (q.typ \subseteq {"END"} /\ q.ack = s.ack /\ q.sacks = <<>>)
  BY <1>3, <1>7
<1> QED BY <1>1, <1>6, <1>7, <1>8, <1>9

-----------------------------------------------------------------------------
(* The retransmission buffer and its counters *)

\* The unacknowledged packets lie between remote_acked and seq, none is
\* larger than the MTU, and the counters agree with them.
SenderOK(s) ==
  /\ \A i \in DOMAIN s.outgoing :
        /\ s.remote_acked <= i /\ i < s.seq
        /\ s.outgoing[i].packet.len <= MAX_DATA_SIZE
  /\ CountersExact(s)

\* A new stream (UdxStreamInner::new) has sent and received nothing.
LEMMA NewStream ==
  /\ StreamOK(InitialStream) /\ SenderOK(InitialStream) /\ WindowIntact(InitialStream)
<1> DEFINE s == InitialStream
<1>1. DOMAIN s = StreamFields
  BY DEF InitialStream, StreamFields
<1>2. /\ s.incoming = NoPackets /\ s.outgoing = NoPackets /\ s.send_queue = {}
      /\ s.seq = 0 /\ s.ack = 0 /\ s.remote_acked = 0 /\ s.read_cursor = 0
      /\ s.inflight = 0 /\ s.inflight_packets = 0 /\ s.inflight_bytes = 0
      /\ s.cwnd = 2 * MTU /\ s.tx_bytes = 0
  BY ZenonT(30) DEF InitialStream
<1>3. /\ s.rto_timeout = "armed" /\ s.read_waker = FALSE /\ s.write_waker = FALSE
      /\ s.drive_waker = FALSE /\ s.scheduled = TRUE /\ s.error = "none"
      /\ s.state = "Open" /\ s.on_close = {} /\ s.rx_closed = FALSE
  BY ZenonT(30) DEF InitialStream
<1> HIDE DEF s
<1>4. \A T : IsMapTo(NoPackets, T)
  BY FS_EmptySet DEF NoPackets, IsMapTo
<1>5. 2 * MTU \in Nat \ {0}
  BY ConstantsAssumption DEF MTU
<1>6. StreamOK(s)
  <2>1. /\ s.rto_timeout \in {"armed", "elapsed"}
        /\ s.read_waker \in BOOLEAN /\ s.write_waker \in BOOLEAN
        /\ s.drive_waker \in BOOLEAN /\ s.scheduled \in BOOLEAN
        /\ s.rx_closed \in BOOLEAN
        /\ s.error \in Errors \cup {"none"} /\ s.state \in StreamStates
        /\ s.on_close \subseteq Closers
    BY ZenonT(30), <1>3 DEF StreamStates
  <2>2. /\ IsMapTo(s.incoming, IncomingPacket) /\ IsMapTo(s.outgoing, OutgoingPacket)
        /\ s.send_queue \subseteq Packet
    BY <1>2, <1>4
  <2> QED BY SMTT(30), <1>1, <1>2, <1>5, <2>1, <2>2 DEF StreamOK
<1>7. DOMAIN NoPackets = {}
  BY DEF NoPackets
<1>8. CountersExact(s)
  <2>1. NotWaiting(s) = {}
    BY <1>2, <1>7 DEF NotWaiting
  <2>2. \A f : Bytes({}, f) = {}
    BY DEF Bytes
  <2>3. \A f : Total({}, f) = 0
    BY <2>2, FS_EmptySet DEF Total
  <2> QED BY <1>2, <1>7, <2>1, <2>3, FS_EmptySet DEF CountersExact
<1>9. SenderOK(s) /\ WindowIntact(s)
  BY <1>2, <1>7, <1>8 DEF SenderOK, WindowIntact
<1> QED BY <1>6, <1>9 DEF s

\* Packets of outgoing that fit the MTU have natural sizes up to the MTU.
LEMMA PacketSizes ==
  ASSUME NEW s, StreamOK(s), SenderOK(s), NEW i \in DOMAIN s.outgoing
  PROVE  /\ i \in Nat
         /\ s.outgoing[i] \in OutgoingPacket
         /\ s.outgoing[i].packet \in Packet
         /\ PacketLen(s.outgoing)[i] \in 0 .. MTU
         /\ DataLen(s.outgoing)[i] \in 0 .. MTU
<1>1. i \in Nat /\ s.outgoing[i] \in OutgoingPacket
  BY ZenonT(30) DEF StreamOK, IsMapTo
<1>2. s.outgoing[i].packet \in Packet
  BY <1>1 DEF OutgoingPacket
<1>3. s.outgoing[i].packet.len \in Nat
  BY ZenonT(30), <1>2 DEF Packet
<1>4. s.outgoing[i].packet.len <= MAX_DATA_SIZE
  BY DEF SenderOK
<1> QED BY <1>1, <1>2, <1>3, <1>4, ConstantsAssumption DEF PacketLen, DataLen, MTU

\* outgoing is finite, and so is the part of it that is not waiting.
LEMMA FiniteBuffer ==
  ASSUME NEW s, StreamOK(s)
  PROVE  /\ IsFiniteSet(DOMAIN s.outgoing)
         /\ IsFiniteSet(NotWaiting(s)) /\ NotWaiting(s) \subseteq DOMAIN s.outgoing
<1>1. IsFiniteSet(DOMAIN s.outgoing)
  BY DEF StreamOK, IsMapTo
<1>2. NotWaiting(s) \subseteq DOMAIN s.outgoing
  BY DEF NotWaiting
<1> QED BY <1>1, <1>2, FS_Subset

\* send_data_packet takes at least one byte and at most UDX_MAX_DATA_SIZE.
LEMMA ChunkLenType ==
  ASSUME NEW n \in Nat \ {0}
  PROVE  ChunkLen(n) \in Nat \ {0} /\ ChunkLen(n) <= MAX_DATA_SIZE /\ ChunkLen(n) <= n
BY ConstantsAssumption DEF ChunkLen, Smaller

\* send_data_packet appends one packet, numbered seq, with the current ack.
LEMMA SendDataPacketFrame ==
  ASSUME NEW s, StreamOK(s), SenderOK(s), s.remote_acked <= s.seq, NEW n \in Nat \ {0}
  PROVE  LET t == SendDataPacket(s, n)
         IN  /\ StreamOK(t) /\ SenderOK(t)
             /\ t.seq = s.seq + 1
             /\ DOMAIN t.outgoing = DOMAIN s.outgoing \cup {s.seq}
             /\ \A i \in DOMAIN s.outgoing : t.outgoing[i] = s.outgoing[i]
             /\ t.send_queue = s.send_queue \cup {t.outgoing[s.seq].packet}
             /\ t.outgoing[s.seq].packet \in Packet
             /\ t.outgoing[s.seq].packet.ack = s.ack
             /\ t.outgoing[s.seq].packet.seq = s.seq
             /\ t.outgoing[s.seq].packet.sacks = <<>>
             /\ \A f \in {"incoming", "ack", "read_cursor", "remote_acked", "error"} :
                   t[f] = s[f]
<1> DEFINE len == ChunkLen(n)
           p == CreatePacket(s, {"DATA"}, s.tx_bytes, len)
           o == [packet |-> p, waiting |-> FALSE, transmits |-> 0]
           q == QueueData(s, n)
           t == SendDataPacket(s, n)
<1>1. len \in Nat \ {0} /\ len <= MAX_DATA_SIZE
  BY ChunkLenType
<1>2. /\ p \in Packet /\ p.ack = s.ack /\ p.seq = s.seq /\ p.sacks = <<>> /\ p.len = len
  <2>1. {"DATA"} \in SUBSET Flags /\ s.tx_bytes \in Nat
    BY ZenonT(30) DEF Flags, StreamOK
  <2> QED BY ZenonT(30), <1>1, <2>1, CreatePacketType DEF CreatePacket
<1>3. o \in OutgoingPacket /\ o.packet = p /\ o.waiting = FALSE
  <2> HIDE DEF p
  <2> QED BY <1>2 DEF OutgoingPacket
<1>4. /\ DOMAIN q = StreamFields
      /\ q.seq = s.seq + 1
      /\ q.tx_bytes = s.tx_bytes + len
      /\ q.inflight_bytes = s.inflight_bytes + len
      /\ q.inflight_packets = s.inflight_packets + 1
      /\ q.outgoing = Insert(s.outgoing, s.seq, o)
      /\ q.inflight = s.inflight + HEADER_SIZE + len
      /\ q.send_queue = s.send_queue \cup {p}
      /\ \A f \in StreamFields \ {"seq", "tx_bytes", "inflight_bytes", "inflight_packets",
                                  "outgoing", "inflight", "send_queue"} : q[f] = s[f]
  <2>1. q = [s EXCEPT !.seq = @ + 1, !.tx_bytes = @ + len, !.inflight_bytes = @ + len,
                      !.inflight_packets = @ + 1, !.outgoing = Insert(@, s.seq, o),
                      !.inflight = @ + HEADER_SIZE + len, !.send_queue = @ \cup {p}]
    BY DEF QueueData
  <2> HIDE DEF len, p, o, q
  <2> QED BY ZenonT(30), <2>1 DEF StreamOK, StreamFields
<1>5. /\ IsMapTo(q.outgoing, OutgoingPacket)
      /\ DOMAIN q.outgoing = DOMAIN s.outgoing \cup {s.seq}
      /\ q.outgoing[s.seq] = o
      /\ s.seq \notin DOMAIN s.outgoing
      /\ \A i \in DOMAIN s.outgoing : q.outgoing[i] = s.outgoing[i]
  <2>1. s.seq \notin DOMAIN s.outgoing /\ s.seq \in Nat
    BY DEF SenderOK, StreamOK
  <2>2. IsMapTo(s.outgoing, OutgoingPacket)
    BY DEF StreamOK
  <2>3. q.outgoing = Insert(s.outgoing, s.seq, o)
    BY ZenonT(30), <1>4
  <2>4. IsMapTo(q.outgoing, OutgoingPacket)
    <3> HIDE DEF o, q
    <3> QED BY ZenonT(30), <1>3, <2>1, <2>2, <2>3, InsertMap
  <2> HIDE DEF o, q
  <2> QED BY ZenonT(30), <2>1, <2>3, <2>4 DEF Insert
<1>6. CountersExact(q)
  <2> HIDE DEF o, p, q, len
  <2> DEFINE PL == PacketLen(q.outgoing)
             DL == DataLen(q.outgoing)
  <2>1. /\ PL[s.seq] = HEADER_SIZE + len /\ PL[s.seq] \in 0 .. MTU
        /\ DL[s.seq] = len /\ DL[s.seq] \in 0 .. MTU
    BY SMTT(30), <1>1, <1>2, <1>3, <1>5, ConstantsAssumption DEF PacketLen, DataLen, MTU
  <2>2. \A i \in DOMAIN s.outgoing : /\ PL[i] = PacketLen(s.outgoing)[i]
                                     /\ DL[i] = DataLen(s.outgoing)[i]
    BY ZenonT(30), <1>5 DEF PacketLen, DataLen
  <2>3. NotWaiting(q) = NotWaiting(s) \cup {s.seq} /\ s.seq \notin NotWaiting(s)
    BY ZenonT(30), <1>3, <1>5 DEF NotWaiting
  <2> HIDE DEF PL, DL
  <2>4. Total(NotWaiting(q), PL) = Total(NotWaiting(s), PL) + (HEADER_SIZE + len)
    <3>1. IsFiniteSet(NotWaiting(s))
      BY FiniteBuffer
    <3>2. Total(NotWaiting(s) \cup {s.seq}, PL) = Total(NotWaiting(s), PL) + PL[s.seq]
      BY ZenonT(30), <2>1, <2>3, <3>1, TotalAdd
    <3> QED BY <2>1, <2>3, <3>2
  <2>5. Total(NotWaiting(s), PL) = Total(NotWaiting(s), PacketLen(s.outgoing))
    BY ZenonT(30), <2>2, FiniteBuffer, TotalExtensional
  <2>6. Total(DOMAIN q.outgoing, DL) = Total(DOMAIN s.outgoing, DL) + len
    <3>1. IsFiniteSet(DOMAIN s.outgoing)
      BY ZenonT(30), FiniteBuffer
    <3>2. DOMAIN q.outgoing = DOMAIN s.outgoing \cup {s.seq} /\ s.seq \notin DOMAIN s.outgoing
      BY ZenonT(30), <1>3, <1>5
    <3>3. Total(DOMAIN s.outgoing \cup {s.seq}, DL) = Total(DOMAIN s.outgoing, DL) + DL[s.seq]
      BY ZenonT(30), <2>1, <3>1, <3>2, TotalAdd
    <3> QED BY ZenonT(30), <2>1, <3>2, <3>3
  <2>7. Total(DOMAIN s.outgoing, DL) = Total(DOMAIN s.outgoing, DataLen(s.outgoing))
    BY <2>2, TotalExtensional
  <2>8. Cardinality(DOMAIN q.outgoing) = Cardinality(DOMAIN s.outgoing) + 1
    BY ZenonT(30), <1>5, FiniteBuffer, FS_AddElement
  <2>9. q.inflight = Total(NotWaiting(q), PL)
    BY <1>1, <1>4, <2>4, <2>5, ConstantsAssumption DEF SenderOK, CountersExact, StreamOK
  <2> QED BY ZenonT(30), <1>4, <2>6, <2>7, <2>8, <2>9 DEF SenderOK, CountersExact, PL, DL
<1>7. StreamOK(q)
  <2> HIDE DEF o, p, q, len
  <2>1. /\ q.seq \in Nat /\ q.tx_bytes \in Nat /\ q.inflight_bytes \in Nat
        /\ q.inflight_packets \in Nat /\ q.inflight \in Nat
    BY <1>1, <1>4, ConstantsAssumption DEF StreamOK
  <2>2. q.send_queue \subseteq Packet
    BY ZenonT(30), <1>2, <1>4 DEF StreamOK
  <2> QED BY <1>4, <1>5, <2>1, <2>2 DEF StreamOK, StreamFields
<1>8. SenderOK(q)
  <2> HIDE DEF o, p, q, len
  <2>1. q.remote_acked = s.remote_acked /\ s.remote_acked \in Nat /\ s.seq \in Nat
    BY ZenonT(30), <1>4 DEF StreamFields, StreamOK
  <2>2. \A i \in DOMAIN s.outgoing : i \in Nat
    BY ZenonT(30) DEF StreamOK, IsMapTo
  <2> QED BY <1>1, <1>2, <1>3, <1>4, <1>5, <1>6, <2>1, <2>2 DEF SenderOK
<1> HIDE DEF o, p, q, len
<1>9. /\ DOMAIN t = StreamFields
      /\ \A f \in StreamFields \ {"drive_waker", "scheduled"} : t[f] = q[f]
      /\ t.drive_waker \in BOOLEAN /\ t.scheduled \in BOOLEAN
  <2>1. t = WakeDriver(q)
    BY DEF SendDataPacket, q
  <2> QED BY <1>7, <2>1, WakeDriverFrame DEF StreamOK
<1> HIDE DEF t
<1>10. StreamOK(t)
  BY <1>7, <1>9 DEF StreamOK, StreamFields
<1>11. /\ t.outgoing = q.outgoing /\ t.remote_acked = q.remote_acked /\ t.seq = q.seq
       /\ t.inflight = q.inflight /\ t.inflight_packets = q.inflight_packets
       /\ t.inflight_bytes = q.inflight_bytes /\ t.send_queue = q.send_queue
  BY ZenonT(30), <1>9 DEF StreamFields
<1>12. SenderOK(t)
  BY ZenonT(30), <1>8, <1>11 DEF SenderOK, CountersExact, NotWaiting
<1>13. \A f \in {"incoming", "ack", "read_cursor", "remote_acked", "error"} : t[f] = s[f]
  BY ZenonT(30), <1>4, <1>9 DEF StreamFields
<1> QED BY ZenonT(30), LeqRefl, <1>2, <1>3, <1>4, <1>5, <1>10, <1>11, <1>12, <1>13 DEF t

\* Acknowledged packets leave the buffer and the counters with it.
LEMMA AckPacketsFrame ==
  ASSUME NEW s, StreamOK(s), SenderOK(s), NEW S, S \subseteq DOMAIN s.outgoing
  PROVE  LET t == AckPackets(s, S)
         IN  /\ StreamOK(t) /\ SenderOK(t)
             /\ DOMAIN t.outgoing = DOMAIN s.outgoing \ S
             /\ \A i \in DOMAIN t.outgoing : t.outgoing[i] = s.outgoing[i]
             /\ \A f \in StreamFields \ {"outgoing", "inflight", "inflight_bytes",
                                         "inflight_packets"} : t[f] = s[f]
<1> DEFINE t == AckPackets(s, S)
           PL == PacketLen(s.outgoing)
           DL == DataLen(s.outgoing)
           N == NotWaiting(s)
           D == DOMAIN s.outgoing
<1>1. /\ DOMAIN t = StreamFields
      /\ t.outgoing = [i \in D \ S |-> s.outgoing[i]]
      /\ t.inflight = s.inflight - Total(S \cap N, PL)
      /\ t.inflight_bytes = s.inflight_bytes - Total(S, DL)
      /\ t.inflight_packets = s.inflight_packets - Cardinality(S)
      /\ \A f \in StreamFields \ {"outgoing", "inflight", "inflight_bytes",
                                  "inflight_packets"} : t[f] = s[f]
  BY ZenonT(30) DEF AckPackets, StreamOK, StreamFields
<1> HIDE DEF t
<1>2. IsFiniteSet(D) /\ IsFiniteSet(N) /\ N \subseteq D /\ IsFiniteSet(S)
  BY FiniteBuffer, FS_Subset
<1>3. s.inflight = Total(N, PL) /\ s.inflight_bytes = Total(D, DL) /\ s.inflight_packets = Cardinality(D)
  BY ZenonT(30) DEF SenderOK, CountersExact
<1>4. /\ DOMAIN t.outgoing = D \ S
      /\ \A i \in DOMAIN t.outgoing : t.outgoing[i] = s.outgoing[i]
  BY ZenonT(30), <1>1
<1>5. NotWaiting(t) = N \ (S \cap N)
  BY <1>4 DEF NotWaiting
<1>6. /\ \A i \in NotWaiting(t) : PL[i] = PacketLen(t.outgoing)[i]
      /\ \A i \in DOMAIN t.outgoing : DL[i] = DataLen(t.outgoing)[i]
  BY ZenonT(30), <1>4 DEF PacketLen, DataLen, NotWaiting
<1> HIDE DEF PL, DL, N, D
<1>7. t.inflight = Total(NotWaiting(t), PacketLen(t.outgoing)) /\ t.inflight \in Nat
  <2>1. S \cap N \subseteq N
    OBVIOUS
  <2>2. /\ Total(S \cap N, PL) \in Nat /\ Total(S \cap N, PL) <= Total(N, PL)
        /\ Total(N \ (S \cap N), PL) = Total(N, PL) - Total(S \cap N, PL)
    <3>1. IsFiniteSet(N)
      BY ZenonT(30), <1>2
    <3> QED BY <2>1, <3>1, TotalRemove
  <2>3. Total(NotWaiting(t), PL) = Total(NotWaiting(t), PacketLen(t.outgoing))
    BY ZenonT(30), <1>6, TotalExtensional
  <2>4. Total(N, PL) \in Nat
    BY <1>2, BytesFinite
  <2> QED BY <1>1, <1>3, <1>5, <2>2, <2>3, <2>4
<1>8. t.inflight_bytes = Total(DOMAIN t.outgoing, DataLen(t.outgoing)) /\ t.inflight_bytes \in Nat
  <2>1. /\ Total(S, DL) \in Nat /\ Total(S, DL) <= Total(D, DL)
        /\ Total(D \ S, DL) = Total(D, DL) - Total(S, DL)
    BY <1>2, TotalRemove DEF D
  <2>2. Total(DOMAIN t.outgoing, DL) = Total(DOMAIN t.outgoing, DataLen(t.outgoing))
    BY ZenonT(30), <1>6, TotalExtensional
  <2>3. Total(D, DL) \in Nat
    BY <1>2, BytesFinite
  <2> QED BY <1>1, <1>3, <1>4, <2>1, <2>2, <2>3
<1>9. t.inflight_packets = Cardinality(DOMAIN t.outgoing) /\ t.inflight_packets \in Nat
  <2>1. D \cap S = S
    BY DEF D
  <2>2. IsFiniteSet(D \ S) /\ Cardinality(D \ S) = Cardinality(D) - Cardinality(S)
    BY ZenonT(30), <1>2, <2>1, FS_Difference
  <2>3. Cardinality(D) \in Nat /\ Cardinality(S) \in Nat /\ Cardinality(D \ S) \in Nat
    BY <1>2, <2>2, FS_CardinalityType
  <2> QED BY ZenonT(30), <1>1, <1>3, <1>4, <2>2, <2>3
<1>10. IsMapTo(t.outgoing, OutgoingPacket)
  <2>1. IsFiniteSet(D \ S)
    BY <1>2, FS_Subset
  <2>2. IsMapTo(s.outgoing, OutgoingPacket)
    BY ZenonT(30) DEF StreamOK
  <2> QED BY <1>1, <1>4, <2>1, <2>2 DEF IsMapTo, D
<1>11. StreamOK(t)
  BY <1>1, <1>7, <1>8, <1>9, <1>10 DEF StreamOK, StreamFields
<1>12. SenderOK(t)
  <2>1. t.seq = s.seq /\ t.remote_acked = s.remote_acked
    BY ZenonT(30), <1>1 DEF StreamFields
  <2>2. CountersExact(t)
    BY ZenonT(30), <1>7, <1>8, <1>9 DEF CountersExact
  <2> QED BY ZenonT(30), <1>4, <2>1, <2>2 DEF SenderOK, D
<1> QED BY ZenonT(30), <1>1, <1>4, <1>11, <1>12 DEF t, D

\* handle_incoming_sacks changes outgoing and the counters only.
LEMMA HandleIncomingSacksFrame ==
  ASSUME NEW s, StreamOK(s), SenderOK(s), NEW p \in Packet
  PROVE  LET t == HandleIncomingSacks(s, p)
         IN  /\ StreamOK(t) /\ SenderOK(t)
             /\ DOMAIN t.outgoing \subseteq DOMAIN s.outgoing
             /\ \A i \in DOMAIN t.outgoing : t.outgoing[i] = s.outgoing[i]
             /\ \A i \in DOMAIN s.outgoing \ DOMAIN t.outgoing :
                   \E k \in 1 .. Len(p.sacks) : p.sacks[k][1] <= i /\ i < p.sacks[k][2]
             /\ \A f \in StreamFields \ {"outgoing", "inflight", "inflight_bytes",
                                         "inflight_packets"} : t[f] = s[f]
<1> DEFINE S == {i \in DOMAIN s.outgoing :
                   \E k \in 1 .. (Len(p.sacks) - 1) :
                      p.sacks[k][1] <= i /\ i < p.sacks[k][2]}
           t == AckPackets(s, S)
<1>1. HandleIncomingSacks(s, p) = t
  BY DEF HandleIncomingSacks
<1>2. Len(p.sacks) \in Nat
  BY DEF Packet
<1>3. \A i \in S : \E k \in 1 .. Len(p.sacks) : p.sacks[k][1] <= i /\ i < p.sacks[k][2]
  BY <1>2
<1>4. S \subseteq DOMAIN s.outgoing
  OBVIOUS
<1> HIDE DEF S
<1>5. /\ StreamOK(t) /\ SenderOK(t)
      /\ DOMAIN t.outgoing = DOMAIN s.outgoing \ S
      /\ \A i \in DOMAIN t.outgoing : t.outgoing[i] = s.outgoing[i]
      /\ \A f \in StreamFields \ {"outgoing", "inflight", "inflight_bytes",
                                  "inflight_packets"} : t[f] = s[f]
  BY <1>4, AckPacketsFrame
<1> HIDE DEF t
<1> QED BY ZenonT(30), <1>1, <1>3, <1>5

\* The end of handle_incoming changes cwnd only, and never to zero.
LEMMA GrowWindowFrame ==
  ASSUME NEW s, StreamOK(s), NEW ack \in Nat
  PROVE  /\ StreamOK(GrowWindow(s, ack))
         /\ \A f \in StreamFields \ {"cwnd"} : GrowWindow(s, ack)[f] = s[f]
<1> DEFINE inc == IF s.cwnd < SSTHRESH THEN MTU ELSE Larger((MTU * MTU) \div s.cwnd, 1)
           t == [s EXCEPT !.cwnd = @ + inc]
<1>1. GrowWindow(s, ack) \in {s, t}
  BY DEF GrowWindow
<1>2. s.cwnd \in Nat \ {0} /\ MTU \in Nat
  BY ConstantsAssumption DEF StreamOK, MTU
<1>3. inc \in Nat
  <2>1. PICK m \in Nat : m = MTU * MTU
    BY <1>2
  <2>2. m \div s.cwnd \in Int
    BY <1>2, <2>1
  <2> QED BY <1>2, <2>1, <2>2 DEF Larger
<1> HIDE DEF inc
<1>4. StreamOK(t) /\ \A f \in StreamFields \ {"cwnd"} : t[f] = s[f]
  BY <1>2, <1>3 DEF StreamOK, StreamFields
<1> QED BY <1>1, <1>4

\* A cumulative ack removes the packets below it and moves remote_acked.
LEMMA MaxRemoteAckFrame ==
  ASSUME NEW s, StreamOK(s), SenderOK(s), NEW ack \in Nat
  PROVE  LET t == HandleIncomingMaxRemoteAck(s, ack)
         IN  /\ StreamOK(t) /\ SenderOK(t)
             /\ t.remote_acked = Larger(s.remote_acked, ack)
             /\ DOMAIN t.outgoing \subseteq DOMAIN s.outgoing
             /\ \A i \in DOMAIN t.outgoing : t.outgoing[i] = s.outgoing[i]
             /\ \A i \in DOMAIN s.outgoing \ DOMAIN t.outgoing : i < ack
             /\ \A f \in StreamFields \ {"outgoing", "inflight", "inflight_bytes",
                   "inflight_packets", "remote_acked", "write_waker", "rto_timeout"} :
                   t[f] = s[f]
<1> DEFINE S == {i \in DOMAIN s.outgoing : s.remote_acked <= i /\ i < ack}
           a == AckPackets(s, S)
           u == [a EXCEPT !.remote_acked = ack,
                          !.write_waker = @ /\ a.inflight + MTU > a.cwnd,
                          !.rto_timeout = "armed"]
           t == HandleIncomingMaxRemoteAck(s, ack)
<1>1. CASE ack <= s.remote_acked
  <2>1. t = s
    BY <1>1 DEF HandleIncomingMaxRemoteAck
  <2>2. Larger(s.remote_acked, ack) = s.remote_acked
    BY ZenonT(30), <1>1 DEF Larger, StreamOK
  <2> QED BY ZenonT(30), <2>1, <2>2
<1>2. CASE ~ (ack <= s.remote_acked)
  <2>1. t = u
    BY <1>2 DEF HandleIncomingMaxRemoteAck
  <2>2. S \subseteq DOMAIN s.outgoing
    BY ZenonT(30)
  <2>3. /\ StreamOK(a) /\ SenderOK(a)
        /\ DOMAIN a.outgoing = DOMAIN s.outgoing \ S
        /\ \A i \in DOMAIN a.outgoing : a.outgoing[i] = s.outgoing[i]
        /\ \A f \in StreamFields \ {"outgoing", "inflight", "inflight_bytes",
                                    "inflight_packets"} : a[f] = s[f]
    BY <2>2, AckPacketsFrame
  <2>4. \A i \in DOMAIN s.outgoing : i \in Nat /\ s.remote_acked <= i
    BY DEF SenderOK, StreamOK, IsMapTo
  <2>5. \A i \in DOMAIN a.outgoing : ack <= i
    BY <2>3, <2>4
  <2>6. \A i \in S : i < ack
    BY ZenonT(30)
  <2> HIDE DEF a, S
  <2>7. /\ DOMAIN u = StreamFields /\ u.remote_acked = ack /\ u.rto_timeout = "armed"
        /\ u.write_waker \in BOOLEAN
        /\ \A f \in StreamFields \ {"remote_acked", "write_waker", "rto_timeout"} :
              u[f] = a[f]
    BY ZenonT(30), <2>3 DEF StreamOK, StreamFields
  <2> HIDE DEF u
  <2>8. /\ u.outgoing = a.outgoing /\ u.seq = a.seq /\ u.inflight = a.inflight
        /\ u.inflight_packets = a.inflight_packets /\ u.inflight_bytes = a.inflight_bytes
    BY <2>7 DEF StreamFields
  <2>9. StreamOK(u)
    BY ZenonT(30), LeqRefl, <2>3, <2>7 DEF StreamOK, StreamFields
  <2>10. SenderOK(u)
    BY ZenonT(30), <2>3, <2>5, <2>7, <2>8 DEF SenderOK, CountersExact, NotWaiting
  <2>11. Larger(s.remote_acked, ack) = ack
    BY ZenonT(30), <1>2 DEF Larger, StreamOK
  <2>12. \A f \in StreamFields \ {"outgoing", "inflight", "inflight_bytes",
            "inflight_packets", "remote_acked", "write_waker", "rto_timeout"} : u[f] = s[f]
    BY ZenonT(30), <2>3, <2>7
  <2> HIDE DEF t
  <2>13. /\ DOMAIN t.outgoing \subseteq DOMAIN s.outgoing
         /\ \A i \in DOMAIN t.outgoing : t.outgoing[i] = s.outgoing[i]
         /\ \A i \in DOMAIN s.outgoing \ DOMAIN t.outgoing : i < ack
    BY ZenonT(30), <2>1, <2>3, <2>6, <2>8
  <2> QED BY ZenonT(30), <2>1, <2>7, <2>9, <2>10, <2>11, <2>12, <2>13 DEF t
<1> QED BY ZenonT(30), <1>1, <1>2

\* Streams whose buffers differ in waiting and transmits only.
LEMMA SameBuffer ==
  ASSUME NEW s, NEW t, StreamOK(s), SenderOK(s),
         t.seq = s.seq, t.remote_acked = s.remote_acked,
         t.inflight_packets = s.inflight_packets, t.inflight_bytes = s.inflight_bytes,
         DOMAIN t.outgoing = DOMAIN s.outgoing,
         \A i \in DOMAIN s.outgoing : t.outgoing[i].packet = s.outgoing[i].packet,
         t.inflight = Total(NotWaiting(t), PacketLen(s.outgoing))
  PROVE  SenderOK(t)
<1>1. PacketLen(t.outgoing) = PacketLen(s.outgoing) /\ DataLen(t.outgoing) = DataLen(s.outgoing)
  BY ZenonT(30) DEF PacketLen, DataLen
<1> QED BY ZenonT(30), <1>1 DEF SenderOK, CountersExact

\* A timeout marks packets as waiting and takes them out of inflight.
LEMMA PollCheckTimeoutsFrame ==
  ASSUME NEW s, StreamOK(s), SenderOK(s)
  PROVE  LET t == PollCheckTimeouts(s)
         IN  /\ StreamOK(t) /\ SenderOK(t)
             /\ DOMAIN t.outgoing = DOMAIN s.outgoing
             /\ \A i \in DOMAIN s.outgoing : t.outgoing[i].packet = s.outgoing[i].packet
             /\ \A f \in StreamFields \ {"rto_timeout", "cwnd", "outgoing", "inflight"} :
                   t[f] = s[f]
<1> DEFINE t == PollCheckTimeouts(s)
           L == Lost(s)
           N == NotWaiting(s)
           PL == PacketLen(s.outgoing)
           lost(o) == [packet |-> o.packet, waiting |-> TRUE, transmits |-> o.transmits + 1]
           out == [i \in DOMAIN s.outgoing |->
                     IF i \in L THEN lost(s.outgoing[i]) ELSE s.outgoing[i]]
<1>1. CASE ~ RtoFires(s)
  BY <1>1 DEF PollCheckTimeouts
<1>2. CASE RtoFires(s)
  <2>1. /\ DOMAIN t = StreamFields /\ t.rto_timeout = "armed"
        /\ t.cwnd = Larger(MTU, s.cwnd \div 2)
        /\ t.outgoing = out
        /\ t.inflight = s.inflight - Total(L, PL)
        /\ \A f \in StreamFields \ {"rto_timeout", "cwnd", "outgoing", "inflight"} :
              t[f] = s[f]
    BY ZenonT(30), <1>2 DEF PollCheckTimeouts, StreamOK, StreamFields
  <2>2. /\ IsFiniteSet(N) /\ N \subseteq DOMAIN s.outgoing
        /\ L \subseteq N
    BY ZenonT(30), FiniteBuffer DEF Lost
  <2> HIDE DEF t, L
  <2>3. \A i \in DOMAIN s.outgoing :
           LET o == s.outgoing[i]
           IN  /\ o \in OutgoingPacket /\ lost(o) \in OutgoingPacket
               /\ lost(o).packet = o.packet /\ lost(o).waiting = TRUE
    <3> SUFFICES ASSUME NEW i \in DOMAIN s.outgoing, NEW o, o = s.outgoing[i]
                 PROVE  /\ o \in OutgoingPacket /\ lost(o) \in OutgoingPacket
                        /\ lost(o).packet = o.packet /\ lost(o).waiting = TRUE
      BY ZenonT(30)
    <3>1. o \in OutgoingPacket
      BY ZenonT(30) DEF StreamOK, IsMapTo
    <3>2. o.packet \in Packet /\ o.transmits + 1 \in Nat
      BY <3>1 DEF OutgoingPacket
    <3> QED BY ZenonT(30), <3>1, <3>2 DEF OutgoingPacket
  <2>4. /\ DOMAIN out = DOMAIN s.outgoing
        /\ \A i \in L : out[i] = lost(s.outgoing[i])
        /\ \A i \in DOMAIN out \ L : out[i] = s.outgoing[i]
        /\ out = [i \in DOMAIN out |-> out[i]]
    BY ZenonT(30), <2>2
  <2> HIDE DEF out, lost
  <2>5. /\ \A i \in DOMAIN out : out[i] \in OutgoingPacket
        /\ \A i \in DOMAIN out : out[i].packet = s.outgoing[i].packet
    BY ZenonT(30), <2>2, <2>3, <2>4
  <2>6. IsMapTo(out, OutgoingPacket)
    BY ZenonT(30), <2>4, <2>5 DEF IsMapTo, StreamOK
  <2>7. NotWaiting(t) = N \ L
    BY <2>1, <2>2, <2>3, <2>4 DEF NotWaiting
  <2>8. /\ Total(L, PL) \in Nat /\ Total(L, PL) <= Total(N, PL) /\ Total(N, PL) \in Nat
        /\ Total(N \ L, PL) = Total(N, PL) - Total(L, PL)
    <3> HIDE DEF N, PL
    <3> QED BY <2>2, TotalRemove, BytesFinite
  <2>9. s.inflight = Total(N, PL)
    BY ZenonT(30) DEF SenderOK, CountersExact
  <2>10. t.inflight = Total(NotWaiting(t), PL) /\ t.inflight \in Nat
    <3> HIDE DEF N, PL
    <3> QED BY <2>1, <2>7, <2>8, <2>9
  <2>11. t.cwnd \in Nat \ {0}
    <3>1. MTU \in Nat \ {0} /\ s.cwnd \in Nat
      BY ConstantsAssumption DEF MTU, StreamOK
    <3>2. s.cwnd \div 2 \in Nat
      BY <3>1
    <3> QED BY <2>1, <3>1, <3>2 DEF Larger
  <2>12. StreamOK(t)
    BY <2>1, <2>6, <2>10, <2>11 DEF StreamOK, StreamFields
  <2>13. SenderOK(t)
    <3>1. /\ t.seq = s.seq /\ t.remote_acked = s.remote_acked
          /\ t.inflight_packets = s.inflight_packets
          /\ t.inflight_bytes = s.inflight_bytes
      BY <2>1 DEF StreamFields
    <3>2. /\ DOMAIN t.outgoing = DOMAIN s.outgoing
          /\ \A i \in DOMAIN s.outgoing : t.outgoing[i].packet = s.outgoing[i].packet
          /\ t.inflight = Total(NotWaiting(t), PacketLen(s.outgoing))
      BY ZenonT(30), <2>1, <2>4, <2>5, <2>10
    <3> QED BY ZenonT(30), <3>1, <3>2, SameBuffer
  <2> QED BY ZenonT(30), <2>1, <2>4, <2>5, <2>12, <2>13 DEF t
<1> QED BY ZenonT(30), <1>1, <1>2

\* Retransmission puts packets back into inflight and queues them unchanged.
LEMMA FlushWaitingPacketsFrame ==
  ASSUME NEW s, StreamOK(s), SenderOK(s)
  PROVE  LET t == FlushWaitingPackets(s)
         IN  /\ StreamOK(t) /\ SenderOK(t)
             /\ DOMAIN t.outgoing = DOMAIN s.outgoing
             /\ \A i \in DOMAIN s.outgoing : t.outgoing[i].packet = s.outgoing[i].packet
             /\ \A p \in t.send_queue :
                   p \in s.send_queue \/ \E i \in DOMAIN s.outgoing : p = s.outgoing[i].packet
             /\ \A f \in StreamFields \ {"outgoing", "inflight", "send_queue"} : t[f] = s[f]
<1> DEFINE t == FlushWaitingPackets(s)
           F == Flushable(s)
           N == NotWaiting(s)
           PL == PacketLen(s.outgoing)
           sent(o) == [o EXCEPT !.waiting = FALSE]
           out == [i \in DOMAIN s.outgoing |->
                     IF i \in F THEN sent(s.outgoing[i]) ELSE s.outgoing[i]]
<1>1. /\ DOMAIN t = StreamFields
      /\ t.outgoing = out
      /\ t.inflight = s.inflight + Total(F, PL)
      /\ t.send_queue = s.send_queue \cup {s.outgoing[i].packet : i \in F}
      /\ \A f \in StreamFields \ {"outgoing", "inflight", "send_queue"} : t[f] = s[f]
  BY ZenonT(30) DEF FlushWaitingPackets, StreamOK, StreamFields
<1>2. /\ IsFiniteSet(N) /\ N \subseteq DOMAIN s.outgoing
      /\ F \subseteq DOMAIN s.outgoing \ N
      /\ IsFiniteSet(DOMAIN s.outgoing)
  BY ZenonT(30), FiniteBuffer DEF Flushable, Unacked
<1> HIDE DEF t, F
<1>3. \A i \in DOMAIN s.outgoing :
         LET o == s.outgoing[i]
         IN  /\ o \in OutgoingPacket /\ o.packet \in Packet /\ sent(o) \in OutgoingPacket
             /\ sent(o).packet = o.packet /\ sent(o).waiting = FALSE
  <2> SUFFICES ASSUME NEW i \in DOMAIN s.outgoing, NEW o, o = s.outgoing[i]
               PROVE  /\ o \in OutgoingPacket /\ o.packet \in Packet /\ sent(o) \in OutgoingPacket
                      /\ sent(o).packet = o.packet /\ sent(o).waiting = FALSE
    OBVIOUS
  <2>1. o \in OutgoingPacket
    BY DEF StreamOK, IsMapTo
  <2> QED BY ZenonT(30), <2>1 DEF OutgoingPacket
<1>4. /\ DOMAIN out = DOMAIN s.outgoing
      /\ \A i \in F : out[i] = sent(s.outgoing[i])
      /\ \A i \in DOMAIN out \ F : out[i] = s.outgoing[i]
      /\ out = [i \in DOMAIN out |-> out[i]]
  BY <1>2
<1> HIDE DEF out, sent
<1>5. /\ \A i \in DOMAIN out : out[i] \in OutgoingPacket
      /\ \A i \in DOMAIN out : out[i].packet = s.outgoing[i].packet
  BY ZenonT(30), <1>2, <1>3, <1>4
<1>6. IsMapTo(out, OutgoingPacket)
  BY <1>4, <1>5 DEF IsMapTo, StreamOK
<1>7. NotWaiting(t) = N \cup F
  BY <1>1, <1>2, <1>3, <1>4 DEF NotWaiting
<1>8. /\ Total(N \cup F, PL) = Total(N, PL) + Total(F, PL)
      /\ Total(N, PL) \in Nat /\ Total(F, PL) \in Nat
  <2> HIDE DEF N, PL
  <2>1. IsFiniteSet(F) /\ IsFiniteSet(N \cup F)
    BY <1>2, FS_Subset
  <2>2. (N \cup F) \ F = N
    BY <1>2
  <2>3. Total((N \cup F) \ F, PL) = Total(N \cup F, PL) - Total(F, PL)
    <3>1. F \subseteq N \cup F
      OBVIOUS
    <3> QED BY <2>1, <3>1, TotalRemove
  <2>4. Total(N, PL) \in Nat /\ Total(F, PL) \in Nat /\ Total(N \cup F, PL) \in Nat
    BY <1>2, <2>1, BytesFinite
  <2>5. Total(N, PL) = Total(N \cup F, PL) - Total(F, PL)
    BY <2>2, <2>3
  <2> QED BY <2>4, <2>5
<1>9. s.inflight = Total(N, PL)
  BY DEF SenderOK, CountersExact
<1>10. t.inflight = Total(NotWaiting(t), PL) /\ t.inflight \in Nat
  <2> HIDE DEF N, PL
  <2> QED BY <1>1, <1>7, <1>8, <1>9
<1>11. t.send_queue \subseteq Packet
  BY <1>1, <1>2, <1>3 DEF StreamOK
<1>12. StreamOK(t)
  BY ZenonT(30), LeqRefl, <1>1, <1>6, <1>10, <1>11 DEF StreamOK, StreamFields
<1>13. SenderOK(t)
  <2>1. /\ t.seq = s.seq /\ t.remote_acked = s.remote_acked
        /\ t.inflight_packets = s.inflight_packets
        /\ t.inflight_bytes = s.inflight_bytes
    BY ZenonT(30), <1>1 DEF StreamFields
  <2>2. /\ DOMAIN t.outgoing = DOMAIN s.outgoing
        /\ \A i \in DOMAIN s.outgoing : t.outgoing[i].packet = s.outgoing[i].packet
        /\ t.inflight = Total(NotWaiting(t), PacketLen(s.outgoing))
    BY ZenonT(30), <1>1, <1>4, <1>5, <1>10
  <2> QED BY <2>1, <2>2, SameBuffer
<1>14. \A p \in t.send_queue :
          p \in s.send_queue \/ \E i \in DOMAIN s.outgoing : p = s.outgoing[i].packet
  BY ZenonT(30), <1>1, <1>2
<1> QED BY ZenonT(30), <1>1, <1>4, <1>5, <1>12, <1>13, <1>14 DEF t

-----------------------------------------------------------------------------
(* The receive window *)

\* Received data keeps the window intact and only moves ack forward, over
\* packets that are there.
LEMMA ReceiveDataFrame ==
  ASSUME NEW s, StreamOK(s), WindowIntact(s), NEW p \in Packet
  PROVE  LET t == ReceiveData(s, p)
         IN  /\ StreamOK(t) /\ WindowIntact(t)
             /\ s.ack <= t.ack
             /\ DOMAIN s.incoming \subseteq DOMAIN t.incoming
             /\ DOMAIN t.incoming \subseteq DOMAIN s.incoming \cup {p.seq}
             /\ \A f \in StreamFields \ {"incoming", "ack", "read_waker", "drive_waker",
                                         "scheduled", "send_queue"} : t[f] = s[f]
             /\ \E q \in Packet :
                   /\ t.send_queue = s.send_queue \cup {q}
                   /\ q.typ \subseteq {"END"} /\ q.ack = t.ack /\ q.sacks = <<>>
<1> DEFINE inc == IF p.seq >= s.ack
                  THEN Insert(s.incoming, p.seq, [packet |-> p, read_offset |-> 0])
                  ELSE s.incoming
           ack == NextGap(DOMAIN inc, s.ack)
           u == [s EXCEPT !.incoming = inc, !.ack = ack, !.read_waker = @ /\ p.seq > ack]
           t == ReceiveData(s, p)
<1>1. t = SendStatePacket(u)
  BY DEF ReceiveData
<1>2. /\ IsMapTo(inc, IncomingPacket)
      /\ DOMAIN inc = DOMAIN s.incoming \cup (IF p.seq >= s.ack THEN {p.seq} ELSE {})
  <2> DEFINE v == [packet |-> p, read_offset |-> 0]
  <2>1. v \in IncomingPacket /\ p.seq \in Nat
    BY ZenonT(30) DEF IncomingPacket, Packet
  <2>2. IsMapTo(s.incoming, IncomingPacket)
    BY ZenonT(30) DEF StreamOK
  <2>3. CASE p.seq >= s.ack
    <3>1. inc = Insert(s.incoming, p.seq, v)
      BY <2>3
    <3>2. DOMAIN Insert(s.incoming, p.seq, v) = DOMAIN s.incoming \cup {p.seq}
      BY ZenonT(30) DEF Insert
    <3> HIDE DEF v, inc
    <3>3. IsMapTo(Insert(s.incoming, p.seq, v), IncomingPacket)
      BY <2>1, <2>2, InsertMap
    <3> QED BY ZenonT(30), <2>3, <3>1, <3>2, <3>3
  <2>4. CASE ~ (p.seq >= s.ack)
    BY ZenonT(30), <2>2, <2>4
  <2> QED BY ZenonT(30), <2>3, <2>4
<1> HIDE DEF inc
<1>3. s.ack \in Nat /\ DOMAIN inc \subseteq Nat /\ IsFiniteSet(DOMAIN inc)
  BY ZenonT(30), <1>2 DEF StreamOK, IsMapTo
<1>4. /\ ack \in Nat /\ s.ack <= ack /\ ack \notin DOMAIN inc
      /\ s.ack .. (ack - 1) \subseteq DOMAIN inc
  BY <1>3, NextGapProperties
<1> HIDE DEF ack
<1>5. /\ DOMAIN u = StreamFields /\ u.incoming = inc /\ u.ack = ack
      /\ u.read_waker \in BOOLEAN
      /\ \A f \in StreamFields \ {"incoming", "ack", "read_waker"} : u[f] = s[f]
  BY ZenonT(30) DEF StreamOK, StreamFields
<1> HIDE DEF u
<1>6. StreamOK(u)
  BY <1>2, <1>4, <1>5 DEF StreamOK, StreamFields
<1>7. /\ StreamOK(t)
      /\ \A f \in StreamFields \ {"drive_waker", "scheduled", "send_queue"} : t[f] = u[f]
      /\ \E q \in Packet : /\ t.send_queue = u.send_queue \cup {q}
                           /\ q.typ \subseteq {"END"} /\ q.ack = u.ack /\ q.sacks = <<>>
  <2> DEFINE v == SendStatePacket(u)
  <2>1. /\ StreamOK(v)
        /\ \A f \in StreamFields \ {"drive_waker", "scheduled", "send_queue"} : v[f] = u[f]
        /\ \E q \in Packet : /\ v.send_queue = u.send_queue \cup {q}
                             /\ q.typ \subseteq {"END"} /\ q.ack = u.ack /\ q.sacks = <<>>
    BY ZenonT(30), <1>6, SendStatePacketFrame
  <2>2. t = v
    BY ZenonT(30), <1>1
  <2> HIDE DEF v, t
  <2> QED BY ZenonT(30), <2>1, <2>2
<1> HIDE DEF t
<1>8. /\ t.incoming = inc /\ t.ack = ack /\ t.read_cursor = s.read_cursor
      /\ u.send_queue = s.send_queue
  BY ZenonT(30), <1>5, <1>7 DEF StreamFields
<1>9. /\ s.read_cursor \in Nat /\ s.read_cursor <= s.ack
      /\ s.read_cursor .. (s.ack - 1) \subseteq DOMAIN s.incoming
      /\ \A i \in DOMAIN s.incoming : s.read_cursor <= i
  BY ZenonT(30) DEF StreamOK, WindowIntact
<1>10. WindowIntact(t)
  <2>1. s.read_cursor .. (ack - 1) \subseteq DOMAIN inc
    <3> SUFFICES ASSUME NEW i \in s.read_cursor .. (ack - 1) PROVE i \in DOMAIN inc
      OBVIOUS
    <3>1. CASE i < s.ack
      BY <1>2, <1>3, <1>4, <1>9, <3>1
    <3>2. CASE ~ (i < s.ack)
      BY <1>3, <1>4, <1>9, <3>2
    <3> QED BY <3>1, <3>2
  <2>2. \A i \in DOMAIN inc : s.read_cursor <= i
    <3>1. p.seq \in Nat
      BY DEF Packet
    <3> QED BY <1>2, <1>3, <1>9, <3>1
  <2> QED BY <1>3, <1>4, <1>8, <1>9, <2>1, <2>2 DEF WindowIntact
<1>11. \A f \in StreamFields \ {"incoming", "ack", "read_waker", "drive_waker",
                                "scheduled", "send_queue"} : t[f] = s[f]
  BY ZenonT(30), <1>5, <1>7
<1>12. /\ DOMAIN s.incoming \subseteq DOMAIN t.incoming
       /\ DOMAIN t.incoming \subseteq DOMAIN s.incoming \cup {p.seq}
  BY ZenonT(30), <1>2, <1>8
<1>13. \E q \in Packet : /\ t.send_queue = s.send_queue \cup {q}
                         /\ q.typ \subseteq {"END"} /\ q.ack = t.ack /\ q.sacks = <<>>
  BY ZenonT(30), <1>5, <1>7, <1>8
<1> QED BY ZenonT(30), <1>4, <1>7, <1>8, <1>10, <1>11, <1>12, <1>13 DEF t

\* What handling a packet leaves alone, grows or shrinks.
LEMMA HandleIncomingFrame ==
  ASSUME NEW s, StreamOK(s), SenderOK(s), WindowIntact(s), NEW p \in Packet
  PROVE  LET t == HandleIncoming(s, p)
         IN  /\ StreamOK(t) /\ SenderOK(t) /\ WindowIntact(t)
             /\ t.seq = s.seq /\ t.remote_acked = s.remote_acked
             /\ t.read_cursor = s.read_cursor
             /\ s.ack <= t.ack
             /\ DOMAIN s.incoming \subseteq DOMAIN t.incoming
             /\ \A i \in DOMAIN t.incoming \ DOMAIN s.incoming :
                   "DATA" \in p.typ /\ i = p.seq
             /\ DOMAIN t.outgoing \subseteq DOMAIN s.outgoing
             /\ \A i \in DOMAIN t.outgoing : t.outgoing[i] = s.outgoing[i]
             /\ \A i \in DOMAIN s.outgoing \ DOMAIN t.outgoing :
                   /\ "SACK" \in p.typ
                   /\ \E k \in 1 .. Len(p.sacks) : p.sacks[k][1] <= i /\ i < p.sacks[k][2]
             /\ \A q \in t.send_queue :
                   \/ q \in s.send_queue
                   \/ (q.typ \subseteq {"END"} /\ q.ack <= t.ack /\ q.sacks = <<>>)
<1> DEFINE s1 == IF "SACK" \in p.typ THEN HandleIncomingSacks(s, p) ELSE s
           r == [s1 EXCEPT !.state = CloseRemote(@)]
           s2 == IF "END" \in p.typ THEN Terminate(r, "UnexpectedEof") ELSE s1
           s3 == IF "DATA" \in p.typ THEN ReceiveData(s2, p) ELSE s2
           t == HandleIncoming(s, p)
<1>1. t = GrowWindow(s3, p.ack)
  BY DEF HandleIncoming
<1>2. /\ StreamOK(s1) /\ SenderOK(s1)
      /\ DOMAIN s1.outgoing \subseteq DOMAIN s.outgoing
      /\ \A i \in DOMAIN s1.outgoing : s1.outgoing[i] = s.outgoing[i]
      /\ \A i \in DOMAIN s.outgoing \ DOMAIN s1.outgoing :
            /\ "SACK" \in p.typ
            /\ \E k \in 1 .. Len(p.sacks) : p.sacks[k][1] <= i /\ i < p.sacks[k][2]
      /\ \A f \in StreamFields \ {"outgoing", "inflight", "inflight_bytes",
                                  "inflight_packets"} : s1[f] = s[f]
  <2>1. CASE "SACK" \in p.typ
    <3>1. s1 = HandleIncomingSacks(s, p)
      BY ZenonT(30), <2>1
    <3> HIDE DEF s1
    <3> QED BY <2>1, <3>1, HandleIncomingSacksFrame
  <2>2. CASE "SACK" \notin p.typ
    BY ZenonT(30), <2>2
  <2> QED BY ZenonT(30), <2>1, <2>2
<1> HIDE DEF s1
<1>3. /\ s1.seq = s.seq /\ s1.remote_acked = s.remote_acked /\ s1.ack = s.ack
      /\ s1.incoming = s.incoming /\ s1.read_cursor = s.read_cursor
      /\ s1.send_queue = s.send_queue
  BY ZenonT(30), <1>2 DEF StreamFields
<1>4. WindowIntact(s1)
  BY ZenonT(30), <1>3 DEF WindowIntact
<1>5. StreamOK(r) /\ \A f \in StreamFields \ {"state"} : r[f] = s1[f]
  <2>1. CloseRemote(s1.state) \in StreamStates
    BY DEF CloseRemote, StreamStates
  <2> QED BY ZenonT(30), <1>2, <2>1 DEF StreamOK, StreamFields
<1> HIDE DEF r
<1>6. /\ StreamOK(s2)
      /\ \A f \in StreamFields \ {"drive_waker", "scheduled", "send_queue", "error",
                                  "state", "read_waker", "write_waker"} : s2[f] = s1[f]
      /\ \A q \in s2.send_queue :
            \/ q \in s1.send_queue
            \/ (q.typ \subseteq {"END"} /\ q.ack = s1.ack /\ q.sacks = <<>>)
  <2>1. CASE "END" \in p.typ
    <3>5. PICK err \in Errors : err = "UnexpectedEof"
      BY DEF Errors
    <3> DEFINE u == Terminate(r, err)
    <3>1. s2 = u
      BY ZenonT(30), <2>1, <3>5
    <3> HIDE DEF s2
    <3>6. StreamOK(u)
      BY ZenonT(30), <1>5, TerminateFrame
    <3>7. \A f \in StreamFields \ {"drive_waker", "scheduled", "send_queue", "error",
                                   "state", "read_waker", "write_waker"} : u[f] = r[f]
      BY <1>5, TerminateFrame
    <3>8. \A q \in u.send_queue :
             \/ q \in r.send_queue
             \/ (q.typ \subseteq {"END"} /\ q.ack = r.ack /\ q.sacks = <<>>)
      BY ZenonT(30), <1>5, TerminateFrame
    <3> HIDE DEF u
    <3>3. r.ack = s1.ack /\ r.send_queue = s1.send_queue
      BY ZenonT(30), <1>5 DEF StreamFields
    <3>4. \A f \in StreamFields \ {"drive_waker", "scheduled", "send_queue", "error",
                                   "state", "read_waker", "write_waker"} : u[f] = s1[f]
      BY ZenonT(30), <1>5, <3>7
    <3> QED BY ZenonT(30), <3>1, <3>6, <3>8, <3>3, <3>4
  <2>2. CASE "END" \notin p.typ
    <3>1. s2 = s1
      BY ZenonT(30), <2>2
    <3> HIDE DEF s2
    <3> QED BY ZenonT(30), <1>2, <3>1
  <2> QED BY ZenonT(30), <2>1, <2>2
<1> HIDE DEF s2
<1>7. /\ s2.seq = s.seq /\ s2.remote_acked = s.remote_acked /\ s2.ack = s.ack
      /\ s2.incoming = s.incoming /\ s2.read_cursor = s.read_cursor
      /\ s2.outgoing = s1.outgoing /\ s2.inflight = s1.inflight
      /\ s2.inflight_packets = s1.inflight_packets /\ s2.inflight_bytes = s1.inflight_bytes
  BY ZenonT(30), <1>3, <1>6 DEF StreamFields
<1>8. WindowIntact(s2)
  BY ZenonT(30), <1>4, <1>3, <1>7 DEF WindowIntact
<1>9. /\ StreamOK(s3) /\ WindowIntact(s3)
      /\ s2.ack <= s3.ack
      /\ DOMAIN s2.incoming \subseteq DOMAIN s3.incoming
      /\ \A i \in DOMAIN s3.incoming \ DOMAIN s2.incoming : "DATA" \in p.typ /\ i = p.seq
      /\ \A f \in StreamFields \ {"incoming", "ack", "read_waker", "drive_waker",
                                  "scheduled", "send_queue"} : s3[f] = s2[f]
      /\ \A q \in s3.send_queue :
            \/ q \in s2.send_queue
            \/ (q.typ \subseteq {"END"} /\ q.ack = s3.ack /\ q.sacks = <<>>)
  <2>1. CASE "DATA" \in p.typ
    <3> DEFINE u == ReceiveData(s2, p)
    <3>1. s3 = u
      BY ZenonT(30), <2>1
    <3>2. /\ StreamOK(u) /\ WindowIntact(u)
          /\ s2.ack <= u.ack
          /\ DOMAIN s2.incoming \subseteq DOMAIN u.incoming
          /\ DOMAIN u.incoming \subseteq DOMAIN s2.incoming \cup {p.seq}
          /\ \A f \in StreamFields \ {"incoming", "ack", "read_waker", "drive_waker",
                                      "scheduled", "send_queue"} : u[f] = s2[f]
          /\ \E q \in Packet :
                /\ u.send_queue = s2.send_queue \cup {q}
                /\ q.typ \subseteq {"END"} /\ q.ack = u.ack /\ q.sacks = <<>>
      BY <1>6, <1>8, ReceiveDataFrame, ZenonT(30)
    <3> HIDE DEF u, s3
    <3> QED BY ZenonT(30), <2>1, <3>1, <3>2
  <2>2. CASE "DATA" \notin p.typ
    <3>1. s3 = s2 /\ s2.ack \in Nat
      BY ZenonT(30), <1>6, <2>2 DEF StreamOK
    <3> HIDE DEF s3
    <3> QED BY <1>6, <1>8, <3>1
  <2> QED BY ZenonT(30), <2>1, <2>2
<1> HIDE DEF s3
<1>10. p.ack \in Nat
  BY DEF Packet
<1>11. StreamOK(t) /\ \A f \in StreamFields \ {"cwnd"} : t[f] = s3[f]
  <2> DEFINE v == GrowWindow(s3, p.ack)
  <2>1. StreamOK(v) /\ \A f \in StreamFields \ {"cwnd"} : v[f] = s3[f]
    BY ZenonT(30), <1>9, <1>10, GrowWindowFrame
  <2>2. t = v
    BY ZenonT(30), <1>1
  <2> HIDE DEF v, t
  <2> QED BY ZenonT(30), <2>1, <2>2
<1> HIDE DEF t
<1>12. /\ t.seq = s.seq /\ t.remote_acked = s.remote_acked
       /\ t.read_cursor = s.read_cursor /\ t.ack = s3.ack
       /\ t.incoming = s3.incoming /\ t.send_queue = s3.send_queue
       /\ t.read_cursor = s3.read_cursor
       /\ t.outgoing = s1.outgoing /\ t.inflight = s1.inflight
       /\ t.inflight_packets = s1.inflight_packets /\ t.inflight_bytes = s1.inflight_bytes
  BY <1>7, <1>9, <1>11 DEF StreamFields
<1>13. SenderOK(t)
  BY ZenonT(30), <1>2, <1>3, <1>12 DEF SenderOK, CountersExact, NotWaiting
<1>14. WindowIntact(t)
  BY ZenonT(30), <1>9, <1>12 DEF WindowIntact
<1>15. /\ s.ack <= t.ack
       /\ DOMAIN s.incoming \subseteq DOMAIN t.incoming
       /\ \A i \in DOMAIN t.incoming \ DOMAIN s.incoming : "DATA" \in p.typ /\ i = p.seq
  BY ZenonT(30), <1>7, <1>9, <1>12
<1>16. \A q \in t.send_queue :
          \/ q \in s.send_queue
          \/ (q.typ \subseteq {"END"} /\ q.ack <= t.ack /\ q.sacks = <<>>)
  <2>1. s.ack \in Nat /\ t.ack \in Nat
    BY ZenonT(30), <1>11 DEF StreamOK
  <2> QED BY <1>3, <1>6, <1>9, <1>12, <1>15, <2>1
<1> QED BY ZenonT(30), <1>2, <1>11, <1>12, <1>13, <1>14, <1>15, <1>16 DEF t

-----------------------------------------------------------------------------
(* The reader *)

\* The packets poll_read takes whole are the next ones in turn, all of them
\* acknowledged, and their unread bytes fit the buffer.
LEMMA FullyReadSegment ==
  ASSUME NEW s, StreamOK(s), WindowIntact(s), NEW cap \in Nat
  PROVE  LET full == FullyRead(s, cap)
             next == s.read_cursor + Cardinality(full)
         IN  /\ full \subseteq DOMAIN s.incoming
             /\ full = s.read_cursor .. (next - 1)
             /\ next \in Nat /\ s.read_cursor <= next /\ next <= s.ack
             /\ Total(full, Unread(s.incoming)) \in 0 .. cap
<1> DEFINE full == FullyRead(s, cap)
           rc == s.read_cursor
           U == Unread(s.incoming)
           next == rc + Cardinality(full)
<1>1. rc \in Nat /\ s.ack \in Nat /\ DOMAIN s.incoming \subseteq Nat /\ IsFiniteSet(DOMAIN s.incoming)
  BY ZenonT(30) DEF StreamOK, IsMapTo
<1>2. full \subseteq DOMAIN s.incoming /\ full \subseteq Nat
  BY ZenonT(30), <1>1 DEF FullyRead, Run
<1>3. IsFiniteSet(full) /\ Cardinality(full) \in Nat
  BY <1>1, <1>2, FS_Subset, FS_CardinalityType
<1>4. ASSUME NEW k \in full
      PROVE  rc <= k /\ k < s.ack /\ rc .. k \subseteq full
  <2>1. /\ k \in Nat /\ rc <= k /\ rc .. k \subseteq DOMAIN s.incoming
        /\ Total(rc .. k, U) <= cap
    BY ZenonT(30), <1>2 DEF FullyRead, Run
  <2>2. k < s.ack
    BY <1>1, <2>1 DEF WindowIntact
  <2>3. ASSUME NEW j \in rc .. k PROVE j \in full
    <3>1. j \in Nat /\ rc <= j /\ rc .. j \subseteq rc .. k /\ j \in DOMAIN s.incoming
      BY <1>1, <2>1
    <3>2. IsFiniteSet(rc .. k)
      BY <1>1, <2>1, FS_Interval
    <3>3. Total(rc .. j, U) \in Nat /\ Total(rc .. j, U) <= Total(rc .. k, U)
      BY ZenonT(30), <3>1, <3>2, TotalRemove
    <3>4. Total(rc .. k, U) \in Nat
      BY <3>2, BytesFinite
    <3>5. Total(rc .. j, U) <= cap
      BY <2>1, <3>3, <3>4
    <3> QED BY ZenonT(30), <2>1, <3>1, <3>5 DEF FullyRead, Run
  <2> QED BY ZenonT(30), <2>1, <2>2, <2>3
<1>5. full = rc .. (next - 1)
  <2>1. \A k \in full : rc <= k /\ rc .. k \subseteq full
    BY <1>4
  <2> HIDE DEF full, rc
  <2>2. full = rc .. (rc + Cardinality(full) - 1)
    BY ZenonT(30), <1>1, <1>2, <1>3, <2>1, InitialSegment, Zenon
  <2> QED BY <1>1, <1>3, <2>2
<1>6. next \in Nat /\ rc <= next /\ next <= s.ack
  <2> HIDE DEF full
  <2>1. next \in Nat /\ rc <= next
    BY <1>1, <1>3
  <2>2. rc <= s.ack
    BY ZenonT(30) DEF WindowIntact
  <2>3. CASE next = rc
    BY <2>1, <2>2, <2>3
  <2>4. CASE next # rc
    <3>1. next - 1 \in full
      BY <1>1, <1>5, <2>1, <2>4
    <3> QED BY <1>1, <1>4, <2>1, <3>1
  <2> QED BY ZenonT(30), <2>3, <2>4
<1>7. Total(full, U) \in 0 .. cap
  <2>1. Total(full, U) \in Nat
    BY ZenonT(30), <1>3, BytesFinite
  <2>2. CASE next = rc
    <3>1. full = {}
      BY <1>1, <1>5, <2>2
    <3>2. Bytes(full, U) = {}
      BY <3>1 DEF Bytes
    <3>3. Total(full, U) = 0
      BY <3>2, FS_EmptySet DEF Total
    <3> QED BY <3>3
  <2>3. CASE next # rc
    <3>1. next - 1 \in full
      <4> HIDE DEF full, next
      <4> QED BY <1>1, <1>5, <1>6, <2>3
    <3>2. Total(rc .. (next - 1), U) <= cap
      BY ZenonT(30), <3>1 DEF FullyRead
    <3> QED BY <1>5, <2>1, <3>2
  <2> QED BY ZenonT(30), <2>2, <2>3
<1> QED BY ZenonT(30), <1>2, <1>5, <1>6, <1>7

\* poll_read moves read_cursor over packets it removes, all below ack, and
\* touches neither the acknowledgement nor the sending half.
LEMMA PollReadFrame ==
  ASSUME NEW s, StreamOK(s), WindowIntact(s), NEW cap \in Nat
  PROVE  LET t == PollRead(s, cap)
         IN  /\ StreamOK(t) /\ WindowIntact(t)
             /\ DOMAIN t.incoming \subseteq DOMAIN s.incoming
             /\ \A i \in DOMAIN s.incoming \ DOMAIN t.incoming : i < s.ack
             /\ s.read_cursor <= t.read_cursor
             /\ \A f \in StreamFields \ {"incoming", "read_cursor", "read_waker"} :
                   t[f] = s[f]
<1> DEFINE full == FullyRead(s, cap)
           rc == s.read_cursor
           next == rc + Cardinality(full)
           rest == cap - Total(full, Unread(s.incoming))
           inc == [k \in DOMAIN s.incoming \ full |->
                     IF k = next THEN [s.incoming[k] EXCEPT !.read_offset = @ + rest]
                     ELSE s.incoming[k]]
           rw == s.read_waker \/ (~ DidRead(s, cap) /\ s.error = "none")
           u == [s EXCEPT !.incoming = inc, !.read_cursor = next]
           t == PollRead(s, cap)
<1>1. /\ full \subseteq DOMAIN s.incoming
      /\ full = rc .. (next - 1)
      /\ next \in Nat /\ rc <= next /\ next <= s.ack
      /\ Total(full, Unread(s.incoming)) \in 0 .. cap
  BY ZenonT(30), FullyReadSegment
<1>2. u = ReadNext(s, cap)
  BY DEF ReadNext
<1>3. t = [u EXCEPT !.read_waker = @ \/ (~ DidRead(s, cap) /\ s.error = "none")]
  BY ZenonT(30), <1>2 DEF PollRead
<1>4. rest \in Nat
  BY <1>1
<1> HIDE DEF full, next, rest
<1>5. IsMapTo(inc, IncomingPacket) /\ DOMAIN inc = DOMAIN s.incoming \ full
  <2>1. /\ DOMAIN s.incoming \subseteq Nat /\ IsFiniteSet(DOMAIN s.incoming)
        /\ \A k \in DOMAIN s.incoming : s.incoming[k] \in IncomingPacket
    BY ZenonT(30) DEF StreamOK, IsMapTo
  <2>2. IsFiniteSet(DOMAIN s.incoming \ full)
    BY ZenonT(30), <2>1, FS_Subset
  <2>3. ASSUME NEW k \in DOMAIN inc PROVE inc[k] \in IncomingPacket
    <3>1. k \in DOMAIN s.incoming /\ s.incoming[k] \in IncomingPacket
      BY <2>1
    <3>2. PICK o \in IncomingPacket : o = s.incoming[k]
      BY <3>1
    <3>3. [o EXCEPT !.read_offset = @ + rest] \in IncomingPacket
      BY <1>4 DEF IncomingPacket
    <3> QED BY <3>1, <3>2, <3>3
  <2>4. inc = [k \in DOMAIN inc |-> inc[k]]
    OBVIOUS
  <2>5. DOMAIN inc = DOMAIN s.incoming \ full
    OBVIOUS
  <2> HIDE DEF inc
  <2> QED BY ZenonT(30), <2>1, <2>2, <2>3, <2>4, <2>5 DEF IsMapTo
<1> HIDE DEF inc
<1>6. /\ DOMAIN t = StreamFields /\ t.incoming = inc /\ t.read_cursor = next
      /\ t.read_waker \in BOOLEAN
      /\ \A f \in StreamFields \ {"incoming", "read_cursor", "read_waker"} : t[f] = s[f]
  BY ZenonT(30), <1>3 DEF StreamOK, StreamFields
<1> HIDE DEF t, u
<1>7. StreamOK(t)
  BY ZenonT(30), <1>1, <1>5, <1>6 DEF StreamOK, StreamFields
<1>8. t.ack = s.ack
  BY ZenonT(30), <1>6 DEF StreamFields
<1>9. WindowIntact(t)
  <2>1. /\ rc \in Nat /\ s.ack \in Nat /\ DOMAIN s.incoming \subseteq Nat
    BY ZenonT(30) DEF StreamOK, IsMapTo
  <2>2. next .. (s.ack - 1) \subseteq DOMAIN inc
    BY <1>1, <1>5, <2>1 DEF WindowIntact
  <2>3. \A i \in DOMAIN inc : next <= i
    BY <1>1, <1>5, <2>1 DEF WindowIntact
  <2> QED BY ZenonT(30), <1>1, <1>5, <1>6, <1>8, <2>2, <2>3 DEF WindowIntact
<1>10. \A i \in DOMAIN s.incoming \ DOMAIN t.incoming : i < s.ack
  <2>1. s.ack \in Nat /\ rc \in Nat
    BY ZenonT(30) DEF StreamOK
  <2> QED BY <1>1, <1>5, <1>6, <2>1
<1> QED BY ZenonT(30), <1>1, <1>5, <1>6, <1>7, <1>9, <1>10 DEF t

-----------------------------------------------------------------------------
(* Sums of consecutive packets *)

\* The sum over no packet is zero.
LEMMA TotalEmpty ==
  ASSUME NEW f
  PROVE  Total({}, f) = 0
<1>1. Bytes({}, f) = {}
  BY DEF Bytes
<1> QED BY <1>1, FS_EmptySet DEF Total

\* An interval is the one without its last position, and that position.
LEMMA LastOne ==
  \A l, h \in Nat : \A x \in l .. h : l .. x = (l .. (x - 1)) \cup {x} /\ x \notin l .. (x - 1)
  OBVIOUS

\* Packets that lie end to end, packet i from g[i] to g[i + 1], add up to the
\* distance between their ends.
LEMMA Telescope ==
  ASSUME NEW a \in Nat, NEW b \in Nat, a <= b, NEW g, NEW f,
         \A i \in a .. b : g[i] \in Nat,
         \A i \in a .. (b - 1) : f[i] = g[i + 1] - g[i] /\ f[i] \in 0 .. MTU
  PROVE  Total(a .. (b - 1), f) = g[b] - g[a]
<1> DEFINE T == {k \in a .. b : Total(a .. (k - 1), f) # g[k] - g[a]}
<1> SUFFICES ASSUME T # {} PROVE FALSE
  OBVIOUS
<1>1. PICK k \in T : \A y \in T : k <= y
  <2>1. T \subseteq Nat
    OBVIOUS
  <2> QED BY ZenonT(30), <2>1, LeastElement
<1>2. k \in a .. b /\ Total(a .. (k - 1), f) # g[k] - g[a]
  BY ZenonT(30)
<1>3. k # a
  <2>1. a .. (a - 1) = {}
    OBVIOUS
  <2>2. Total(a .. (a - 1), f) = 0
    BY ZenonT(30), <2>1, TotalEmpty
  <2>3. g[a] \in Nat
    OBVIOUS
  <2> QED BY <1>2, <2>2, <2>3
<1> DEFINE j == k - 1
<1>4. j \in a .. b /\ j \notin T
  BY <1>1, <1>2, <1>3
<1> HIDE DEF j
<1>5. Total(a .. (j - 1), f) = g[j] - g[a]
  BY ZenonT(30), <1>4
<1>6. a .. j = (a .. (j - 1)) \cup {j} /\ j \notin a .. (j - 1)
  BY ZenonT(30), <1>4, LastOne
<1>7. IsFiniteSet(a .. (j - 1))
  BY <1>4, FS_Interval
<1>8. j \in a .. (b - 1) /\ j + 1 = k
  BY <1>2, <1>3 DEF j
<1>9. f[j] = g[k] - g[j] /\ f[j] \in 0 .. MTU
  BY ZenonT(30), <1>8
<1> HIDE DEF T
<1>10. Total((a .. (j - 1)) \cup {j}, f) = Total(a .. (j - 1), f) + f[j]
  BY ZenonT(30), <1>6, <1>7, <1>9, TotalAdd
<1>11. Total(a .. j, f) = g[k] - g[a]
  <2>1. g[k] \in Nat /\ g[j] \in Nat /\ g[a] \in Nat
    BY <1>2, <1>4
  <2>2. Total(a .. j, f) = Total(a .. (j - 1), f) + f[j]
    BY ZenonT(30), <1>6, <1>10
  <2>3. Total(a .. j, f) = (g[j] - g[a]) + (g[k] - g[j])
    BY ZenonT(30), <1>5, <1>9, <2>2
  <2> QED BY <2>1, <2>3
<1> QED BY ZenonT(30), <1>2, <1>11 DEF j

-----------------------------------------------------------------------------
(* The bytes of one direction *)

\* n packets lie end to end, packet i from byte off[i] to byte off[i + 1].
Cuts(off, n) ==
  /\ off \in [0 .. n -> Nat]
  /\ off[0] = 0
  /\ \A i, j \in 0 .. n : i < j => off[i] < off[j]
  /\ \A i \in 0 .. (n - 1) : off[i + 1] - off[i] <= MAX_DATA_SIZE

\* The payload of m is the bytes of packet number m.seq.
IsPiece(off, m) == m.off = off[m.seq] /\ m.off + m.len = off[m.seq + 1]

\* How much of the packet at read_cursor the reader was given.
InPacket(r) ==
  IF r.read_cursor \in DOMAIN r.incoming
  THEN r.incoming[r.read_cursor].read_offset ELSE 0

\* The stream r holds pieces of the same cut, and its reader was given all
\* bytes before the packet at read_cursor and some of its own.
Reading(r, given, off) ==
  /\ \A k \in DOMAIN r.incoming :
        /\ r.incoming[k].packet.seq = k /\ IsPiece(off, r.incoming[k].packet)
        /\ r.incoming[k].read_offset <= r.incoming[k].packet.len
        /\ k # r.read_cursor => r.incoming[k].read_offset = 0
  /\ given = off[r.read_cursor] + InPacket(r)

\* The packets read_next can take are those between read_cursor and ack.
LEMMA RunIsWindow ==
  ASSUME NEW r, StreamOK(r), WindowIntact(r)
  PROVE  Run(r) = r.read_cursor .. (r.ack - 1)
<1>1. r.read_cursor \in Nat /\ r.ack \in Nat /\ DOMAIN r.incoming \subseteq Nat
  BY ZenonT(30) DEF StreamOK, IsMapTo
<1>2. /\ r.read_cursor <= r.ack /\ r.ack \notin DOMAIN r.incoming
      /\ r.read_cursor .. (r.ack - 1) \subseteq DOMAIN r.incoming
  BY ZenonT(30) DEF WindowIntact
<1>3. ASSUME NEW k \in Run(r) PROVE k \in r.read_cursor .. (r.ack - 1)
  <2>1. /\ k \in Nat /\ r.read_cursor <= k
        /\ \A j \in r.read_cursor .. k : j \in DOMAIN r.incoming
    BY <1>1 DEF Run
  <2>2. ~ (r.ack <= k)
    BY <1>1, <1>2, <2>1
  <2> QED BY <1>1, <2>1, <2>2
<1>4. ASSUME NEW k \in r.read_cursor .. (r.ack - 1) PROVE k \in Run(r)
  <2>1. k \in DOMAIN r.incoming /\ r.read_cursor <= k
    BY <1>1, <1>2
  <2>2. \A j \in r.read_cursor .. k : j \in DOMAIN r.incoming
    BY <1>1, <1>2
  <2> QED BY ZenonT(30), <2>1, <2>2 DEF Run
<1> QED BY ZenonT(30), <1>3, <1>4

\* The unread bytes of the packets before packet k are those from what the
\* reader was given to the start of packet k.
LEMMA WindowBytes ==
  ASSUME NEW r, StreamOK(r), WindowIntact(r), NEW n \in Nat, r.ack <= n,
         NEW off, Cuts(off, n), NEW given, Reading(r, given, off),
         NEW k \in r.read_cursor .. r.ack
  PROVE  /\ given \in Nat
         /\ \A i \in 0 .. n : off[i] \in Nat
         /\ k # r.read_cursor => /\ given <= off[k]
                                /\ Total(r.read_cursor .. (k - 1), Unread(r.incoming))
                                      = off[k] - given
<1> DEFINE rc == r.read_cursor
           U == Unread(r.incoming)
           g == [i \in rc .. k |-> IF i = rc THEN given ELSE off[i]]
<1>1. /\ rc \in Nat /\ r.ack \in Nat /\ rc <= r.ack /\ k \in Nat /\ rc <= k /\ k <= n
      /\ rc .. (r.ack - 1) \subseteq DOMAIN r.incoming
  BY DEF StreamOK, WindowIntact
<1>2. ASSUME NEW i \in DOMAIN r.incoming
      PROVE  /\ r.incoming[i].read_offset \in Nat /\ r.incoming[i].packet.len \in Nat
             /\ r.incoming[i].packet.off \in Nat
  BY ZenonT(30) DEF StreamOK, IsMapTo, IncomingPacket, Packet
<1>3. \A i \in 0 .. n : off[i] \in Nat
  BY ZenonT(30) DEF Cuts
<1>4. InPacket(r) \in Nat
  BY ZenonT(30), <1>2 DEF InPacket
<1>5. given \in Nat /\ given = off[rc] + InPacket(r)
  <2>1. rc \in 0 .. n
    BY <1>1
  <2>2. given = off[rc] + InPacket(r)
    BY ZenonT(30) DEF Reading
  <2> QED BY <1>3, <1>4, <2>1, <2>2
<1>6. ASSUME NEW i \in rc .. (k - 1)
      PROVE  /\ g[i + 1] = off[i + 1] /\ g[i] \in Nat /\ g[i + 1] \in Nat
             /\ U[i] = g[i + 1] - g[i] /\ U[i] \in 0 .. MTU
  <2>1. /\ i \in DOMAIN r.incoming /\ i \in 0 .. (n - 1) /\ i + 1 \in 0 .. n /\ i \in 0 .. n
        /\ i + 1 \in rc .. k /\ i + 1 # rc /\ i \in rc .. k
    BY <1>1
  <2>2. g[i + 1] = off[i + 1] /\ g[i] = IF i = rc THEN given ELSE off[i]
    BY ZenonT(30), <2>1
  <2> DEFINE q == r.incoming[i]
  <2>3. /\ q.packet.seq = i /\ IsPiece(off, q.packet) /\ q.read_offset <= q.packet.len
        /\ i # rc => q.read_offset = 0
    BY ZenonT(30), <2>1 DEF Reading
  <2>4. q.packet.off = off[i] /\ q.packet.off + q.packet.len = off[i + 1]
    BY ZenonT(30), <2>3 DEF IsPiece
  <2>5. i = rc => InPacket(r) = q.read_offset
    BY ZenonT(30), <2>1 DEF InPacket
  <2>6. U[i] = q.packet.len - q.read_offset
    BY ZenonT(30), <2>1 DEF Unread
  <2>7. off[i + 1] - off[i] <= MAX_DATA_SIZE /\ MAX_DATA_SIZE <= MTU /\ MTU \in Nat /\ MAX_DATA_SIZE \in Nat
    BY <2>1, ConstantsAssumption DEF Cuts, MTU
  <2>8. off[i] \in Nat /\ off[i + 1] \in Nat
    BY ZenonT(30), <1>3, <2>1
  <2>9. q.read_offset \in Nat /\ q.packet.len \in Nat
    BY ZenonT(30), <1>2, <2>1
  <2> HIDE DEF g, U, q
  <2>10. g[i] = off[i] + q.read_offset
    BY <1>5, <2>2, <2>3, <2>5, <2>8
  <2> QED BY <2>2, <2>3, <2>4, <2>6, <2>7, <2>8, <2>9, <2>10
<1>7. ASSUME k # rc
      PROVE  given <= off[k] /\ Total(rc .. (k - 1), U) = off[k] - given
  <2>1. g[k] = off[k] /\ g[rc] = given
    BY <1>1, <1>7
  <2>2. \A i \in rc .. k : g[i] \in Nat
    BY <1>1, <1>3, <1>5
  <2> HIDE DEF g
  <2>3. Total(rc .. (k - 1), U) = g[k] - g[rc]
    <3> HIDE DEF rc, U
    <3>1. \A i \in rc .. (k - 1) : U[i] = g[i + 1] - g[i] /\ U[i] \in 0 .. MTU
      BY ZenonT(30), <1>6
    <3>2. rc \in Nat /\ k \in Nat /\ rc <= k
      BY ZenonT(30), <1>1
    <3> QED BY ZenonT(30), <3>1, <3>2, <2>2, Telescope
  <2>4. Total(rc .. (k - 1), U) \in Nat
    <3>1. rc \in Int /\ k - 1 \in Int
      BY <1>1
    <3>2. IsFiniteSet(rc .. (k - 1))
      BY ZenonT(30), <3>1, FS_Interval
    <3> HIDE DEF rc, U
    <3> QED BY ZenonT(30), <3>2, BytesFinite
  <2>5. off[k] \in Nat
    BY <1>1, <1>3
  <2> QED BY <1>5, <2>1, <2>3, <2>4, <2>5
<1> QED BY ZenonT(30), <1>3, <1>5, <1>7

\* What was given and what could be read reach to the packet expected next.
LEMMA ReadableEnd ==
  ASSUME NEW r, StreamOK(r), WindowIntact(r), NEW n \in Nat, r.ack <= n,
         NEW off, Cuts(off, n), NEW given, Reading(r, given, off)
  PROVE  /\ given \in Nat /\ off[r.ack] \in Nat /\ given <= off[r.ack]
         /\ Total(Run(r), Unread(r.incoming)) = off[r.ack] - given
<1>1. /\ r.read_cursor \in Nat /\ r.ack \in Nat /\ r.read_cursor <= r.ack
      /\ r.ack \in r.read_cursor .. r.ack /\ r.ack \in 0 .. n
  BY DEF StreamOK, WindowIntact
<1>2. Run(r) = r.read_cursor .. (r.ack - 1)
  BY ZenonT(30), RunIsWindow
<1>3. given \in Nat /\ off[r.ack] \in Nat
  BY ZenonT(30), <1>1, WindowBytes
<1>4. CASE r.read_cursor # r.ack
  BY <1>1, <1>2, <1>3, <1>4, WindowBytes
<1>5. CASE r.read_cursor = r.ack
  <2>1. InPacket(r) = 0
    BY ZenonT(30), <1>5 DEF InPacket, WindowIntact
  <2>2. given = off[r.ack] + 0
    BY ZenonT(30), <1>5, <2>1 DEF Reading
  <2>3. Run(r) = {}
    BY <1>1, <1>2, <1>5
  <2>4. Total(Run(r), Unread(r.incoming)) = 0
    BY ZenonT(30), <2>3, TotalEmpty
  <2> QED BY <1>3, <2>2, <2>4
<1> QED BY ZenonT(30), <1>4, <1>5

\* poll_read takes the bytes that follow those already given, in whole
\* packets and a part of the next; without a whole packet there was nothing.
ReadOn(r, cap, given, off) ==
  LET U == Unread(r.incoming)
      next == r.read_cursor + Cardinality(FullyRead(r, cap))
      t == PollRead(r, cap)
  IN  /\ DidRead(r, cap) => Reading(t, given + Smaller(cap, Total(Run(r), U)), off)
      /\ ~ DidRead(r, cap) => Reading(t, given, off) /\ r.read_cursor = r.ack
      /\ \A k \in Run(r) \cap (r.read_cursor .. next) :
            r.incoming[k].packet.off + r.incoming[k].read_offset
              = given + Total({j \in Run(r) : j < k}, U)

\* So it does, from any window whose unread bytes follow those given.
LEMMA PollReadBytes ==
  ASSUME NEW r, StreamOK(r), WindowIntact(r), NEW n \in Nat, r.ack <= n,
         NEW off, Cuts(off, n), NEW given, Reading(r, given, off),
         NEW cap \in Nat, MAX_DATA_SIZE <= cap
  PROVE  ReadOn(r, cap, given, off)
<1> DEFINE rc == r.read_cursor
           U == Unread(r.incoming)
           full == FullyRead(r, cap)
           next == rc + Cardinality(full)
           rest == cap - Total(full, U)
           inc == [k \in DOMAIN r.incoming \ full |->
                     IF k = next THEN [r.incoming[k] EXCEPT !.read_offset = @ + rest]
                     ELSE r.incoming[k]]
           t == PollRead(r, cap)
           put == Smaller(cap, Total(Run(r), U))
<1> SUFFICES /\ DidRead(r, cap) => Reading(t, given + put, off)
             /\ ~ DidRead(r, cap) => Reading(t, given, off) /\ rc = r.ack
             /\ \A k \in Run(r) \cap (rc .. next) :
                   r.incoming[k].packet.off + r.incoming[k].read_offset
                     = given + Total({j \in Run(r) : j < k}, U)
  BY ZenonT(30) DEF ReadOn
<1>1. /\ rc \in Nat /\ r.ack \in Nat /\ rc <= r.ack /\ DOMAIN r.incoming \subseteq Nat
      /\ r.ack \notin DOMAIN r.incoming /\ \A i \in DOMAIN r.incoming : rc <= i
      /\ rc .. (r.ack - 1) \subseteq DOMAIN r.incoming
  BY ZenonT(30) DEF StreamOK, IsMapTo, WindowIntact
<1>2. /\ full = rc .. (next - 1) /\ next \in Nat /\ rc <= next /\ next <= r.ack
      /\ Total(full, U) \in 0 .. cap
  BY ZenonT(30), FullyReadSegment
<1>3. t.incoming = inc /\ t.read_cursor = next
  <2>1. DOMAIN r = StreamFields
    BY ZenonT(30) DEF StreamOK
  <2>2. t = [[r EXCEPT !.incoming = inc, !.read_cursor = next] EXCEPT
               !.read_waker = @ \/ (~ DidRead(r, cap) /\ r.error = "none")]
    BY DEF PollRead, ReadNext
  <2> HIDE DEF inc, next
  <2> QED BY <2>1, <2>2 DEF StreamFields
<1>4. Run(r) = rc .. (r.ack - 1)
  BY ZenonT(30), RunIsWindow
<1>5. /\ given \in Nat /\ off[r.ack] \in Nat /\ given <= off[r.ack]
      /\ Total(Run(r), U) = off[r.ack] - given
  BY ZenonT(30), ReadableEnd
<1>6. \A k \in rc .. r.ack : k # rc => /\ off[k] \in Nat /\ given <= off[k]
                                       /\ Total(rc .. (k - 1), U) = off[k] - given
  <2> SUFFICES ASSUME NEW k \in rc .. r.ack, k # rc
               PROVE  /\ off[k] \in Nat /\ given <= off[k]
                      /\ Total(rc .. (k - 1), U) = off[k] - given
    BY ZenonT(30)
  <2>1. k \in 0 .. n
    BY <1>1
  <2>2. /\ \A i \in 0 .. n : off[i] \in Nat
        /\ k # rc => given <= off[k] /\ Total(rc .. (k - 1), U) = off[k] - given
    BY WindowBytes
  <2>3. off[k] \in Nat
    BY ZenonT(30), <2>1, <2>2
  <2> HIDE DEF U
  <2> QED BY ZenonT(30), <2>2, <2>3
<1>7. \A k \in DOMAIN r.incoming :
         /\ r.incoming[k].packet.seq = k /\ IsPiece(off, r.incoming[k].packet)
         /\ r.incoming[k].read_offset <= r.incoming[k].packet.len
         /\ k # rc => r.incoming[k].read_offset = 0
  BY ZenonT(30) DEF Reading
<1>8. given = off[rc] + InPacket(r)
  BY ZenonT(30) DEF Reading
<1>9. DidRead(r, cap) <=> full # {}
  BY DEF DidRead
<1>10. DOMAIN inc = DOMAIN r.incoming \ full
  OBVIOUS
<1>11. ASSUME NEW k \in DOMAIN inc, k # next PROVE inc[k] = r.incoming[k]
  BY <1>11
<1> HIDE DEF full, next, rest, inc, t, U, put
<1>12. next \in DOMAIN r.incoming => next \in DOMAIN inc
  BY <1>1, <1>2, <1>10
<1>13. next \in DOMAIN r.incoming =>
         inc[next] = [r.incoming[next] EXCEPT !.read_offset = @ + rest]
  BY <1>12, <1>10 DEF inc
<1>14. \A k \in DOMAIN r.incoming :
         /\ r.incoming[k] \in IncomingPacket
         /\ r.incoming[k].packet.len \in Nat /\ r.incoming[k].read_offset \in Nat
  BY ZenonT(30) DEF StreamOK, IsMapTo, IncomingPacket, Packet
\* The window, at every place the call reads.
<1>20. \A k \in Run(r) \cap (rc .. next) :
          r.incoming[k].packet.off + r.incoming[k].read_offset
            = given + Total({j \in Run(r) : j < k}, U)
  <2> SUFFICES ASSUME NEW k \in Run(r) \cap (rc .. next)
               PROVE  r.incoming[k].packet.off + r.incoming[k].read_offset
                        = given + Total({j \in Run(r) : j < k}, U)
    BY ZenonT(30)
  <2>1. k \in rc .. (r.ack - 1) /\ k \in rc .. r.ack /\ k \in DOMAIN r.incoming /\ k \in Nat
    BY <1>1, <1>4
  <2>2. {j \in Run(r) : j < k} = rc .. (k - 1)
    BY <1>1, <1>4, <2>1
  <2>3. r.incoming[k].packet.off = off[k]
    BY ZenonT(30), <1>7, <2>1 DEF IsPiece
  <2>4. CASE k = rc
    <3>1. rc .. (k - 1) = {}
      BY <2>4, <1>1
    <3>2. Total({j \in Run(r) : j < k}, U) = 0
      BY ZenonT(30), <2>2, <3>1, TotalEmpty
    <3>3. InPacket(r) = r.incoming[k].read_offset
      BY ZenonT(30), <2>1, <2>4 DEF InPacket
    <3> QED BY <3>2, <3>3, <2>3, <2>4, <1>8, <1>5
  <2>5. CASE k # rc
    <3>1. off[k] \in Nat /\ Total(rc .. (k - 1), U) = off[k] - given
      BY ZenonT(30), <1>6, <2>1, <2>5
    <3>2. r.incoming[k].read_offset = 0
      BY ZenonT(30), <1>7, <2>1, <2>5
    <3>3. Total({j \in Run(r) : j < k}, U) = off[k] - given
      BY ZenonT(30), <3>1, <2>2
    <3> QED BY <3>1, <3>2, <3>3, <2>3, <1>5
  <2> QED BY ZenonT(30), <2>4, <2>5
\* What the entries look like afterwards.
<1>21. ASSUME NEW given2, given2 = off[next] + InPacket(t),
              next \in DOMAIN r.incoming =>
                r.incoming[next].read_offset + rest <= r.incoming[next].packet.len
       PROVE  Reading(t, given2, off)
  <2> SUFFICES ASSUME NEW k \in DOMAIN inc
               PROVE  /\ inc[k].packet.seq = k /\ IsPiece(off, inc[k].packet)
                      /\ inc[k].read_offset <= inc[k].packet.len
                      /\ k # next => inc[k].read_offset = 0
    BY ZenonT(30), <1>3, <1>21 DEF Reading
  <2>1. k \in DOMAIN r.incoming /\ k \notin full
    BY ZenonT(30), <1>10
  <2>2. CASE k # next
    <3>1. inc[k] = r.incoming[k]
      BY ZenonT(30), <1>11, <2>2
    <3>2. k # rc
      BY <2>1, <2>2, <1>2, <1>1
    <3> QED BY ZenonT(30), <3>1, <3>2, <2>1, <1>7
  <2>3. CASE k = next
    <3>1. inc[k] = [r.incoming[k] EXCEPT !.read_offset = @ + rest]
      BY <1>13, <2>1, <2>3
    <3>2. /\ inc[k].packet = r.incoming[k].packet
          /\ inc[k].read_offset = r.incoming[k].read_offset + rest
      BY <3>1, <2>1, <1>14 DEF IncomingPacket
    <3> QED BY ZenonT(30), <3>2, <2>1, <2>3, <1>7, <1>21
  <2> QED BY ZenonT(30), <2>2, <2>3
<1>30. CASE full = {}
  <2>1. next = rc
    BY <1>30, <1>2, <1>1, FS_EmptySet DEF next
  <2>2. rc = r.ack
    <3> SUFFICES ASSUME rc < r.ack PROVE FALSE
      BY <1>1
    <3>1. rc \in Run(r) /\ rc + 1 \in rc .. r.ack /\ rc + 1 # rc /\ (rc + 1) - 1 = rc
      BY <1>1, <1>4
    <3>2. off[rc + 1] \in Nat /\ Total(rc .. ((rc + 1) - 1), U) = off[rc + 1] - given
      BY ZenonT(30), <3>1, <1>6
    <3>3. Total(rc .. rc, U) = off[rc + 1] - given
      BY ZenonT(30), <3>1, <3>2
    <3>4. off[rc] \in Nat /\ off[rc] <= given
      <4>1. InPacket(r) \in Nat
        BY ZenonT(30), <1>14 DEF InPacket
      <4>2. rc \in 0 .. n
        BY <1>1
      <4>3. off[rc] \in Nat
        BY ZenonT(30), <4>2 DEF Cuts
      <4> QED BY <4>1, <4>3, <1>8
    <3>5. off[rc + 1] - off[rc] <= MAX_DATA_SIZE
      <4>1. rc \in 0 .. (n - 1)
        BY <1>1
      <4> QED BY ZenonT(30), <4>1 DEF Cuts
    <3>6. Total(rc .. rc, U) <= cap
      BY SMTT(30), <3>2, <3>3, <3>4, <3>5, <1>5, ConstantsAssumption
    <3>7. rc \in full
      BY ZenonT(30), <3>1, <3>6 DEF full, FullyRead, U
    <3> QED BY <3>7, <1>30
  <2>3. next \notin DOMAIN r.incoming
    BY ZenonT(30), <2>1, <2>2, <1>1
  <2>4. InPacket(t) = 0
    BY ZenonT(30), <2>3, <1>3, <1>10 DEF InPacket
  <2>5. InPacket(r) = 0
    BY ZenonT(30), <2>3, <2>1 DEF InPacket
  <2>6. Reading(t, given, off)
    BY ZenonT(30), <2>1, <2>3, <2>4, <2>5, <1>8, <1>21
  <2> QED BY ZenonT(30), <2>6, <2>2, <1>9, <1>20, <1>30 DEF t, full, next, put, U
<1>31. CASE full # {} /\ next = r.ack
  <2>1. next # rc
    BY <1>31, <1>2, <1>1
  <2>2. Total(full, U) = off[next] - given
    BY <1>31, <1>2, <1>6, <2>1, <1>1
  <2>3. put = off[next] - given
    BY SMTT(30), <2>2, <1>5, <1>31, <1>2 DEF put, Smaller
  <2>4. next \notin DOMAIN r.incoming
    BY ZenonT(30), <1>31, <1>1
  <2>5. InPacket(t) = 0
    BY <2>4, <1>3, <1>10 DEF InPacket
  <2>6. given + put = off[next] + InPacket(t)
    BY <2>3, <2>5, <1>5, <1>31
  <2>7. Reading(t, given + put, off)
    BY ZenonT(30), <2>6, <2>4, <1>21
  <2> QED BY ZenonT(30), <2>7, <1>9, <1>20, <1>31 DEF t, full, next, put, U
<1>32. CASE full # {} /\ next # r.ack
  <2>1. next # rc /\ next \in rc .. r.ack /\ next + 1 \in rc .. r.ack /\ next + 1 # rc
        /\ next \in Run(r) /\ next \notin full /\ next \in DOMAIN r.incoming
        /\ (next + 1) - 1 = next
    <3>1. rc # next
      <4>1. \A x \in Nat : x .. (x - 1) = {}
        OBVIOUS
      <4> QED BY ZenonT(30), <4>1, <1>32, <1>2, <1>1
    <3>2. \A a, x, b \in Nat : a <= x /\ x <= b /\ x # b /\ a # x =>
            /\ x \in a .. b /\ x + 1 \in a .. b /\ x + 1 # a /\ x \in a .. (b - 1)
            /\ x \notin a .. (x - 1) /\ (x + 1) - 1 = x
      OBVIOUS
    <3>3. /\ next \in rc .. r.ack /\ next + 1 \in rc .. r.ack /\ next + 1 # rc
          /\ next \in rc .. (r.ack - 1) /\ next \notin rc .. (next - 1) /\ (next + 1) - 1 = next
      BY ZenonT(30), <1>32, <1>2, <1>1, <3>1, <3>2
    <3> QED BY ZenonT(30), <1>2, <1>1, <1>4, <3>1, <3>3
  <2>2. off[next] \in Nat /\ Total(full, U) = off[next] - given
    BY ZenonT(30), <1>2, <1>6, <2>1
  <2>3. off[next + 1] \in Nat /\ Total(rc .. ((next + 1) - 1), U) = off[next + 1] - given
    BY ZenonT(30), <1>6, <2>1
  <2>4. Total(rc .. next, U) = off[next + 1] - given
    BY ZenonT(30), <2>1, <2>3
  <2>5. ~ (Total(rc .. next, U) <= cap)
    <3>1. full = {k \in Run(r) : Total(rc .. k, U) <= cap}
      BY ZenonT(30) DEF full, FullyRead, U
    <3> QED BY ZenonT(30), <3>1, <2>1
  <2>6. off[next + 1] <= off[r.ack]
    <3>1. next + 1 \in 0 .. n /\ r.ack \in 0 .. n /\ next + 1 <= r.ack
      BY <2>1, <1>1
    <3>2. next + 1 < r.ack => off[next + 1] < off[r.ack]
      BY ZenonT(30), <3>1 DEF Cuts
    <3>3. \A x, y \in Nat : x = y \/ x < y => x <= y
      OBVIOUS
    <3>4. next + 1 = r.ack \/ next + 1 < r.ack
      BY <3>1
    <3>5. off[next + 1] = off[r.ack] \/ off[next + 1] < off[r.ack]
      BY ZenonT(30), <3>2, <3>4
    <3> QED BY ZenonT(30), <3>3, <3>5, <2>3, <1>5
  <2>7. put = cap
    BY <2>3, <2>4, <2>5, <2>6, <1>5 DEF put, Smaller
  <2>8. r.incoming[next].read_offset = 0 /\ off[next] + r.incoming[next].packet.len = off[next + 1]
    BY <2>1, <1>7 DEF IsPiece
  <2>9. rest \in Nat /\ off[next] + rest = given + cap
    <3>1. Total(full, U) \in 0 .. cap /\ given \in Nat
      BY ZenonT(30), <1>2, <1>5
    <3>2. rest = cap - Total(full, U)
      BY ZenonT(30) DEF rest
    <3> QED BY <2>2, <3>1, <3>2
  <2>10. InPacket(t) = rest
    <3>1. next \in DOMAIN inc /\ inc[next] = [r.incoming[next] EXCEPT !.read_offset = @ + rest]
      BY <2>1, <1>12, <1>13
    <3>2. inc[next].read_offset = r.incoming[next].read_offset + rest
      BY ZenonT(30), <3>1, <2>1, <1>14 DEF IncomingPacket
    <3>3. InPacket(t) = inc[next].read_offset
      BY ZenonT(30), <3>1, <1>3 DEF InPacket
    <3> QED BY <3>2, <3>3, <2>8, <2>9
  <2>11. r.incoming[next].read_offset + rest <= r.incoming[next].packet.len
    <3> DEFINE len == r.incoming[next].packet.len
               o == off[next]
               o2 == off[next + 1]
    <3>1. len \in Nat /\ o + len = o2 /\ o \in Nat /\ o2 \in Nat /\ o + rest = given + cap
      BY ZenonT(30), <2>1, <2>2, <2>3, <2>8, <2>9, <1>14
    <3>2. ~ (o2 - given <= cap)
      BY ZenonT(30), <2>4, <2>5
    <3> HIDE DEF len, o, o2
    <3>3. 0 + rest <= len
      BY <3>1, <3>2, <1>5, <2>9
    <3> QED BY ZenonT(30), <3>3, <2>8 DEF len
  <2>12. given + put = off[next] + InPacket(t)
    BY ZenonT(30), <2>7, <2>9, <2>10
  <2>13. Reading(t, given + put, off)
    BY ZenonT(30), <2>11, <2>12, <1>21
  <2> QED BY ZenonT(30), <2>13, <1>9, <1>20, <1>32 DEF t, full, next, put, U
<1> QED BY ZenonT(30), <1>30, <1>31, <1>32

-----------------------------------------------------------------------------
(* Bytes written and bytes received *)

\* send_data_packet of an open stream makes the next bytes a data packet.
LEMMA SendDataPacketBytes ==
  ASSUME NEW s, StreamOK(s), s.state = "Open", NEW n \in Nat \ {0}
  PROVE  LET t == SendDataPacket(s, n)
             packet == t.outgoing[s.seq].packet
         IN  /\ t.tx_bytes = s.tx_bytes + ChunkLen(n) /\ t.state = s.state
             /\ packet.typ = {"DATA"} /\ packet.off = s.tx_bytes /\ packet.len = ChunkLen(n)
<1> DEFINE len == ChunkLen(n)
           p == CreatePacket(s, {"DATA"}, s.tx_bytes, len)
           o == [packet |-> p, waiting |-> FALSE, transmits |-> 0]
           out == Insert(s.outgoing, s.seq, o)
           q == QueueData(s, n)
           t == SendDataPacket(s, n)
<1>1. p.typ = {"DATA"} /\ p.off = s.tx_bytes /\ p.len = len
  <2>1. ~ LocalClosed(s.state)
    BY DEF LocalClosed
  <2> QED BY ZenonT(30), <2>1 DEF CreatePacket
<1>2. out[s.seq].packet = p
  <2> HIDE DEF p
  <2>1. out[s.seq] = o
    BY ZenonT(30) DEF Insert
  <2> QED BY <2>1
<1>3. /\ DOMAIN q = StreamFields /\ q.tx_bytes = s.tx_bytes + len
      /\ q.outgoing = out /\ q.state = s.state
  <2>1. q = [s EXCEPT !.seq = @ + 1, !.tx_bytes = @ + len, !.inflight_bytes = @ + len,
                      !.inflight_packets = @ + 1, !.outgoing = Insert(@, s.seq, o),
                      !.inflight = @ + HEADER_SIZE + len, !.send_queue = @ \cup {p}]
    BY DEF QueueData
  <2> HIDE DEF len, p, o, q
  <2> QED BY ZenonT(30), <2>1 DEF StreamOK, StreamFields
<1>4. t = WakeDriver(q)
  BY DEF SendDataPacket
<1> HIDE DEF len, p, out, q, t
<1>5. t.tx_bytes = q.tx_bytes /\ t.outgoing = q.outgoing /\ t.state = q.state
  BY <1>3, <1>4, WakeDriverFrame DEF StreamFields
<1> QED BY ZenonT(30), <1>1, <1>2, <1>3, <1>5 DEF t, len

\* What handling a data packet does: it is kept unless ack has passed it.
LEMMA HandleData ==
  ASSUME NEW s, StreamOK(s), WindowIntact(s), NEW p \in Packet,
         "DATA" \in p.typ, "END" \notin p.typ, "SACK" \notin p.typ
  PROVE  LET t == HandleIncoming(s, p)
         IN  /\ t.incoming = IF p.seq >= s.ack
                             THEN Insert(s.incoming, p.seq, [packet |-> p, read_offset |-> 0])
                             ELSE s.incoming
             /\ \A f \in StreamFields \ {"incoming", "ack", "read_waker", "drive_waker",
                                         "scheduled", "send_queue", "cwnd"} : t[f] = s[f]
             /\ \A q \in t.send_queue : q \in s.send_queue \/ q.typ \subseteq {"END"}
<1> DEFINE inc == IF p.seq >= s.ack
                  THEN Insert(s.incoming, p.seq, [packet |-> p, read_offset |-> 0])
                  ELSE s.incoming
           ack == NextGap(DOMAIN inc, s.ack)
           u == [s EXCEPT !.incoming = inc, !.ack = ack, !.read_waker = @ /\ p.seq > ack]
           v == ReceiveData(s, p)
           t == HandleIncoming(s, p)
<1>1. t = GrowWindow(v, p.ack)
  BY DEF HandleIncoming
<1>2. v = WakeDriver([u EXCEPT !.send_queue =
             @ \cup {CreatePacket(u, IF u.error # "none" THEN {"END"} ELSE {}, 0, 0)}])
  BY DEF ReceiveData, SendStatePacket
<1>3. /\ StreamOK(v)
      /\ \A f \in StreamFields \ {"incoming", "ack", "read_waker", "drive_waker",
                                   "scheduled", "send_queue"} : v[f] = s[f]
      /\ \E q \in Packet : v.send_queue = s.send_queue \cup {q} /\ q.typ \subseteq {"END"}
  <2>1. /\ StreamOK(v) /\ WindowIntact(v)
        /\ s.ack <= v.ack
        /\ DOMAIN s.incoming \subseteq DOMAIN v.incoming
        /\ DOMAIN v.incoming \subseteq DOMAIN s.incoming \cup {p.seq}
        /\ \A f \in StreamFields \ {"incoming", "ack", "read_waker", "drive_waker",
                                     "scheduled", "send_queue"} : v[f] = s[f]
        /\ \E q \in Packet :
              /\ v.send_queue = s.send_queue \cup {q}
              /\ q.typ \subseteq {"END"} /\ q.ack = v.ack /\ q.sacks = <<>>
    BY ReceiveDataFrame, ZenonT(30)
  <2> HIDE DEF v
  <2> QED BY ZenonT(30), <2>1
<1>4. v.incoming = inc
  <2> DEFINE w == [u EXCEPT !.send_queue =
             @ \cup {CreatePacket(u, IF u.error # "none" THEN {"END"} ELSE {}, 0, 0)}]
  <2>1. DOMAIN u = StreamFields /\ u.incoming = inc
    <3> HIDE DEF inc, ack
    <3> QED BY DEF StreamOK, StreamFields
  <2> HIDE DEF u
  <2>2. DOMAIN w = StreamFields /\ w.incoming = inc
    BY <2>1 DEF StreamFields
  <2>3. v = WakeDriver(w)
    BY <1>2
  <2> HIDE DEF w, v
  <2>4. WakeDriver(w).incoming = w.incoming
    BY ZenonT(30), <2>2, WakeDriverFrame DEF StreamFields
  <2> QED BY ZenonT(30), <2>2, <2>3, <2>4
<1>5. p.ack \in Nat
  BY ZenonT(30) DEF Packet
<1> HIDE DEF inc, v, t
<1>6. \A f \in StreamFields \ {"cwnd"} : t[f] = v[f]
  BY ZenonT(30), <1>1, <1>3, <1>5, GrowWindowFrame
<1>7. t.incoming = inc /\ t.send_queue = v.send_queue
  BY ZenonT(30), <1>4, <1>6 DEF StreamFields
<1>8. \A f \in StreamFields \ {"incoming", "ack", "read_waker", "drive_waker",
                               "scheduled", "send_queue", "cwnd"} : t[f] = s[f]
  BY <1>3, <1>6
<1>9. \A q \in t.send_queue : q \in s.send_queue \/ q.typ \subseteq {"END"}
  BY ZenonT(30), <1>3, <1>7
<1> QED BY ZenonT(30), <1>7, <1>8, <1>9 DEF t, inc

\* A packet without data leaves the window alone, and one without END leaves
\* the stream open.
LEMMA HandlePlain ==
  ASSUME NEW s, StreamOK(s), SenderOK(s), NEW p \in Packet, "DATA" \notin p.typ
  PROVE  LET t == HandleIncoming(s, p)
         IN  /\ t.incoming = s.incoming /\ t.ack = s.ack /\ t.tx_bytes = s.tx_bytes
             /\ t.error = "none" => s.error = "none" /\ t.state = s.state
<1> DEFINE s1 == IF "SACK" \in p.typ THEN HandleIncomingSacks(s, p) ELSE s
           r == [s1 EXCEPT !.state = CloseRemote(@)]
           s2 == IF "END" \in p.typ THEN Terminate(r, "UnexpectedEof") ELSE s1
           t == HandleIncoming(s, p)
<1>1. t = GrowWindow(s2, p.ack)
  BY DEF HandleIncoming
<1>2. StreamOK(s1) /\ \A f \in StreamFields \ {"outgoing", "inflight", "inflight_bytes",
                                               "inflight_packets"} : s1[f] = s[f]
  <2>1. CASE "SACK" \in p.typ
    <3>1. s1 = HandleIncomingSacks(s, p)
      BY ZenonT(30), <2>1
    <3> HIDE DEF s1
    <3> QED BY ZenonT(30), <3>1, HandleIncomingSacksFrame
  <2>2. CASE "SACK" \notin p.typ
    BY ZenonT(30), <2>2
  <2> QED BY ZenonT(30), <2>1, <2>2
<1> HIDE DEF s1
<1>3. StreamOK(r) /\ \A f \in StreamFields \ {"state"} : r[f] = s1[f]
  <2>1. CloseRemote(s1.state) \in StreamStates
    BY ZenonT(30) DEF CloseRemote, StreamStates
  <2> QED BY ZenonT(30), <1>2, <2>1 DEF StreamOK, StreamFields
<1> HIDE DEF r
<1>4. /\ StreamOK(s2) /\ s2.incoming = s.incoming /\ s2.ack = s.ack /\ s2.tx_bytes = s.tx_bytes
      /\ s2.error = "none" => s.error = "none" /\ s2.state = s.state
  <2>1. CASE "END" \in p.typ
    <3>1. PICK err \in Errors : err = "UnexpectedEof"
      BY ZenonT(30) DEF Errors
    <3> DEFINE u == Terminate(r, err)
    <3>2. s2 = u
      BY ZenonT(30), <2>1, <3>1
    <3> HIDE DEF s2
    <3>3. StreamOK(u) /\ u.error = err
      BY ZenonT(30), <1>3, TerminateFrame
    <3>4. \A f \in StreamFields \ {"drive_waker", "scheduled", "send_queue", "error",
                                   "state", "read_waker", "write_waker"} : u[f] = r[f]
      BY ZenonT(30), <1>3, TerminateFrame
    <3> HIDE DEF u
    <3>5. err # "none"
      BY ZenonT(30), <3>1
    <3> QED BY ZenonT(30), <3>2, <3>3, <3>4, <3>5, <1>2, <1>3 DEF StreamFields
  <2>2. CASE "END" \notin p.typ
    <3>1. s2 = s1
      BY ZenonT(30), <2>2
    <3> HIDE DEF s2
    <3> QED BY ZenonT(30), <1>2, <3>1 DEF StreamFields
  <2> QED BY ZenonT(30), <2>1, <2>2
<1>5. p.ack \in Nat
  BY DEF Packet
<1> HIDE DEF s2, t
<1>6. \A f \in StreamFields \ {"cwnd"} : t[f] = s2[f]
  BY ZenonT(30), <1>1, <1>4, <1>5, GrowWindowFrame
<1> QED BY ZenonT(30), <1>4, <1>6 DEF StreamFields, t

\* A piece of the same cut that arrives changes nothing for the reader.
LEMMA ReadingTakes ==
  ASSUME NEW r, StreamOK(r), WindowIntact(r), NEW off, NEW given, Reading(r, given, off),
         NEW m \in Packet, IsPiece(off, m), NEW t, t.read_cursor = r.read_cursor,
         t.incoming = IF m.seq >= r.ack
                      THEN Insert(r.incoming, m.seq, [packet |-> m, read_offset |-> 0])
                      ELSE r.incoming
  PROVE  Reading(t, given, off)
<1> DEFINE rc == r.read_cursor
           v == [packet |-> m, read_offset |-> 0]
<1>1. /\ rc \in Nat /\ r.ack \in Nat /\ rc <= r.ack /\ DOMAIN r.incoming \subseteq Nat
      /\ r.ack \notin DOMAIN r.incoming
  BY ZenonT(30) DEF StreamOK, IsMapTo, WindowIntact
<1>2. m.seq \in Nat /\ m.len \in Nat
  BY ZenonT(30) DEF Packet
<1>3. CASE ~ (m.seq >= r.ack)
  <2>1. t.incoming = r.incoming
    BY ZenonT(30), <1>3
  <2> QED BY ZenonT(30), <2>1 DEF Reading, InPacket
<1>4. CASE m.seq >= r.ack
  <2>1. t.incoming = Insert(r.incoming, m.seq, v)
    BY ZenonT(30), <1>4
  <2>2. /\ DOMAIN t.incoming = DOMAIN r.incoming \cup {m.seq}
        /\ t.incoming[m.seq] = v
        /\ \A k \in DOMAIN r.incoming : k # m.seq => t.incoming[k] = r.incoming[k]
    BY ZenonT(30), <2>1 DEF Insert
  <2>3. v.packet = m /\ v.read_offset = 0
    BY ZenonT(30)
  <2> HIDE DEF v
  <2>4. \A k \in DOMAIN t.incoming :
          /\ t.incoming[k].packet.seq = k /\ IsPiece(off, t.incoming[k].packet)
          /\ t.incoming[k].read_offset <= t.incoming[k].packet.len
          /\ k # t.read_cursor => t.incoming[k].read_offset = 0
    BY ZenonT(30), LeqRefl, <1>2, <2>2, <2>3 DEF Reading
  <2>5. InPacket(t) = InPacket(r)
    <3>1. CASE rc = m.seq
      <4>1. rc \notin DOMAIN r.incoming
        BY <1>1, <1>2, <1>4, <3>1
      <4> QED BY ZenonT(30), <4>1, <3>1, <2>2, <2>3 DEF InPacket
    <3>2. CASE rc # m.seq
      BY ZenonT(30), <3>2, <2>2 DEF InPacket
    <3> QED BY ZenonT(30), <3>1, <3>2
  <2> QED BY ZenonT(30), <2>4, <2>5 DEF Reading
<1> QED BY ZenonT(30), <1>3, <1>4

\* Later packets of the writer change nothing for the reader.
LEMMA ReadingWider ==
  ASSUME NEW r, StreamOK(r), NEW n \in Nat, r.read_cursor <= n,
         DOMAIN r.incoming \subseteq 0 .. (n - 1),
         NEW off, NEW given, Reading(r, given, off), NEW wide,
         \A i \in 0 .. n : wide[i] = off[i]
  PROVE  Reading(r, given, wide)
<1>1. r.read_cursor \in 0 .. n
  BY DEF StreamOK
<1>2. ASSUME NEW k \in DOMAIN r.incoming PROVE IsPiece(wide, r.incoming[k].packet)
  <2>1. k \in 0 .. n /\ k + 1 \in 0 .. n
    OBVIOUS
  <2>2. r.incoming[k].packet.seq = k /\ IsPiece(off, r.incoming[k].packet)
    BY ZenonT(30) DEF Reading
  <2> QED BY ZenonT(30), <2>1, <2>2 DEF IsPiece
<1> QED BY ZenonT(30), <1>1, <1>2 DEF Reading

\* Nothing between remote_acked and seq has been acknowledged by a SACK.
Cumulative(s) == DOMAIN s.outgoing = s.remote_acked .. (s.seq - 1)

\* What the stream s wrote is cut at off, and outgoing holds its pieces.
CutAt(s, off) ==
  /\ Cuts(off, s.seq) /\ off[s.seq] = s.tx_bytes
  /\ \A i \in DOMAIN s.outgoing : /\ s.outgoing[i].packet.seq = i
                                  /\ IsPiece(off, s.outgoing[i].packet)

\* What is written and not inflight_bytes is what lies before remote_acked,
\* as long as acks are cumulative.
LEMMA ConfirmedBytes ==
  ASSUME NEW s, StreamOK(s), SenderOK(s), s.remote_acked <= s.seq,
         NEW off, CutAt(s, off), Cumulative(s)
  PROVE  s.tx_bytes - s.inflight_bytes = off[s.remote_acked]
<1> DEFINE a == s.remote_acked
           b == s.seq
           D == DataLen(s.outgoing)
<1>1. a \in Nat /\ b \in Nat /\ a <= b
  BY ZenonT(30) DEF StreamOK
<1>2. \A i \in a .. b : off[i] \in Nat
  BY <1>1 DEF CutAt, Cuts
<1>3. ASSUME NEW i \in a .. (b - 1) PROVE D[i] = off[i + 1] - off[i] /\ D[i] \in 0 .. MTU
  <2>1. i \in DOMAIN s.outgoing
    BY ZenonT(30) DEF Cumulative
  <2>2. D[i] \in 0 .. MTU
    BY ZenonT(30), <2>1, PacketSizes
  <2>3. D[i] = s.outgoing[i].packet.len
    BY ZenonT(30), <2>1 DEF DataLen
  <2>4. off[i] \in Nat /\ off[i + 1] \in Nat
    BY <1>1, <1>2
  <2>5. off[i] + s.outgoing[i].packet.len = off[i + 1]
    BY <2>1 DEF CutAt, IsPiece
  <2>6. D[i] \in Int
    BY <2>2
  <2> HIDE DEF D
  <2> QED BY <2>2, <2>3, <2>4, <2>5, <2>6
<1>4. s.inflight_bytes = Total(DOMAIN s.outgoing, D)
  BY ZenonT(30) DEF SenderOK, CountersExact
<1>5. s.inflight_bytes = Total(a .. (b - 1), D)
  BY ZenonT(30), <1>4 DEF Cumulative
<1> HIDE DEF D, a, b
<1>6. \A i \in a .. (b - 1) : D[i] = off[i + 1] - off[i] /\ D[i] \in 0 .. MTU
  BY ZenonT(30), <1>3
<1>7. Total(a .. (b - 1), D) = off[b] - off[a]
  BY ZenonT(30), <1>1, <1>2, <1>6, Telescope
<1>8. off[a] \in Nat /\ off[b] \in Nat
  BY <1>1, <1>2
<1>9. s.tx_bytes = off[b] /\ s.inflight_bytes = off[b] - off[a]
  BY ZenonT(30), <1>5, <1>7 DEF b, CutAt
<1>10. s.tx_bytes - s.inflight_bytes = off[a]
  BY <1>8, <1>9
<1> QED BY <1>10 DEF a

=============================================================================
