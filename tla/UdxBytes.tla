------------------------------ MODULE UdxBytes ------------------------------
(***************************************************************************)
(* Two connected udx streams as two byte streams: the mapping from the     *)
(* state of UdxConn to the cursors of ByteStream.                          *)
(*                                                                         *)
(* It is meant for connections whose peers send no SACKs, as async-udx     *)
(* does (a SACK confirms bytes beyond a gap), and whose readers pass       *)
(* buffers of a full packet.                                               *)
(***************************************************************************)
EXTENDS UdxConn

\* The bytes poll_read could give the reader at end e without a new packet.
Readable(e) == Total(Run(stream[e]), Unread(stream[e].incoming))

\* A reader that was given a wrong byte has no cursor.
Cursor(e) == IF intact[e] THEN delivered[e] ELSE -1

Written == [d \in End |-> stream[d].tx_bytes]
Received == [d \in End |-> delivered[Peer(d)] + Readable(Peer(d))]
Confirmed == [d \in End |-> stream[d].tx_bytes - stream[d].inflight_bytes]
Given == [d \in End |-> Cursor(Peer(d))]
Ended == {d \in End : stream[d].error # "none"}

Abstract == INSTANCE ByteStream WITH
  written <- Written, received <- Received, confirmed <- Confirmed,
  read <- Given, failed <- Ended

\* The streams implement ByteStream: whatever the network does, bytes are
\* accepted only by an open stream, arrive after they were written, are
\* confirmed to the writer after they arrived, and are read in order, once,
\* after they arrived; an error is final.
ImplementsByteStream == Abstract!Spec

=============================================================================
