----------------------------- MODULE ByteStream -----------------------------
(***************************************************************************)
(* What a connection promises its users: two byte streams, one from each   *)
(* end to the other.  A direction is named for the end that writes it and  *)
(* is four cursors into the sequence of bytes written: how many have been  *)
(* written, how many have arrived without a gap, how many the writer knows *)
(* to have arrived, and how many the reader was given.  The reader is      *)
(* given the bytes in order, so that a cursor says which they are.         *)
(***************************************************************************)
EXTENDS Integers

CONSTANT End

VARIABLES written, received, confirmed, read,
          failed   \* the ends whose stream has ended, for whatever reason

vars == <<written, received, confirmed, read, failed>>

Init ==
  /\ written = [d \in End |-> 0]
  /\ received = [d \in End |-> 0]
  /\ confirmed = [d \in End |-> 0]
  /\ read = [d \in End |-> 0]
  /\ failed = {}

\* The cursor of direction d, and no other, moves forward.
Advances(cursor, d) ==
  /\ cursor'[d] > cursor[d]
  /\ cursor' = [cursor EXCEPT ![d] = cursor'[d]]

\* A write is accepted unless the stream has ended.
Write(d) ==
  /\ d \notin failed
  /\ Advances(written, d)
  /\ UNCHANGED <<received, confirmed, read, failed>>

\* Bytes arrive.
Receive(d) ==
  /\ Advances(received, d) /\ received'[d] <= written[d]
  /\ UNCHANGED <<written, confirmed, read, failed>>

\* The reader is given the next bytes, also after the stream has ended.
Read(d) ==
  /\ Advances(read, d) /\ read'[d] <= received[d]
  /\ UNCHANGED <<written, received, confirmed, failed>>

\* The writer learns that bytes have arrived, and may fail at the same time.
Confirm(d) ==
  /\ Advances(confirmed, d) /\ confirmed'[d] <= received[d]
  /\ failed' \in {failed, failed \cup {d}}
  /\ UNCHANGED <<written, received, read>>

\* A stream ends for good.
Fail(d) ==
  /\ failed' = failed \cup {d}
  /\ UNCHANGED <<written, received, confirmed, read>>

Next ==
  \E d \in End : Write(d) \/ Receive(d) \/ Read(d) \/ Confirm(d) \/ Fail(d)

Spec == Init /\ [][Next]_vars

-----------------------------------------------------------------------------

\* No cursor passes the one it depends on.
CursorsOrdered ==
  \A d \in End : /\ 0 <= read[d] /\ read[d] <= received[d]
                 /\ 0 <= confirmed[d] /\ confirmed[d] <= received[d]
                 /\ received[d] <= written[d]

=============================================================================
