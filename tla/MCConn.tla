------------------------------- MODULE MCConn -------------------------------
(***************************************************************************)
(* Small instances of UdxConn for TLC.  End a writes, end b reads: the     *)
(* values of MaxBytes below are named for the bytes a may write.  The      *)
(* constants of a run are such that the window of a new stream holds two   *)
(* full packets, as in the code, and that its writes fill several.         *)
(***************************************************************************)
EXTENDS UdxBytes

Three == [e \in End |-> IF e = "a" THEN 3 ELSE 0]
One == [e \in End |-> IF e = "a" THEN 1 ELSE 0]
Two == [e \in End |-> IF e = "a" THEN 2 ELSE 0]
Four == [e \in End |-> IF e = "a" THEN 4 ELSE 0]

\* How many clones of its handle an end holds, or packets its channel: one at
\* each end, or two at the end that reads, or at the one that gets the acks.
Single == [e \in End |-> 1]
Pair == [e \in End |-> IF e = "b" THEN 2 ELSE 1]
PairOfAcks == [e \in End |-> IF e = "a" THEN 2 ELSE 1]

=============================================================================
