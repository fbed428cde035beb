------------------------------ MODULE MCBatch ------------------------------
(***************************************************************************)
(* Instances of UdxBatch for TLC.  Two sizes, of state packets and of data *)
(* packets: a set is cut at a change of size and at the limit of segments, *)
(* in any mixture.                                                         *)
(***************************************************************************)
EXTENDS UdxBatch

TwoSizes == {1, 2}

=============================================================================
