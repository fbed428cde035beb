------------------------------ MODULE MCSocket ------------------------------
(***************************************************************************)
(* Instances of UdxSocket for TLC.                                         *)
(***************************************************************************)
EXTENDS UdxSocket, TLC

CONSTANTS h1, h2, f1, f2, s1, s2

\* Two streams with ids of their own, and two that are given the same one.
OwnIds == s1 :> "id1" @@ s2 :> "id2"
SameId == s1 :> "id1" @@ s2 :> "id1"
OneStream == s1 :> "id1"
NoIds == [s \in {} |-> "id1"]

=============================================================================
