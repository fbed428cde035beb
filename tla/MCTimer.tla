------------------------------ MODULE MCTimer ------------------------------
(***************************************************************************)
(* Small instances of UdxTimer for TLC.                                    *)
(***************************************************************************)
EXTENDS UdxTimer

=============================================================================
