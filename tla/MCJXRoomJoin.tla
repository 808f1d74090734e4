---------------------------- MODULE MCJXRoomJoin ----------------------------
(***************************************************************************)
(* Instances of JXRoomJoin for TLC.                                        *)
(***************************************************************************)
EXTENDS JXRoomJoin, TLC

CONSTANTS p1, p2, p3

=============================================================================
