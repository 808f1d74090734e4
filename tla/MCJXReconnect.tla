---------------------------- MODULE MCJXReconnect ----------------------------
(***************************************************************************)
(* Instances of JXReconnect for TLC.                                       *)
(***************************************************************************)
EXTENDS JXReconnect, TLC

CONSTANTS t1, t2, t3, t4, t5

Symmetry == Permutations(Threads)

=============================================================================
