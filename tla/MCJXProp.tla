------------------------------ MODULE MCJXProp ------------------------------
(***************************************************************************)
(* Instances of JXProp for TLC: which replicas are in the room from the    *)
(* outset, which may lose it, and the abstract log the steady ones follow. *)
(***************************************************************************)
EXTENDS JXPropInvariant, TLC

CONSTANTS f1, f2, j1, j2

Symmetry == Permutations(Founders \ Churn) \cup Permutations(Replicas \ Founders)

=============================================================================
