----------------------------- MODULE MCEdgeNode -----------------------------
(***************************************************************************)
(* EdgeNode for TLC.                                                       *)
(***************************************************************************)
EXTENDS EdgeNode, TLC

Symmetry == Permutations(Conns)
=============================================================================
