---------------------------- MODULE MCOriginNode ----------------------------
(***************************************************************************)
(* Small instances of OriginNode for TLC.                                  *)
(***************************************************************************)
EXTENDS OriginNode, TLC

\* Connections and names are interchangeable in the runs without liveness.
Symmetry == Permutations(Conns) \cup Permutations(Names)
=============================================================================
