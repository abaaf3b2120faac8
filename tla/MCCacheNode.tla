----------------------------- MODULE MCCacheNode -----------------------------
(***************************************************************************)
(* CacheNode for TLC.                                                      *)
(***************************************************************************)
EXTENDS CacheNode, TLC

Symmetry == Permutations(Conns) \cup Permutations(Names)
=============================================================================
