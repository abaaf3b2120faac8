----------------------------- MODULE MCRegister -----------------------------
(***************************************************************************)
(* Register for TLC: addresses and names are model values.                 *)
(***************************************************************************)
EXTENDS Register, TLC

Symmetry == Permutations(Origins)
=============================================================================
