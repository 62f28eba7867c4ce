----------------------------- MODULE MCBindings -----------------------------
(***************************************************************************)
(* Instances of CApi and Bindings for TLC.                                 *)
(***************************************************************************)
EXTENDS Bindings, TLC

Symmetry == Permutations(Threads) \cup Permutations(Slots)
=============================================================================
