------------------------------- MODULE MCCow --------------------------------
(* Cow with few cows and values. *)
EXTENDS Cow, TLC

\* Cows and buffers are treated alike.
Symmetry == Permutations(Cows) \cup Permutations(Buffers)

=============================================================================
