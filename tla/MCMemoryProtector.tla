-------------------------- MODULE MCMemoryProtector --------------------------
(***************************************************************************)
(* Instances of MemoryProtector for TLC.                                   *)
(***************************************************************************)
EXTENDS MemoryProtector, TLC

CONSTANTS g1, g2, g3

Symmetry == Permutations({g1, g2, g3})

\* The layouts by page: one region, two regions, and a hole behind each.
Uniform == [p \in Page |-> IF p = PageCount - 1 THEN Unmapped ELSE {"r"}]
TwoRegions == [Uniform EXCEPT ![1] = {"r", "x"}]

AllLayouts == {Uniform, TwoRegions}

SmallFlags == {{"w"}, {"r"}}
=============================================================================
