---------------------------- MODULE MCRegionQuery ----------------------------
(***************************************************************************)
(* Instances of RegionQuery for TLC.                                       *)
(***************************************************************************)
EXTENDS RegionQuery

\* Pages that can be written, pages that cannot, and holes, in any order.
SmallProtections == {{"r"}, {"r", "w"}, Unmapped}
AllLayouts == [Page -> SmallProtections]

\* A hole between two pages of one region.
HoleLayouts == {[p \in Page |-> IF p = 1 THEN Unmapped ELSE {"r", "w"}]}

SmallSeams == {{}, {2}}
=============================================================================
