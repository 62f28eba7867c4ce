------------------------------ MODULE MCFindAll ------------------------------
(***************************************************************************)
(* Instances of FindAll for TLC.                                           *)
(***************************************************************************)
EXTENDS FindAll, FiniteSets

SmallByte == 0 .. 1

AllMemories == [Address -> SmallByte]

SmallSignatures ==
  { <<{1}>>, <<{1}, {1}>>, <<{1}, {0, 1}, {1}>>, <<{1}, {0}, {1}>> }
=============================================================================
