------------------------------ MODULE Alignment ------------------------------
(***************************************************************************)
(* The alignment helpers of the library.                                   *)
(***************************************************************************)
EXTENDS Integers

\* align_up of scanner.hpp: the remainder decides whether to move.
AlignUp(p, a) == IF p % a = 0 THEN p ELSE p + (a - (p % a))
=============================================================================
