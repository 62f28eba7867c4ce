------------------------------ MODULE MCModules ------------------------------
(***************************************************************************)
(* Instances of Modules for TLC.                                           *)
(***************************************************************************)
EXTENDS Modules

\* Fewer places than images: an image may be loaded where another was.
TwoPlaces == {1, 2}
AllPlatforms == {"linux", "win32", "mac"}

CONSTANTS t1, t2, a

\* The locks of Linux take two callers, the indices of macOS take three images.
SomeCallers == [p \in Platforms |-> IF p = "linux" THEN {t1, t2} ELSE {t1}]
SomeLibs == [p \in Platforms |-> IF p = "linux" THEN {a} ELSE Libs]
=============================================================================
