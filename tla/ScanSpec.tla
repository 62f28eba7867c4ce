------------------------------- MODULE ScanSpec -------------------------------
(***************************************************************************)
(* What hat::find_pattern promises, independent of the instruction set,    *)
(* the hints and the way the range is split: one atomic step answers with  *)
(* the lowest aligned match in [begin, end), or with a null result.        *)
(***************************************************************************)
EXTENDS Search

VARIABLES returned, result

query == <<mem, begin, end, sig, stride>>
vars == <<query, returned, result>>

Init ==
  /\ Arguments
  /\ returned = FALSE
  /\ result = None

Find ==
  /\ ~ returned
  /\ \E r \in Address \cup {None} :
       /\ IsFirstMatch(r, mem, begin, end, sig, stride)
       /\ result' = r
  /\ returned' = TRUE
  /\ UNCHANGED query

Next == Find

Spec == Init /\ [][Next]_vars
=============================================================================
