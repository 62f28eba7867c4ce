------------------------------- MODULE FindAll -------------------------------
(***************************************************************************)
(* hat::find_all_pattern: repeated searches of one scan_context, each      *)
(* starting a stride behind the last match.  A search is the atomic one of *)
(* ScanSpec, which Scanner is shown to implement.                          *)
(*                                                                         *)
(* The overload with an output range stops when the output is full and     *)
(* returns where it stopped; its caller may call it again from there with  *)
(* a fresh output range.  The overload without one runs to the end.        *)
(***************************************************************************)
EXTENDS Search

CONSTANT
  Capacities    \* the sizes of the output ranges considered

ASSUME FindAllAssumption == Capacities \subseteq Nat

VARIABLES
  bounded, capacity,   \* the output range: whether it ends, and where
  state,      \* in the loop, or returned to the caller
  from,       \* where the next search starts; the first value returned
  written,    \* the output range written so far by this call
  earlier     \* what the calls before this one have written

given == <<mem, begin, end, sig, stride, bounded, capacity>>
findAllVars == <<given, state, from, written, earlier>>

Full == bounded /\ Len(written) = capacity

FindAllInit ==
  /\ Arguments
  /\ bounded \in BOOLEAN
  /\ capacity \in Capacities
  /\ state = "loop"
  /\ from = begin
  /\ written = <<>>
  /\ earlier = <<>>

\* context.scan(i, end)
Scan(r) == IsFirstMatch(r, mem, from, end, sig, stride)

\* Slip: behind the match, which skips overlapping ones.
AfterMatch(r) == r + Len(sig)

\* Where the next search starts.
After(r) == r + stride

Write ==
  /\ state = "loop"
  /\ from < end
  /\ ~ Full
  /\ \E r \in Address :
       /\ Scan(r)
       /\ written' = Append(written, r)
       /\ from' = After(r)
  /\ UNCHANGED <<given, state, earlier>>

NoResult ==
  /\ state = "loop"
  /\ from < end
  /\ ~ Full
  /\ Scan(None)
  /\ from' = IF bounded THEN end ELSE from
  /\ state' = "returned"
  /\ UNCHANGED <<given, written, earlier>>

LoopEnd ==
  /\ state = "loop"
  /\ from >= end \/ Full
  /\ state' = "returned"
  /\ UNCHANGED <<given, from, written, earlier>>

\* Slip: a stride further than where the search stopped.
ResumeTooFar ==
  /\ state = "returned"
  /\ bounded
  /\ capacity > 0
  /\ from < end
  /\ state' = "loop"
  /\ from' = from + stride
  /\ earlier' = earlier \o written
  /\ written' = <<>>
  /\ UNCHANGED given

\* The caller empties its output range and continues where the search stopped.
Resume ==
  /\ state = "returned"
  /\ bounded
  /\ capacity > 0
  /\ from < end
  /\ state' = "loop"
  /\ earlier' = earlier \o written
  /\ written' = <<>>
  /\ UNCHANGED <<given, from>>

FindAllNext == Write \/ NoResult \/ LoopEnd \/ Resume

\* The calls run on their caller's thread; the caller resumes until the end.
FindAllSpec == FindAllInit /\ [][FindAllNext]_findAllVars /\ WF_findAllVars(FindAllNext)

-----------------------------------------------------------------------------
Addresses(s) == {s[k] : k \in DOMAIN s}

FindAllTypeOK ==
  /\ mem \in Memories
  /\ sig \in Signatures
  /\ stride \in Strides
  /\ begin \in 0 .. MemSize
  /\ end \in begin .. MemSize
  /\ bounded \in BOOLEAN
  /\ capacity \in Capacities
  /\ state \in {"loop", "returned"}
  /\ from \in begin .. end + stride
  /\ written \in Seq(Address)
  /\ earlier \in Seq(Address)
  /\ bounded => Len(written) <= capacity

\* However the calls are cut by full output ranges, what they have written is
\* exactly the matches of the original range up to where the search stopped,
\* overlapping ones included, none twice and in ascending order.
FoundExactly ==
  LET found == earlier \o written
      upTo == IF state = "returned" /\ ~ bounded THEN end ELSE from
  IN /\ Addresses(found) = {m \in Matches(mem, begin, end, sig, stride) : m < upTo}
     /\ \A j, k \in DOMAIN found : j < k => found[j] < found[k]

\* A caller that resumes each time has every match in the end.
FindsAll ==
  capacity > 0 \/ ~ bounded ~>
    Addresses(earlier \o written) = Matches(mem, begin, end, sig, stride)
=============================================================================
