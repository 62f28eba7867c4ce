------------------------------- MODULE Search -------------------------------
(***************************************************************************)
(* What a search is given: a memory, a range of it, a signature and the    *)
(* stride its matches are aligned to.  find_pattern makes one search of    *)
(* them, find_all_pattern as many as it takes.                             *)
(***************************************************************************)
EXTENDS Pattern

CONSTANTS
  Memories,     \* the memory contents considered
  Signatures,   \* the signatures considered
  Strides,      \* the strides of scan_alignment: X1, X4 and X16
  Begins, Ends  \* where the ranges considered start and end

ASSUME SearchAssumption ==
  /\ Memories \subseteq [Address -> Byte]
  /\ \A s \in Signatures : s \in Seq(Element) /\ s # <<>>
  /\ Strides \subseteq Nat \ {0}
  /\ Begins \subseteq 0 .. MemSize
  /\ Ends \subseteq 0 .. MemSize

VARIABLES mem, begin, end, sig, stride

\* The arguments, the same for both functions.
Arguments ==
  /\ mem \in Memories
  /\ sig \in Signatures
  /\ stride \in Strides
  /\ begin \in Begins
  /\ end \in Ends
  /\ begin <= end
=============================================================================
