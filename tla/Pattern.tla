------------------------------- MODULE Pattern -------------------------------
(***************************************************************************)
(* Byte patterns and what it means for one to occur in memory.             *)
(*                                                                         *)
(* A signature_element of the code is a value and a mask, and compares     *)
(* equal to a byte when the two agree on the bits of the mask.  Here an    *)
(* element is the nonempty set of the bytes it is equal to: a full mask is *)
(* a singleton, an empty mask is the set of all bytes, and a nibble        *)
(* wildcard lies in between.                                               *)
(*                                                                         *)
(* Addresses are natural numbers and address 0 is aligned to every vector  *)
(* width, so where a range starts also says how it is aligned.             *)
(***************************************************************************)
EXTENDS Integers, Sequences

CONSTANTS
  Byte,      \* the values of a byte
  MemSize    \* number of addresses

ASSUME PatternAssumption ==
  /\ Byte # {}
  /\ MemSize \in Nat \ {0}

Address == 0 .. MemSize - 1

\* The null scan_result, and the empty optional of scan_context::pairIndex.
None == -1

Element == (SUBSET Byte) \ {{}}

\* signature_element::all() and signature_element::value() of such an element.
All(e) == \E b \in Byte : e = {b}
Value(e) == CHOOSE b \in Byte : e = {b}

\* std::equal(signature.begin(), signature.end(), p).
MatchesAt(m, s, p) == \A k \in 1 .. Len(s) : m[p + (k - 1)] \in s[k]

\* The starts a search of [b, e) with stride a has to consider: aligned, and
\* with the whole signature inside the range.
Starts(b, e, s, a) == {p \in b .. e - Len(s) : p % a = 0}

Matches(m, b, e, s, a) == {p \in Starts(b, e, s, a) : MatchesAt(m, s, p)}

\* r is the answer a search of [b, e) promises: the lowest match, or None.
IsFirstMatch(r, m, b, e, s, a) ==
  IF r = None
  THEN Matches(m, b, e, s, a) = {}
  ELSE /\ r \in Matches(m, b, e, s, a)
       /\ \A p \in Matches(m, b, e, s, a) : r <= p
=============================================================================
