------------------------------ MODULE MCScanner ------------------------------
(***************************************************************************)
(* Instances of Scanner for TLC.                                           *)
(***************************************************************************)
EXTENDS ScannerProps, FiniteSets

CONSTANTS
  Near     \* addresses of the second byte of a memory that differs from 0

SmallByte == 0 .. 1

\* Memories that are zero but for at most two addresses.
SparseMemories ==
  {[a \in Address |-> IF a \in {x, y} THEN 1 ELSE 0] :
     x \in Address, y \in {MemSize - 1} \cup Near}

Zero == {0}
One == {1}
Any == {0, 1}

\* One-byte signatures, pairs, pairs behind a wildcard, wildcards inside a
\* pair, and signatures longer than the small vectors.
SmallSignatures ==
  { <<One>>, <<One, Zero>>, <<One, One>>, <<Any, One>>, <<One, Any>>,
    <<One, Any, One>>, <<Any, One, Zero>>, <<Any, Any, One>>,
    <<Zero, One, One>>, <<One, Any, Zero, One>>,
    <<Any, One, Any, Zero, One>>, <<Any, Any, Any, One, Zero>> }

SmallWidth == [sse |-> 2, avx2 |-> 2, avx512 |-> 4, neon |-> 4]

SmallExtensions ==
  { {}, {"sse41"}, {"bmi", "avx2", "sse41"}, {"bmi", "avx512", "avx2", "sse41"}, {"neon"} }

\* Pairs with equal bytes are rarest, so that the best pair is not the first.
SmallScore == [p \in SmallByte \X SmallByte |-> IF p[1] = p[2] THEN 2 ELSE 1]
=============================================================================
