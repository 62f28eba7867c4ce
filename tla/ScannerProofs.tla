---------------------------- MODULE ScannerProofs ----------------------------
(***************************************************************************)
(* The scanner of module Scanner, for every width, stride, signature and   *)
(* memory: its loads stay inside the range, and it returns what ScanSpec   *)
(* promises.  Then find_all_pattern, whose searches are those of ScanSpec: *)
(* what its calls have written is what there is to find, at every step.    *)
(***************************************************************************)
EXTENDS ScannerProps, FindAll, SequenceTheorems, WellFoundedInduction, TLAPS

-----------------------------------------------------------------------------
(* Multiples, alignment and least elements *)

\* A number is its quotient times the divisor plus its remainder.
LEMMA DivMod ==
  ASSUME NEW n \in Int, NEW d \in Nat \ {0}
  PROVE  /\ n \div d \in Int
         /\ n % d \in 0 .. d - 1
         /\ n = (d * (n \div d)) + (n % d)
  OBVIOUS

LEMMA DivNat ==
  ASSUME NEW n \in Nat, NEW d \in Nat \ {0}
  PROVE  /\ n \div d \in Nat
         /\ d * (n \div d) \in 0 .. n
  OBVIOUS

LEMMA ModUnique ==
  ASSUME NEW d \in Nat \ {0}, NEW q \in Int, NEW r \in 0 .. d - 1
  PROVE  ((d * q) + r) % d = r
  OBVIOUS

\* Remainder 0 is being a multiple.
LEMMA MultipleMod ==
  ASSUME NEW d \in Nat \ {0}, NEW q \in Int
  PROVE  (d * q) % d = 0
  <1>1. 0 \in 0 .. d - 1  OBVIOUS
  <1>2. ((d * q) + 0) % d = 0  BY <1>1, ModUnique
  <1> QED  BY <1>2

LEMMA ModMultiple ==
  ASSUME NEW d \in Nat \ {0}, NEW n \in Int, n % d = 0
  PROVE  \E q \in Int : n = d * q
  <1>1. n \div d \in Int /\ n = (d * (n \div d)) + (n % d)  BY DivMod
  <1>2. n = d * (n \div d)  BY <1>1
  <1> QED  BY <1>1, <1>2

\* Multiples of the same number are at least that number apart.
LEMMA MultiplesApart ==
  ASSUME NEW d \in Nat \ {0}, NEW m \in Int, NEW n \in Int,
         m % d = 0, n % d = 0, m < n
  PROVE  m + d <= n
  <1>1. PICK j \in Int : m = d * j  BY ModMultiple
  <1>2. PICK k \in Int : n = d * k  BY ModMultiple
  <1>3. j < k
    <2>1. SUFFICES ASSUME j >= k PROVE FALSE  OBVIOUS
    <2>2. d * j >= d * k  BY <2>1
    <2> QED  BY <1>1, <1>2, <2>2
  <1>4. d * (j + 1) <= d * k  BY <1>3
  <1>5. d * (j + 1) = (d * j) + d  OBVIOUS
  <1> QED  BY <1>1, <1>2, <1>4, <1>5

\* Sums and differences of multiples are multiples.
LEMMA SumOfMultiples ==
  ASSUME NEW d \in Nat \ {0}, NEW m \in Int, NEW n \in Int, m % d = 0, n % d = 0
  PROVE  (m + n) % d = 0 /\ (m - n) % d = 0
  <1>1. PICK j \in Int : m = d * j  BY ModMultiple
  <1>2. PICK k \in Int : n = d * k  BY ModMultiple
  <1>3. m + n = d * (j + k) /\ m - n = d * (j - k)  BY <1>1, <1>2
  <1>4. (d * (j + k)) % d = 0  BY MultipleMod, j + k \in Int
  <1>5. (d * (j - k)) % d = 0  BY MultipleMod, j - k \in Int
  <1> QED  BY <1>3, <1>4, <1>5

\* Being a multiple is transitive.
LEMMA MultipleOfMultiple ==
  ASSUME NEW d \in Nat \ {0}, NEW v \in Nat \ {0}, NEW n \in Int,
         v % d = 0, n % v = 0
  PROVE  n % d = 0
  <1>1. PICK j \in Int : v = d * j  BY ModMultiple
  <1>2. PICK k \in Int : n = v * k  BY ModMultiple
  <1>3. n = d * (j * k)  BY <1>1, <1>2
  <1>4. j * k \in Int  OBVIOUS
  <1> QED  BY <1>3, <1>4, MultipleMod

\* AlignUp returns the least multiple that is not below its argument.
LEMMA AlignUpFacts ==
  ASSUME NEW p \in Int, NEW a \in Nat \ {0}
  PROVE  /\ AlignUp(p, a) \in Int
         /\ p <= AlignUp(p, a)
         /\ AlignUp(p, a) < p + a
         /\ AlignUp(p, a) % a = 0
  <1>1. p % a \in 0 .. a - 1 /\ p \div a \in Int /\ p = (a * (p \div a)) + (p % a)
    BY DivMod
  <1>2. CASE p % a = 0
    BY <1>2 DEF AlignUp
  <1>3. CASE p % a # 0
    <2>1. AlignUp(p, a) = p + (a - (p % a))  BY <1>3 DEF AlignUp
    <2>2. AlignUp(p, a) = a * ((p \div a) + 1)  BY <1>1, <2>1
    <2>3. AlignUp(p, a) % a = 0  BY <1>1, <2>2, MultipleMod
    <2> QED  BY <1>1, <1>3, <2>1, <2>3
  <1> QED  BY <1>2, <1>3

LEMMA AlignUpLeast ==
  ASSUME NEW p \in Int, NEW a \in Nat \ {0}, NEW q \in Int, q % a = 0
  PROVE  p <= q <=> AlignUp(p, a) <= q
  <1>1. /\ AlignUp(p, a) \in Int
        /\ p <= AlignUp(p, a)
        /\ AlignUp(p, a) < p + a
        /\ AlignUp(p, a) % a = 0
    BY AlignUpFacts
  <1>2. ASSUME p <= q, q < AlignUp(p, a) PROVE FALSE
    <2>1. q + a <= AlignUp(p, a)  BY <1>1, <1>2, MultiplesApart
    <2> QED  BY <1>1, <1>2, <2>1
  <1> QED  BY <1>1, <1>2

LEMMA AlignUpMonotone ==
  ASSUME NEW p \in Int, NEW q \in Int, NEW a \in Nat \ {0}, p <= q
  PROVE  AlignUp(p, a) <= AlignUp(q, a)
  <1>1. /\ AlignUp(q, a) \in Int /\ q <= AlignUp(q, a) /\ AlignUp(q, a) % a = 0
    BY AlignUpFacts
  <1>2. p <= AlignUp(q, a)  BY <1>1
  <1> QED  BY <1>1, <1>2, AlignUpLeast

\* A nonempty set of natural numbers has a least element.
LEMMA LeastElement ==
  ASSUME NEW T \in SUBSET Nat, T # {}
  PROVE  \E x \in T : \A y \in T : x <= y
  <1> DEFINE Less == {pair \in Nat \X Nat : pair[1] < pair[2]}
  <1>1. IsWellFoundedOn(Less, Nat)
    BY NatLessThanWellFounded, Zenon DEF OpToRel
  <1> HIDE DEF Less
  <1>2. PICK x \in T : \A y \in T : ~ (<<y, x>> \in Less)
    BY <1>1, WFMin, Zenon
  <1>3. ASSUME NEW y \in T PROVE x <= y
    <2>1. ~ (<<y, x>> \in Less)  BY <1>2
    <2>2. <<y, x>> \in Nat \X Nat  OBVIOUS
    <2>3. ~ (y < x)  BY <2>1, <2>2 DEF Less
    <2> QED  BY <2>3
  <1> QED  BY <1>3

USE DEF None

-----------------------------------------------------------------------------
(* The operators of scan_context::create *)

\* A signature is a nonempty sequence with a fully masked element.
LEMMA SignatureFacts ==
  ASSUME NEW s \in Signatures
  PROVE  /\ s \in Seq(Element)
         /\ Len(s) \in Nat \ {0}
         /\ \E i \in 0 .. Len(s) - 1 : All(s[i + 1])
  <1>1. s \in Seq(Element) /\ \E k \in DOMAIN s : All(s[k])
    BY ScannerAssumption, SearchAssumption
  <1>2. PICK k \in DOMAIN s : All(s[k])  BY <1>1
  <1>3. DOMAIN s = 1 .. Len(s) /\ Len(s) \in Nat  BY <1>1
  <1>4. k - 1 \in 0 .. Len(s) - 1 /\ (k - 1) + 1 = k  BY <1>2, <1>3
  <1>5. All(s[(k - 1) + 1])  BY <1>2, <1>4
  <1>6. \E i \in 0 .. Len(s) - 1 : All(s[i + 1])  BY <1>4, <1>5
  <1>7. Len(s) # 0  BY <1>2, <1>3
  <1> QED  BY <1>1, <1>3, <1>6, <1>7

\* create finds the first fully masked element.
LEMMA FirstAllFacts ==
  ASSUME NEW s \in Signatures
  PROVE  /\ FirstAll(s) \in 0 .. Len(s) - 1
         /\ All(s[FirstAll(s) + 1])
  <1> DEFINE T == {i \in 0 .. Len(s) - 1 : All(s[i + 1])}
  <1>1. T \in SUBSET Nat /\ T # {}
    <2>1. \E i \in 0 .. Len(s) - 1 : All(s[i + 1])  BY SignatureFacts
    <2>2. T # {}  BY <2>1
    <2> QED  BY <2>2
  <1>2. PICK x \in T : \A y \in T : x <= y  BY <1>1, LeastElement
  <1>3. /\ x \in 0 .. Len(s) - 1
        /\ All(s[x + 1])
        /\ \A j \in 0 .. x - 1 : ~ All(s[j + 1])
    <2>1. ASSUME NEW j \in 0 .. x - 1, All(s[j + 1]) PROVE FALSE
      <3>1. j \in 0 .. Len(s) - 1  BY SignatureFacts
      <3>2. j \in T  BY <2>1, <3>1
      <3> QED  BY <1>2, <3>2, SignatureFacts
    <2> QED  BY <2>1
  <1> QED  BY <1>3 DEF FirstAll

\* The best pair is a pair, when there is one.
LEMMA BestPairFacts ==
  ASSUME NEW s \in Signatures, Pairs(s) # {}
  PROVE  BestPair(s) \in Pairs(s)
  <1>1. Pairs(s) \in SUBSET Nat  BY SignatureFacts DEF Pairs
  <1>2. ASSUME NEW i \in Pairs(s)
        PROVE  PairScore(s, i) \in 0 .. NumPairs
    <2>1. i \in 0 .. Len(s) - 2 /\ All(s[i + 1]) /\ All(s[i + 2])  BY DEF Pairs
    <2>2. Value(s[i + 1]) \in Byte /\ Value(s[i + 2]) \in Byte
      BY <2>1 DEF All, Value
    <2> QED  BY <2>2, ScannerAssumption, SearchAssumption DEF PairScore
  <1> DEFINE Gap(i) == NumPairs - PairScore(s, i)
             Gaps == {Gap(i) : i \in Pairs(s)}
  <1>3. \A i \in Pairs(s) : Gap(i) \in Nat  BY <1>2 DEF NumPairs
  <1>4. Gaps \in SUBSET Nat /\ Gaps # {}  BY <1>3
  <1>5. PICK g \in Gaps : \A h \in Gaps : g <= h  BY <1>4, LeastElement
  <1> DEFINE Best == {i \in Pairs(s) : Gap(i) = g}
  <1>6. Best \in SUBSET Nat /\ Best # {}  BY <1>1
  <1>7. PICK b \in Best : \A c \in Best : b <= c  BY <1>6, LeastElement
  <1>8. ASSUME NEW j \in Pairs(s)
        PROVE  \/ PairScore(s, b) > PairScore(s, j)
               \/ PairScore(s, b) = PairScore(s, j) /\ b <= j
    <2>1. Gap(b) = g /\ b \in Pairs(s)  BY <1>7
    <2>2. g <= Gap(j)  BY <1>5
    <2>3. PairScore(s, b) \in Int /\ PairScore(s, j) \in Int  BY <1>2, <2>1 DEF NumPairs
    <2>4. PairScore(s, b) >= PairScore(s, j)
      BY <2>1, <2>2, <2>3 DEF NumPairs
    <2>5. CASE PairScore(s, b) = PairScore(s, j)
      <3>1. j \in Best  BY <2>1, <2>5
      <3> QED  BY <1>7, <2>5, <3>1
    <2>6. CASE PairScore(s, b) # PairScore(s, j)
      BY <2>3, <2>4, <2>6
    <2> QED  BY <2>5, <2>6
  <1>9. \E i \in Pairs(s) : \A j \in Pairs(s) :
          \/ PairScore(s, i) > PairScore(s, j)
          \/ PairScore(s, i) = PairScore(s, j) /\ i <= j
    BY <1>7, <1>8
  <1> QED  BY <1>9 DEF BestPair

\* Min of a nonempty set of natural numbers is its least element.
LEMMA MinFacts ==
  ASSUME NEW T \in SUBSET Nat, T # {}
  PROVE  Min(T) \in T /\ \A y \in T : Min(T) <= y
  BY LeastElement DEF Min

LEMMA ApplyHintsFacts ==
  ASSUME NEW s \in Signatures, NEW h
  PROVE  ApplyHints(s, h) \in Pairs(s) \cup {None}
  <1>1. Pairs(s) \in SUBSET Nat  BY SignatureFacts DEF Pairs
  <1>2. Pairs(s) # {} => Min(Pairs(s)) \in Pairs(s)  BY <1>1, MinFacts
  <1> QED  BY <1>2, BestPairFacts DEF ApplyHints

-----------------------------------------------------------------------------
(* Facts every step uses *)

LEMMA TypeFacts ==
  ASSUME TypeOK
  PROVE  /\ sig \in Seq(Element) /\ Len(sig) \in Nat /\ Len(sig) >= 1
         /\ stride \in Nat \ {0}
         /\ MemSize \in Nat /\ begin \in Nat /\ end \in Nat
         /\ begin <= end /\ end <= MemSize
         /\ cmpIndex \in Nat /\ cmpIndex < Len(sig)
         /\ VecIndex \in Nat /\ VecIndex < Len(sig)
         /\ isa \in VectorIsa => /\ Width[isa] \in Nat \ {0}
                                /\ Width[isa] % stride = 0
  <1>1. sig \in Seq(Element) /\ Len(sig) \in Nat \ {0}
    BY SignatureFacts DEF TypeOK
  <1>2. stride \in Nat \ {0}  BY ScannerAssumption, SearchAssumption DEF TypeOK
  <1>3. MemSize \in Nat  BY PatternAssumption
  <1>4. cmpIndex \in 0 .. Len(sig) - 1  BY DEF TypeOK
  <1>5. VecIndex \in 0 .. Len(sig) - 1
    BY <1>1, <1>4 DEF TypeOK, VecIndex, CmpEq2, Pairs
  <1>6. isa \in VectorIsa => /\ Width[isa] \in Nat \ {0}
                             /\ Width[isa] % stride = 0
    BY ScannerAssumption, SearchAssumption DEF TypeOK
  <1>7. begin \in 0 .. MemSize /\ end \in begin .. MemSize  BY DEF TypeOK
  <1> QED  BY <1>1, <1>2, <1>3, <1>4, <1>5, <1>6, <1>7

\* The head and tail end where their last start is, and both are long enough.
LEMMA SegmentScanFacts ==
  ASSUME TypeOK, isa \in VectorIsa, Len(sig) <= end - begin
  PROVE  SegmentScan = WholeScan \/ VectorSegments(SegmentScan)
  <1> DEFINE V == Width[isa]
  <1>1. /\ Len(sig) \in Nat /\ Len(sig) >= 1
        /\ begin \in Nat /\ end \in Nat
        /\ VecIndex \in Nat /\ VecIndex < Len(sig)
        /\ V \in Nat \ {0}
    BY TypeFacts
  <1>2. /\ VecBegin \in Int /\ begin + VecIndex <= VecBegin /\ VecBegin % V = 0
    <2>1. begin + VecIndex \in Int  BY <1>1
    <2> QED  BY <1>1, <2>1, AlignUpFacts DEF VecBegin
  <1>3. RequiredAfter \in Nat /\ RequiredAfter >= Len(sig)
    BY <1>1 DEF RequiredAfter, VecCmp
  <1>4. ValidRange(begin, end) = Span(begin, end)
    BY <1>1 DEF ValidRange
  <1>5. CASE VecBegin > end \/ VecBegin = VecEnd
    BY <1>4, <1>5 DEF SegmentScan, WholeScan
  <1>6. CASE ~ (VecBegin > end \/ VecBegin = VecEnd)
    <2> DEFINE n == end - VecBegin - RequiredAfter
    <2>1. end - VecBegin >= RequiredAfter  BY <1>6 DEF VecEnd
    <2>2. n \in Nat  BY <1>1, <1>2, <1>3, <2>1
    <2>3. n \div V \in Nat /\ V * (n \div V) \in 0 .. n  BY <1>1, <2>2, DivNat
    <2>4. VecEnd = VecBegin + V * (n \div V)  BY <2>1 DEF VecEnd
    <2> HIDE DEF n
    <2>5. (V * (n \div V)) % V = 0  BY <1>1, <2>3, MultipleMod
    <2>6. VecEnd \in Int /\ VecEnd % V = 0
      BY <1>1, <1>2, <2>3, <2>4, <2>5, SumOfMultiples
    <2>7. VecBegin < VecEnd  BY <1>2, <1>6, <2>3, <2>4
    <2>8. VecEnd + RequiredAfter <= end
      BY <1>1, <1>2, <1>3, <2>3, <2>4 DEF n
    <2>9. ValidRange(begin, VecBegin - VecIndex + Len(sig))
            = Span(begin, VecBegin - VecIndex + Len(sig))
      BY <1>1, <1>2 DEF ValidRange
    <2>10. ValidRange(VecEnd - VecIndex, end) = Span(VecEnd - VecIndex, end)
      BY <1>1, <1>3, <2>6, <2>8 DEF ValidRange
    <2>11. SegmentScan = [pre  |-> Span(begin, VecBegin - VecIndex + Len(sig)),
                          vec  |-> Span(VecBegin, VecEnd),
                          post |-> Span(VecEnd - VecIndex, end)]
      BY <1>6, <2>9, <2>10 DEF SegmentScan
    <2>12. SegmentScan.vec.lo = VecBegin /\ SegmentScan.vec.hi = VecEnd
      BY <2>11 DEF Span
    <2>13. VecBegin \in Nat /\ VecEnd \in Nat  BY <1>1, <1>2, <2>6, <2>7
    <2> QED
      BY <1>2, <2>6, <2>7, <2>8, <2>11, <2>12, <2>13 DEF VectorSegments
  <1> QED  BY <1>5, <1>6

\* Where the loop of find_pattern_single starts and ends.
LEMMA LoopFacts ==
  ASSUME TypeOK, NEW lo \in Int, NEW hi \in Int, hi - lo >= Len(sig)
  PROVE  /\ ScanBegin(Span(lo, hi)) \in Int /\ ScanEnd(Span(lo, hi)) \in Int
         /\ lo + cmpIndex <= ScanBegin(Span(lo, hi))
         /\ ScanBegin(Span(lo, hi)) <= ScanEnd(Span(lo, hi))
         /\ (ScanBegin(Span(lo, hi)) - cmpIndex) % stride = 0
         /\ (ScanEnd(Span(lo, hi)) - cmpIndex) % stride = 0
         /\ \A q \in Int : q % stride = 0 =>
              /\ lo <= q <=> ScanBegin(Span(lo, hi)) <= q + cmpIndex
              /\ hi - Len(sig) < q <=> ScanEnd(Span(lo, hi)) <= q + cmpIndex
  <1> DEFINE last == hi - Len(sig) + 1
  <1>1. /\ Len(sig) \in Nat /\ Len(sig) >= 1
        /\ stride \in Nat \ {0}
        /\ cmpIndex \in Nat
    BY TypeFacts
  <1>2. last \in Int /\ lo <= last  BY <1>1
  <1>3. /\ ScanBegin(Span(lo, hi)) = AlignUp(lo, stride) + cmpIndex
        /\ ScanEnd(Span(lo, hi)) = AlignUp(last, stride) + cmpIndex
    BY DEF ScanBegin, ScanEnd, Span
  <1> HIDE DEF last
  <1>4. /\ AlignUp(lo, stride) \in Int /\ lo <= AlignUp(lo, stride)
        /\ AlignUp(lo, stride) % stride = 0
    BY <1>1, AlignUpFacts
  <1>5. AlignUp(last, stride) \in Int /\ AlignUp(last, stride) % stride = 0
    BY <1>1, <1>2, AlignUpFacts
  <1>6. AlignUp(lo, stride) <= AlignUp(last, stride)
    BY <1>1, <1>2, AlignUpMonotone
  <1>7. /\ ScanBegin(Span(lo, hi)) - cmpIndex = AlignUp(lo, stride)
        /\ ScanEnd(Span(lo, hi)) - cmpIndex = AlignUp(last, stride)
    BY <1>1, <1>3, <1>4, <1>5
  <1>8. ASSUME NEW q \in Int, q % stride = 0
        PROVE  /\ lo <= q <=> ScanBegin(Span(lo, hi)) <= q + cmpIndex
               /\ hi - Len(sig) < q <=> ScanEnd(Span(lo, hi)) <= q + cmpIndex
    <2>1. lo <= q <=> AlignUp(lo, stride) <= q  BY <1>1, <1>8, AlignUpLeast
    <2>2. last <= q <=> AlignUp(last, stride) <= q
      BY <1>1, <1>2, <1>8, AlignUpLeast
    <2>3. last <= q <=> hi - Len(sig) < q  BY <1>1 DEF last
    <2> QED  BY <1>1, <1>3, <1>4, <1>5, <2>1, <2>2, <2>3
  <1> QED  BY <1>1, <1>3, <1>4, <1>5, <1>6, <1>7, <1>8

\* The head and the tail of a scan, when they are there, hold the signature.
LEMMA SegmentFacts ==
  ASSUME TypeOK, SegmentsOK, pc \in {"pre", "vec", "lanes", "post"}
  PROVE  /\ segs.pre # EmptySpan
         /\ segs.vec = EmptySpan => segs = WholeScan
         /\ segs.post = EmptySpan <=> segs.vec = EmptySpan
         /\ segs.vec # EmptySpan => VectorSegments(segs)
         /\ \E lo, hi \in Int : /\ segs.pre = Span(lo, hi)
                               /\ hi - lo >= Len(sig)
                               /\ begin <= lo /\ hi <= end
         /\ segs.post # EmptySpan =>
              \E lo, hi \in Int : /\ segs.post = Span(lo, hi)
                                 /\ hi - lo >= Len(sig)
                                 /\ begin <= lo /\ hi <= end
  <1>1. /\ Len(sig) \in Nat /\ Len(sig) >= 1
        /\ begin \in Nat /\ end \in Nat
        /\ VecIndex \in Nat /\ VecIndex < Len(sig)
        /\ Len(sig) <= end - begin
    BY TypeFacts DEF SegmentsOK
  <1>2. CASE segs = WholeScan
    <2>1. /\ segs.pre = Span(begin, end)
          /\ segs.vec = EmptySpan /\ segs.post = EmptySpan
      BY <1>2 DEF WholeScan
    <2>2. segs.pre # EmptySpan  BY <1>1, <2>1 DEF Span, EmptySpan
    <2> QED  BY <1>1, <1>2, <2>1, <2>2
  <1>3. CASE VectorSegments(segs)
    <2>1. PICK a \in Nat, b \in Nat :
            /\ a < b /\ begin + VecIndex <= a
            /\ b + RequiredAfter <= end
            /\ segs = [pre  |-> Span(begin, a - VecIndex + Len(sig)),
                       vec  |-> Span(a, b),
                       post |-> Span(b - VecIndex, end)]
      BY <1>3 DEF VectorSegments
    <2>2. RequiredAfter \in Nat /\ RequiredAfter >= Len(sig)
      BY <1>1, <1>3, TypeFacts DEF RequiredAfter, VecCmp, VectorSegments
    <2>3. /\ segs.pre = Span(begin, a - VecIndex + Len(sig))
          /\ segs.vec = Span(a, b)
          /\ segs.post = Span(b - VecIndex, end)
      BY <2>1
    <2>4. segs.vec # EmptySpan  BY <2>1, <2>3 DEF Span, EmptySpan
    <2>5. segs.post # EmptySpan  BY <1>1, <2>1, <2>3 DEF Span, EmptySpan
    <2>6. segs.pre # EmptySpan  BY <1>1, <2>1, <2>3 DEF Span, EmptySpan
    <2>7. \E l, h \in Int : /\ segs.pre = Span(l, h)
                            /\ h - l >= Len(sig)
                            /\ begin <= l /\ h <= end
      <3>1. /\ begin \in Int /\ a - VecIndex + Len(sig) \in Int
            /\ (a - VecIndex + Len(sig)) - begin >= Len(sig)
            /\ begin <= begin /\ a - VecIndex + Len(sig) <= end
        BY <1>1, <2>1, <2>2
      <3> QED  BY <2>3, <3>1
    <2>8. \E l, h \in Int : /\ segs.post = Span(l, h)
                            /\ h - l >= Len(sig)
                            /\ begin <= l /\ h <= end
      <3>1. /\ b - VecIndex \in Int /\ end \in Int
            /\ end - (b - VecIndex) >= Len(sig)
            /\ begin <= b - VecIndex /\ end <= end
        BY <1>1, <2>1, <2>2
      <3> QED  BY <2>3, <3>1
    <2> QED  BY <1>3, <2>4, <2>5, <2>6, <2>7, <2>8
  <1> QED  BY <1>2, <1>3 DEF SegmentsOK

-----------------------------------------------------------------------------
(* Matches *)

\* Where the byte a scanner looks for is missing there is no match.
LEMMA ByteMissing ==
  ASSUME TypeOK, NEW k \in 0 .. Len(sig) - 1, All(sig[k + 1]), NEW p \in Int,
         mem[p + k] # Value(sig[k + 1])
  PROVE  ~ MatchesAt(mem, sig, p)
  <1>1. Len(sig) \in Nat  BY TypeFacts
  <1>2. k + 1 \in 1 .. Len(sig) /\ p + ((k + 1) - 1) = p + k  BY <1>1
  <1>3. sig[k + 1] = {Value(sig[k + 1])}  BY DEF All, Value
  <1>4. SUFFICES ASSUME MatchesAt(mem, sig, p) PROVE FALSE  OBVIOUS
  <1>5. mem[p + ((k + 1) - 1)] \in sig[k + 1]  BY <1>2, <1>4 DEF MatchesAt
  <1> QED  BY <1>2, <1>3, <1>5

LEMMA MatchFound ==
  ASSUME TypeOK, NEW p \in Int, begin <= p, p + Len(sig) <= end, p % stride = 0,
         NoneBelow(p), MatchesAt(mem, sig, p)
  PROVE  p \in Address /\ IsFirstMatch(p, mem, begin, end, sig, stride)
  <1>1. /\ Len(sig) \in Nat /\ Len(sig) >= 1 /\ MemSize \in Nat
        /\ begin \in Nat /\ end \in Nat /\ end <= MemSize
    BY TypeFacts
  <1>2. p \in Address /\ p # None  BY <1>1 DEF Address
  <1>3. p \in Matches(mem, begin, end, sig, stride)
    BY <1>1 DEF Matches, Starts
  <1>4. ASSUME NEW q \in Matches(mem, begin, end, sig, stride) PROVE p <= q
    <2>1. /\ q \in Starts(begin, end, sig, stride) /\ MatchesAt(mem, sig, q)
          /\ q \in Int
      BY <1>1 DEF Matches, Starts
    <2>2. ~ (q < p)  BY <2>1 DEF NoneBelow
    <2> QED  BY <2>1, <2>2
  <1> QED  BY <1>2, <1>3, <1>4 DEF IsFirstMatch

LEMMA NoMatchLeft ==
  ASSUME TypeOK, NoneBelow(end)
  PROVE  IsFirstMatch(None, mem, begin, end, sig, stride)
  <1>1. /\ Len(sig) \in Nat /\ Len(sig) >= 1
        /\ begin \in Nat /\ end \in Nat
    BY TypeFacts
  <1>2. \A p \in Starts(begin, end, sig, stride) : p < end
    BY <1>1 DEF Starts
  <1>3. \A p \in Starts(begin, end, sig, stride) : ~ MatchesAt(mem, sig, p)
    BY <1>2 DEF NoneBelow
  <1> QED  BY <1>3 DEF IsFirstMatch, Matches

\* No aligned address lies strictly between two adjacent ones.
LEMMA NoneBelowNext ==
  ASSUME TypeOK, NEW x \in Int, x % stride = 0, NoneBelow(x),
         x \in Starts(begin, end, sig, stride) => ~ MatchesAt(mem, sig, x)
  PROVE  NoneBelow(x + stride)
  <1>1. /\ stride \in Nat \ {0} /\ begin \in Nat /\ end \in Nat
        /\ Len(sig) \in Nat
    BY TypeFacts
  <1>2. SUFFICES ASSUME NEW p \in Starts(begin, end, sig, stride), p < x + stride
                 PROVE  ~ MatchesAt(mem, sig, p)
    BY DEF NoneBelow
  <1>3. p \in Int /\ p % stride = 0  BY <1>1 DEF Starts
  <1>4. CASE p < x  BY <1>4 DEF NoneBelow
  <1>5. CASE p = x  BY <1>5
  <1>6. CASE x < p
    <2>1. x + stride <= p  BY <1>1, <1>3, <1>6, MultiplesApart
    <2> QED  BY <1>1, <1>2, <1>3, <2>1
  <1> QED  BY <1>3, <1>4, <1>5, <1>6

-----------------------------------------------------------------------------
(* A step of find_pattern_single on a segment [lo, hi) *)

\* A pointer inside the loop stands on a start of the segment.
LEMMA LoopStart ==
  ASSUME TypeOK, NEW lo \in Int, NEW hi \in Int, hi - lo >= Len(sig),
         begin <= lo, hi <= end, NEW i \in Int, (i - cmpIndex) % stride = 0,
         ScanBegin(Span(lo, hi)) <= i, i < ScanEnd(Span(lo, hi))
  PROVE  /\ begin <= i - cmpIndex
         /\ (i - cmpIndex) + Len(sig) <= end
  <1>1. /\ Len(sig) \in Nat /\ cmpIndex \in Nat
        /\ begin \in Nat /\ end \in Nat
    BY TypeFacts
  <1>2. i - cmpIndex \in Int /\ (i - cmpIndex) + cmpIndex = i  BY <1>1
  <1>3. /\ ScanBegin(Span(lo, hi)) \in Int /\ ScanEnd(Span(lo, hi)) \in Int
        /\ lo <= i - cmpIndex <=> ScanBegin(Span(lo, hi)) <= i
        /\ hi - Len(sig) < i - cmpIndex <=> ScanEnd(Span(lo, hi)) <= i
    BY <1>2, LoopFacts
  <1> QED  BY <1>1, <1>2, <1>3

\* The loop of a segment [lo, hi) starts where nothing is left out before it.
LEMMA LoopEntry ==
  ASSUME TypeOK, NEW lo \in Int, NEW hi \in Int, hi - lo >= Len(sig), NoneBelow(lo)
  PROVE  NoneBelow(ScanBegin(Span(lo, hi)) - cmpIndex)
  <1>1. PICK x \in Int : /\ x = ScanBegin(Span(lo, hi))
                         /\ \A q \in Int : q % stride = 0 =>
                              (lo <= q <=> x <= q + cmpIndex)
    BY LoopFacts
  <1>2. begin \in Nat /\ end \in Nat /\ Len(sig) \in Nat /\ cmpIndex \in Nat
    BY TypeFacts
  <1>3. ASSUME NEW p \in Starts(begin, end, sig, stride), p < x - cmpIndex
        PROVE  ~ MatchesAt(mem, sig, p)
    <2>1. p \in Int /\ p % stride = 0  BY <1>2 DEF Starts
    <2>2. ~ (x <= p + cmpIndex)  BY <1>2, <1>3, <2>1
    <2>3. p < lo  BY <1>1, <2>1, <2>2
    <2> QED  BY <2>3 DEF NoneBelow
  <1> QED  BY <1>1, <1>3 DEF NoneBelow

\* When the loop of a segment [lo, hi) has ended, no start of it is left.
LEMMA LoopExit ==
  ASSUME TypeOK, NEW lo \in Int, NEW hi \in Int, hi - lo >= Len(sig),
         Span(lo, hi) # EmptySpan, SingleOK(Span(lo, hi)),
         NoneBelow(pos - cmpIndex), Exhausted(Span(lo, hi))
  PROVE  NoneBelow(hi - Len(sig) + 1)
  <1>1. PICK x \in Int : /\ x = ScanEnd(Span(lo, hi))
                         /\ ScanBegin(Span(lo, hi)) \in Int
                         /\ ScanBegin(Span(lo, hi)) <= x
                         /\ \A q \in Int : q % stride = 0 =>
                              (hi - Len(sig) < q <=> x <= q + cmpIndex)
    BY LoopFacts
  <1>2. /\ begin \in Nat /\ end \in Nat /\ Len(sig) \in Nat /\ cmpIndex \in Nat
        /\ pos \in Nat
    BY TypeFacts DEF TypeOK
  <1>3. pos = x  BY <1>1, <1>2 DEF Exhausted, SingleOK
  <1>4. ASSUME NEW p \in Starts(begin, end, sig, stride), p < hi - Len(sig) + 1
        PROVE  ~ MatchesAt(mem, sig, p)
    <2>1. p \in Int /\ p % stride = 0  BY <1>2 DEF Starts
    <2>2. ~ (hi - Len(sig) < p)  BY <1>2, <1>4, <2>1
    <2>3. p + cmpIndex < x  BY <1>1, <1>2, <2>1, <2>2
    <2>4. p < pos - cmpIndex  BY <1>2, <1>3, <2>1, <2>3
    <2> QED  BY <2>4 DEF NoneBelow
  <1> QED  BY <1>4 DEF NoneBelow

\* No start lies behind the last place the signature fits in.
LEMMA NoneBelowEnd ==
  ASSUME TypeOK, NoneBelow(end - Len(sig) + 1)
  PROVE  NoneBelow(end)
  <1>1. begin \in Nat /\ end \in Nat /\ Len(sig) \in Nat  BY TypeFacts
  <1>2. \A p \in Starts(begin, end, sig, stride) : p < end - Len(sig) + 1
    BY <1>1 DEF Starts
  <1> QED  BY <1>2 DEF NoneBelow

\* What a step of the loop leaves behind: it goes on with one start fewer to
\* consider, or it returns the first match.
LoopStep(lo, hi) ==
  /\ UNCHANGED <<query, context, segs, lanes>>
  /\ read' \in [lo : Nat, hi : Nat]
  /\ begin <= read'.lo /\ read'.lo <= read'.hi /\ read'.hi <= end
  /\ pos' \in Nat
  /\ \/ /\ pc' = pc
        /\ result' = result
        /\ (pos' - cmpIndex) % stride = 0
        /\ ScanBegin(Span(lo, hi)) <= pos' /\ pos' <= ScanEnd(Span(lo, hi))
        /\ NoneBelow(pos' - cmpIndex)
     \/ /\ pc' = "done"
        /\ result' \in Address
        /\ IsFirstMatch(result', mem, begin, end, sig, stride)

LEMMA StrideStep ==
  ASSUME TypeOK, ContextOK, NEW lo \in Int, NEW hi \in Int, hi - lo >= Len(sig),
         begin <= lo, hi <= end, NEW phase, phase # "create",
         SingleOK(Span(lo, hi)), NoneBelow(pos - cmpIndex),
         Stride(phase, Span(lo, hi))
  PROVE  LoopStep(lo, hi)
  <1> DEFINE start == pos - cmpIndex
  <1>1. /\ Len(sig) \in Nat /\ Len(sig) >= 1 /\ stride \in Nat \ {0}
        /\ begin \in Nat /\ end \in Nat /\ end <= MemSize /\ MemSize \in Nat
        /\ cmpIndex \in Nat /\ cmpIndex < Len(sig)
        /\ pos \in Nat
    BY TypeFacts DEF TypeOK
  <1>2. /\ ScanBegin(Span(lo, hi)) \in Int /\ ScanEnd(Span(lo, hi)) \in Int
        /\ (ScanEnd(Span(lo, hi)) - cmpIndex) % stride = 0
    BY LoopFacts
  <1>3. /\ pc = phase /\ pos # ScanEnd(Span(lo, hi)) /\ stride # 1
    BY DEF Stride, Exhausted
  <1>4. /\ start % stride = 0 /\ ScanBegin(Span(lo, hi)) <= pos
        /\ pos < ScanEnd(Span(lo, hi)) /\ pos \in Int
    BY <1>1, <1>2, <1>3 DEF SingleOK
  <1>5. begin <= start /\ start + Len(sig) <= end  BY <1>4, LoopStart
  <1>6. start \in Int /\ start + cmpIndex = pos  BY <1>1
  <1>7. pos + stride <= ScanEnd(Span(lo, hi))
    <2>1. /\ ScanEnd(Span(lo, hi)) - cmpIndex \in Int
          /\ start < ScanEnd(Span(lo, hi)) - cmpIndex
      BY <1>1, <1>2, <1>4
    <2>2. start + stride <= ScanEnd(Span(lo, hi)) - cmpIndex
      BY <1>1, <1>2, <1>4, <1>6, <2>1, MultiplesApart
    <2> QED  BY <1>1, <1>2, <2>2
  <1>8. ASSUME ~ MatchesAt(mem, sig, start)
        PROVE  /\ (pos + stride) - cmpIndex = start + stride
               /\ ((pos + stride) - cmpIndex) % stride = 0
               /\ NoneBelow((pos + stride) - cmpIndex)
    <2>1. (pos + stride) - cmpIndex = start + stride  BY <1>1
    <2>2. NoneBelow(start + stride)
      BY <1>4, <1>6, <1>8, NoneBelowNext
    <2>3. stride % stride = 0
      <3>1. stride * 1 = stride /\ 1 \in Int  BY <1>1
      <3> QED  BY <1>1, <3>1, MultipleMod
    <2>4. (start + stride) % stride = 0
      <3>1. start \in Int /\ stride \in Int /\ start % stride = 0
        BY <1>1, <1>4, <1>6
      <3> HIDE DEF start
      <3> QED  BY <1>1, <2>3, <3>1, SumOfMultiples
    <2> QED  BY <2>1, <2>2, <2>4
  <1>9. /\ UNCHANGED <<query, context, segs>>
        /\ pos + stride \in Nat
    BY <1>1 DEF Stride
  <1>10. CASE mem[pos] = CmpByte /\ MatchesAt(mem, sig, start)
    <2>1. /\ read' = Span(start, start + Len(sig)) /\ result' = start
          /\ pc' = "done" /\ UNCHANGED <<pos, lanes>>
      BY <1>10 DEF Stride, Return
    <2>2. start \in Address /\ IsFirstMatch(start, mem, begin, end, sig, stride)
      BY <1>4, <1>5, <1>6, <1>10, MatchFound
    <2>3. /\ read' \in [lo : Nat, hi : Nat]
          /\ begin <= read'.lo /\ read'.lo <= read'.hi /\ read'.hi <= end
      BY <1>1, <1>5, <1>6, <2>1 DEF Span
    <2> QED  BY <1>1, <1>9, <2>1, <2>2, <2>3 DEF LoopStep
  <1>11. CASE mem[pos] = CmpByte /\ ~ MatchesAt(mem, sig, start)
    <2>1. /\ read' = Span(start, start + Len(sig)) /\ pos' = pos + stride
          /\ UNCHANGED <<pc, lanes, result>>
      BY <1>11 DEF Stride
    <2>2. /\ read' \in [lo : Nat, hi : Nat]
          /\ begin <= read'.lo /\ read'.lo <= read'.hi /\ read'.hi <= end
      BY <1>1, <1>5, <1>6, <2>1 DEF Span
    <2>3. ScanBegin(Span(lo, hi)) <= pos + stride  BY <1>1, <1>2, <1>4
    <2> QED  BY <1>7, <1>8, <1>9, <1>11, <2>1, <2>2, <2>3 DEF LoopStep
  <1>12. CASE mem[pos] # CmpByte
    <2>1. /\ read' = Span(pos, pos + 1) /\ pos' = pos + stride
          /\ UNCHANGED <<pc, lanes, result>>
      BY <1>12 DEF Stride
    <2>2. /\ read' \in [lo : Nat, hi : Nat]
          /\ begin <= read'.lo /\ read'.lo <= read'.hi /\ read'.hi <= end
      BY <1>1, <1>5, <1>6, <2>1 DEF Span
    <2>3. ~ MatchesAt(mem, sig, start)
      <3>1. cmpIndex \in 0 .. Len(sig) - 1 /\ All(sig[cmpIndex + 1])
        BY <1>1, <1>3 DEF ContextOK
      <3> QED  BY <1>6, <1>12, <3>1, ByteMissing DEF CmpByte
    <2>4. ScanBegin(Span(lo, hi)) <= pos + stride  BY <1>1, <1>2, <1>4
    <2> QED  BY <1>7, <1>8, <1>9, <2>1, <2>2, <2>3, <2>4 DEF LoopStep
  <1> QED  BY <1>10, <1>11, <1>12

\* With a stride of 1 every address is aligned.
LEMMA StrideOne ==
  ASSUME NEW n \in Int
  PROVE  n % 1 = 0
  <1>1. n % 1 \in 0 .. 1 - 1  BY DivMod
  <1> QED  BY <1>1

\* memchr has looked at every byte between the pointer and x.
LEMMA NoneBelowScanned ==
  ASSUME TypeOK, ContextOK, pc # "create", NEW x \in Int,
         NoneBelow(pos - cmpIndex),
         \A i \in Int : pos <= i /\ i < x => mem[i] # CmpByte
  PROVE  NoneBelow(x - cmpIndex)
  <1>1. /\ begin \in Nat /\ end \in Nat /\ Len(sig) \in Nat
        /\ cmpIndex \in Nat /\ cmpIndex < Len(sig) /\ pos \in Nat
    BY TypeFacts DEF TypeOK
  <1>2. SUFFICES ASSUME NEW p \in Starts(begin, end, sig, stride), p < x - cmpIndex
                 PROVE  ~ MatchesAt(mem, sig, p)
    BY DEF NoneBelow
  <1>3. p \in Int  BY <1>1 DEF Starts
  <1>4. CASE p < pos - cmpIndex  BY <1>4 DEF NoneBelow
  <1>5. CASE ~ (p < pos - cmpIndex)
    <2>1. p + cmpIndex \in Int /\ pos <= p + cmpIndex /\ p + cmpIndex < x
      BY <1>1, <1>2, <1>3, <1>5
    <2>2. mem[p + cmpIndex] # Value(sig[cmpIndex + 1])  BY <2>1 DEF CmpByte
    <2>3. cmpIndex \in 0 .. Len(sig) - 1 /\ All(sig[cmpIndex + 1])
      BY <1>1 DEF ContextOK
    <2> QED  BY <1>3, <2>2, <2>3, ByteMissing
  <1> QED  BY <1>4, <1>5

LEMMA NoHitStep ==
  ASSUME TypeOK, ContextOK, NEW lo \in Int, NEW hi \in Int, hi - lo >= Len(sig),
         begin <= lo, hi <= end, NEW phase, phase # "create",
         SingleOK(Span(lo, hi)), NoneBelow(pos - cmpIndex),
         NoHit(phase, Span(lo, hi))
  PROVE  LoopStep(lo, hi)
  <1> DEFINE last == ScanEnd(Span(lo, hi))
  <1>1. /\ Len(sig) \in Nat /\ Len(sig) >= 1
        /\ begin \in Nat /\ end \in Nat
        /\ cmpIndex \in Nat /\ cmpIndex < Len(sig)
        /\ pos \in Nat
    BY TypeFacts DEF TypeOK
  <1>2. /\ pc = phase /\ stride = 1 /\ Hits(Span(lo, hi)) = {}
        /\ pos # last /\ pos' = last /\ read' = Span(pos, last)
        /\ UNCHANGED <<query, context, pc, segs, lanes, result>>
    BY DEF NoHit, Exhausted
  <1>3. /\ last \in Int /\ ScanBegin(Span(lo, hi)) \in Int
        /\ lo + cmpIndex <= ScanBegin(Span(lo, hi))
        /\ (last - cmpIndex) % stride = 0
        /\ ScanBegin(Span(lo, hi)) <= pos /\ pos < last
    BY <1>1, <1>2, LoopFacts, SMTT(60) DEF SingleOK
  <1>4. last <= end
    <2>1. last - 1 \in Int /\ ScanBegin(Span(lo, hi)) <= last - 1 /\ last - 1 < last
      BY <1>1, <1>3
    <2>2. ((last - 1) - cmpIndex) % stride = 0  BY <1>1, <1>2, <1>3, StrideOne
    <2>3. ((last - 1) - cmpIndex) + Len(sig) <= end  BY <2>1, <2>2, LoopStart
    <2> QED  BY <1>1, <1>3, <2>3
  <1>5. NoneBelow(last - cmpIndex)
    <2>1. \A i \in Int : pos <= i /\ i < last => mem[i] # CmpByte
      BY <1>1, <1>2, <1>3 DEF Hits
    <2> QED  BY <1>2, <1>3, <2>1, NoneBelowScanned
  <1>6. /\ read' \in [lo : Nat, hi : Nat]
        /\ begin <= read'.lo /\ read'.lo <= read'.hi /\ read'.hi <= end
    BY <1>1, <1>2, <1>3, <1>4 DEF Span
  <1> QED  BY <1>1, <1>2, <1>3, <1>5, <1>6 DEF LoopStep

LEMMA HitStep ==
  ASSUME TypeOK, ContextOK, NEW lo \in Int, NEW hi \in Int, hi - lo >= Len(sig),
         begin <= lo, hi <= end, NEW phase, phase # "create",
         SingleOK(Span(lo, hi)), NoneBelow(pos - cmpIndex),
         Hit(phase, Span(lo, hi))
  PROVE  LoopStep(lo, hi)
  <1>1. /\ Len(sig) \in Nat /\ Len(sig) >= 1
        /\ begin \in Nat /\ end \in Nat
        /\ cmpIndex \in Nat /\ cmpIndex < Len(sig)
        /\ pos \in Nat
    BY TypeFacts DEF TypeOK
  <1>2. /\ pc = phase /\ stride = 1 /\ Hits(Span(lo, hi)) # {}
        /\ pos # ScanEnd(Span(lo, hi))
        /\ UNCHANGED <<query, context, segs>>
    BY DEF Hit, Exhausted
  <1>3. /\ ScanEnd(Span(lo, hi)) \in Int /\ ScanBegin(Span(lo, hi)) \in Int
        /\ lo + cmpIndex <= ScanBegin(Span(lo, hi))
        /\ ScanBegin(Span(lo, hi)) <= pos
    BY <1>1, LoopFacts DEF SingleOK
  <1>4. PICK i \in Nat : i = Min(Hits(Span(lo, hi))) /\ i \in Hits(Span(lo, hi))
                         /\ \A g \in Hits(Span(lo, hi)) : i <= g
    <2>1. Hits(Span(lo, hi)) \in SUBSET Nat  BY <1>1, <1>3 DEF Hits
    <2> QED  BY <1>2, <2>1, MinFacts
  <1>5. pos <= i /\ i < ScanEnd(Span(lo, hi)) /\ mem[i] = CmpByte
    BY <1>1, <1>3, <1>4 DEF Hits
  <1>6. \A j \in Int : pos <= j /\ j < i => mem[j] # CmpByte
    BY <1>1, <1>3, <1>4, <1>5 DEF Hits
  <1>7. PICK start \in Int : start = i - cmpIndex  BY <1>1
  <1>8. begin <= start /\ start + Len(sig) <= end /\ start % stride = 0
    <2>1. (i - cmpIndex) % stride = 0  BY <1>2, <1>7, StrideOne
    <2>2. i \in Int /\ ScanBegin(Span(lo, hi)) <= i  BY <1>1, <1>3, <1>5
    <2> QED  BY <1>5, <1>7, <2>1, <2>2, LoopStart
  <1>9. NoneBelow(start)
    <2>1. i \in Int  OBVIOUS
    <2> QED  BY <1>2, <1>6, <1>7, <2>1, NoneBelowScanned
  <1>10. read' = Span(IF pos <= start THEN pos ELSE start, start + Len(sig))
    BY <1>4, <1>7 DEF Hit
  <1>11. /\ read' \in [lo : Nat, hi : Nat]
         /\ begin <= read'.lo /\ read'.lo <= read'.hi /\ read'.hi <= end
    <2>1. start \in Nat /\ begin <= pos  BY <1>1, <1>3, <1>7, <1>8
    <2> QED  BY <1>1, <1>8, <1>10, <2>1 DEF Span
  <1>12. CASE MatchesAt(mem, sig, start)
    <2>1. result' = start /\ pc' = "done" /\ UNCHANGED <<pos, lanes>>
      BY <1>4, <1>7, <1>12 DEF Hit, Return
    <2>2. start \in Address /\ IsFirstMatch(start, mem, begin, end, sig, stride)
      BY <1>8, <1>9, <1>12, MatchFound
    <2> QED  BY <1>1, <1>2, <1>11, <2>1, <2>2 DEF LoopStep
  <1>13. CASE ~ MatchesAt(mem, sig, start)
    <2>1. pos' = i + 1 /\ UNCHANGED <<pc, lanes, result>>
      BY <1>4, <1>7, <1>13 DEF Hit
    <2>2. NoneBelow(start + stride)  BY <1>8, <1>9, <1>13, NoneBelowNext
    <2>3. start + stride = (i + 1) - cmpIndex  BY <1>1, <1>2, <1>7
    <2>4. ((i + 1) - cmpIndex) % stride = 0
      BY <1>1, <1>2, <2>3, StrideOne
    <2>5. ScanBegin(Span(lo, hi)) <= i + 1 /\ i + 1 <= ScanEnd(Span(lo, hi))
      BY <1>1, <1>3, <1>5
    <2> QED  BY <1>2, <1>11, <2>1, <2>2, <2>3, <2>4, <2>5 DEF LoopStep
  <1> QED  BY <1>12, <1>13

\* So every step of the loop of a segment is as it should be.
LEMMA SingleStepInv ==
  ASSUME TypeOK, ContextOK, SegmentsOK,
         NEW phase \in {"pre", "post"}, NEW s, pc = phase,
         s = (IF phase = "pre" THEN segs.pre ELSE segs.post),
         SingleOK(s), NoneBelow(pos - cmpIndex), SingleStep(phase, s)
  PROVE  \E lo, hi \in Int : s = Span(lo, hi) /\ LoopStep(lo, hi)
  <1>1. s # EmptySpan
    BY DEF SingleStep, NoHit, Hit, Stride, Exhausted
  <1>2. PICK lo, hi \in Int : /\ s = Span(lo, hi)
                             /\ hi - lo >= Len(sig)
                             /\ begin <= lo /\ hi <= end
    BY <1>1, SegmentFacts
  <1>3. /\ SingleOK(Span(lo, hi))
        /\ NoHit(phase, Span(lo, hi)) \/ Hit(phase, Span(lo, hi))
             \/ Stride(phase, Span(lo, hi))
    BY <1>2 DEF SingleStep
  <1>4. LoopStep(lo, hi)  BY <1>2, <1>3, NoHitStep, HitStep, StrideStep
  <1> QED  BY <1>2, <1>4

-----------------------------------------------------------------------------
(* The lanes of a vector *)

\* The rotated alignment mask keeps exactly the lanes of aligned starts.
LEMMA RotatedMaskFacts ==
  ASSUME TypeOK, isa \in VectorIsa, NEW x \in Int, x % Width[isa] = 0,
         NEW o \in 0 .. Width[isa] - 1
  PROVE  o \in RotatedMask <=> (x + o - VecIndex) % stride = 0
  <1>1. PICK V \in Nat \ {0} : V = Width[isa] /\ V % stride = 0  BY TypeFacts
  <1>2. PICK a \in Nat \ {0} : a = stride  BY TypeFacts
  <1>3. PICK r \in Nat : r = VecIndex  BY TypeFacts
  <1>4. x % a = 0  BY <1>1, <1>2, MultipleOfMultiple
  <1>5. o \in 0 .. V - 1  BY <1>1
  <1>6. ASSUME NEW k \in 0 .. V - 1, k % a = 0, o = (k + r) % V
        PROVE  (x + o - r) % a = 0
    <2>1. PICK q \in Int : k + r = (V * q) + o  BY <1>6, DivMod, k + r \in Int
    <2>2. V * q \in Int /\ (V * q) % V = 0  BY MultipleMod
    <2>3. (V * q) % a = 0  BY <1>1, <1>2, <2>2, MultipleOfMultiple
    <2>4. (x + k) % a = 0 /\ x + k \in Int  BY <1>4, <1>6, SumOfMultiples
    <2>5. ((x + k) - (V * q)) % a = 0  BY <2>2, <2>3, <2>4, SumOfMultiples
    <2>6. x + o - r = (x + k) - (V * q)  BY <1>5, <2>1, <2>2
    <2> QED  BY <2>5, <2>6
  <1>7. ASSUME (x + o - r) % a = 0
        PROVE  \E k \in 0 .. V - 1 : k % a = 0 /\ o = (k + r) % V
    <2>1. PICK k \in 0 .. V - 1, q \in Int : o - r = (V * q) + k
      <3>1. PICK n \in Int : n = o - r  BY <1>5
      <3>2. n \div V \in Int /\ n % V \in 0 .. V - 1
            /\ n = (V * (n \div V)) + (n % V)
        BY DivMod
      <3> QED  BY <3>1, <3>2
    <2>2. V * q \in Int /\ (V * q) % V = 0  BY MultipleMod
    <2>3. (V * q) % a = 0  BY <1>1, <1>2, <2>2, MultipleOfMultiple
    <2>4. ((x + o - r) - x) % a = 0
      <3>1. x + o - r \in Int  BY <1>5
      <3> QED  BY <1>4, <1>7, <3>1, SumOfMultiples
    <2>5. (o - r) % a = 0 /\ o - r \in Int
      <3>1. (x + o - r) - x = o - r  BY <1>5
      <3> QED  BY <2>4, <3>1, <1>5
    <2>6. ((o - r) - (V * q)) % a = 0  BY <2>2, <2>3, <2>5, SumOfMultiples
    <2>7. k % a = 0
      <3>1. (o - r) - (V * q) = k  BY <2>1, <2>2, <2>5
      <3> QED  BY <2>6, <3>1
    <2>8. (k + r) % V = o
      <3>1. PICK z \in Int : z = -q /\ V * z = -(V * q)  OBVIOUS
      <3>2. k + r = (V * z) + o  BY <1>5, <2>1, <2>2, <3>1
      <3>3. ((V * z) + o) % V = o  BY <1>5, ModUnique
      <3> QED  BY <3>2, <3>3
    <2> QED  BY <2>7, <2>8
  <1>8. o \in RotatedMask <=> \E k \in 0 .. V - 1 : k % a = 0 /\ o = (k + r) % V
    BY <1>1, <1>2, <1>3 DEF RotatedMask, AlignmentMask
  <1>9. x + o - VecIndex = x + o - r  BY <1>3
  <1> QED  BY <1>2, <1>6, <1>7, <1>8, <1>9

\* A lane that is not a candidate holds no match, and a candidate is aligned.
LEMMA CandidateFacts ==
  ASSUME TypeOK, ContextOK, pc # "create", isa \in VectorIsa,
         pos % Width[isa] = 0, NEW o \in 0 .. Width[isa] - 1
  PROVE  /\ o \in Candidates => (pos + o - VecIndex) % stride = 0
         /\ o \notin Candidates =>
              (pos + o - VecIndex \in Starts(begin, end, sig, stride) =>
                 ~ MatchesAt(mem, sig, pos + o - VecIndex))
  <1>1. /\ Len(sig) \in Nat /\ VecIndex \in Nat /\ VecIndex < Len(sig)
        /\ pos \in Nat /\ Width[isa] \in Nat \ {0} /\ stride \in Nat \ {0}
        /\ cmpIndex \in Nat
    BY TypeFacts DEF TypeOK
  <1>2. PICK p \in Int : p = pos + o - VecIndex  BY <1>1
  <1>3. pos \in Int /\ p + VecIndex = pos + o  BY <1>1, <1>2
  <1>4. o \in RotatedMask <=> p % stride = 0
    BY <1>2, <1>3, RotatedMaskFacts
  <1>5. All(sig[VecIndex + 1])
    BY DEF ContextOK, VecIndex, CmpEq2, TypeOK, Pairs
  <1>6. o \in Candidates => p % stride = 0
    <2>1. CASE stride = 1
      <3>1. p % 1 = 0  BY StrideOne
      <3> QED  BY <2>1, <3>1
    <2>2. CASE stride # 1  BY <1>4, <2>2 DEF Candidates
    <2> QED  BY <2>1, <2>2
  <1>7. ASSUME o \notin Candidates, p \in Starts(begin, end, sig, stride)
        PROVE  ~ MatchesAt(mem, sig, p)
    <2>1. p % stride = 0  BY <1>7 DEF Starts
    <2>2. CASE mem[pos + o] # Value(sig[VecIndex + 1])
      <3>1. mem[p + VecIndex] # Value(sig[VecIndex + 1])  BY <1>3, <2>2
      <3>2. VecIndex \in 0 .. Len(sig) - 1  BY <1>1
      <3> QED  BY <1>5, <3>1, <3>2, ByteMissing
    <2>3. CASE CmpEq2 /\ ~ SecondByteAt(o)
      <3>1. mem[pos + o + 1] # Value(sig[pairIndex + 2])  BY <2>3 DEF SecondByteAt
      <3>2. /\ VecIndex = pairIndex /\ pairIndex \in Pairs(sig)
        BY <2>3 DEF CmpEq2, VecIndex, TypeOK
      <3>3. /\ pairIndex + 1 \in 0 .. Len(sig) - 1
            /\ (pairIndex + 1) + 1 = pairIndex + 2
            /\ p + (pairIndex + 1) = pos + o + 1
            /\ All(sig[pairIndex + 2])
        BY <1>1, <1>2, <3>2 DEF Pairs
      <3>4. PICK k \in 0 .. Len(sig) - 1 : k = pairIndex + 1  BY <3>3
      <3>5. All(sig[k + 1]) /\ mem[p + k] # Value(sig[k + 1])
        BY <3>1, <3>3, <3>4
      <3> QED  BY <3>5, ByteMissing
    <2>4. CASE stride # 1 /\ o \notin RotatedMask  BY <1>4, <2>1, <2>4
    <2> QED  BY <1>7, <2>2, <2>3, <2>4 DEF Candidates
  <1> QED  BY <1>2, <1>6, <1>7

-----------------------------------------------------------------------------
(* Every step preserves the inductive invariant *)

LEMMA SignatureLength == ASSUME TypeOK PROVE Len(sig) \in Nat /\ 0 \in 0 .. Len(sig) - 1
  BY TypeFacts

LEMMA InitInv == Init => Inv
  <1> SUFFICES ASSUME Init PROVE Inv  OBVIOUS
  <1>1. /\ begin \in 0 .. MemSize /\ end \in 0 .. MemSize /\ begin <= end
        /\ MemSize \in Nat
    BY ScannerAssumption, SearchAssumption, PatternAssumption DEF Init, Arguments
  <1>2. sig \in Signatures /\ 0 \in 0 .. Len(sig) - 1
    BY SignatureFacts DEF Init, Arguments
  <1>3. TypeOK
    <2>1. segs \in [pre : SpanType, vec : SpanType, post : SpanType]
      BY <1>1 DEF Init, Arguments, EmptySpan, Span, SpanType
    <2>2. read \in [lo : Nat, hi : Nat]  BY <1>1 DEF Init, Arguments, Span
    <2>3. mem \in [Address -> Byte]  BY ScannerAssumption, SearchAssumption DEF Init, Arguments
    <2> QED  BY <1>1, <1>2, <2>1, <2>2, <2>3 DEF Init, Arguments, TypeOK, Phases
  <1>4. ReadsInBounds  BY <1>1 DEF Init, Arguments, ReadsInBounds, Span
  <1> QED
    BY <1>3, <1>4
    DEF Init, Arguments, Inv, ContextOK, SegmentsOK, PointerOK, RuledOut, ReturnsFirstMatch

\* A step that leaves the arguments and the context alone keeps what is said
\* about them.
LEMMA FrameFacts ==
  ASSUME UNCHANGED <<query, context>>
  PROVE  /\ VecIndex' = VecIndex /\ CmpEq2' = CmpEq2 /\ RequiredAfter' = RequiredAfter
         /\ WholeScan' = WholeScan
         /\ \A s : ScanBegin(s)' = ScanBegin(s) /\ ScanEnd(s)' = ScanEnd(s)
         /\ \A x : NoneBelow(x)' = NoneBelow(x)
         /\ \A r : IsFirstMatch(r, mem, begin, end, sig, stride)'
                     = IsFirstMatch(r, mem, begin, end, sig, stride)
         /\ \A g : VectorSegments(g)' = VectorSegments(g)
  BY DEF query, context, VecIndex, CmpEq2, RequiredAfter, VecCmp, WholeScan,
         ScanBegin, ScanEnd, NoneBelow, VectorSegments

Scanning == {"pre", "vec", "lanes", "post"}

\* A step within the scan keeps the segments; what is left to show of Inv'
\* concerns the pointer, the lanes, the load and the result.
LEMMA KeepSegments ==
  ASSUME Inv, UNCHANGED <<query, context, segs>>, pc \in Scanning,
         pc' \in Scanning \cup {"done"},
         pos' \in Nat, lanes' \in SUBSET Nat, read' \in [lo : Nat, hi : Nat],
         result' \in Address \cup {None}
  PROVE  TypeOK' /\ ContextOK' /\ SegmentsOK'
  <1>1. TypeOK'
    BY DEF Inv, TypeOK, query, context, Scanning, Phases
  <1>2. ContextOK'
    BY DEF Inv, ContextOK, context, query, Scanning
  <1>3. SegmentsOK'
    BY DEF Inv, SegmentsOK, query, context, Scanning, WholeScan, VectorSegments,
           VecIndex, CmpEq2, RequiredAfter, VecCmp
  <1> QED  BY <1>1, <1>2, <1>3

\* The same for a step that returns r.
LEMMA ReturnInv ==
  ASSUME Inv, UNCHANGED <<query, context, segs, pos, lanes>>, pc \in Scanning,
         pc' = "done", result' \in Address \cup {None},
         IsFirstMatch(result', mem, begin, end, sig, stride),
         read' \in [lo : Nat, hi : Nat],
         begin <= read'.lo, read'.lo <= read'.hi, read'.hi <= end
  PROVE  Inv'
  <1>1. pos' \in Nat /\ lanes' \in SUBSET Nat  BY DEF Inv, TypeOK
  <1>2. TypeOK' /\ ContextOK' /\ SegmentsOK'  BY <1>1, KeepSegments
  <1>3. ReadsInBounds' /\ ReturnsFirstMatch'
    BY DEF ReadsInBounds, ReturnsFirstMatch, query
  <1> QED  BY <1>2, <1>3 DEF Inv, PointerOK, RuledOut

LEMMA SingleInv ==
  ASSUME Inv, NEW phase \in {"pre", "post"}, NEW s,
         s = (IF phase = "pre" THEN segs.pre ELSE segs.post),
         SingleStep(phase, s)
  PROVE  Inv'
  <1>1. pc = phase /\ s # EmptySpan
    BY DEF SingleStep, NoHit, Hit, Stride, Exhausted
  <1>2. SingleOK(s) /\ NoneBelow(pos - cmpIndex)
    BY <1>1 DEF Inv, PointerOK, RuledOut
  <1>3. PICK lo, hi \in Int : s = Span(lo, hi) /\ LoopStep(lo, hi)
    BY <1>1, <1>2, SingleStepInv DEF Inv
  <1>4. /\ UNCHANGED <<query, context, segs, lanes>>
        /\ read' \in [lo : Nat, hi : Nat]
        /\ begin <= read'.lo /\ read'.lo <= read'.hi /\ read'.hi <= end
        /\ pos' \in Nat /\ lanes' \in SUBSET Nat
    BY <1>3 DEF LoopStep, Inv, TypeOK
  <1>5. CASE pc' = "done"
    <2>1. result' \in Address /\ IsFirstMatch(result', mem, begin, end, sig, stride)
      BY <1>1, <1>3, <1>5 DEF LoopStep
    <2>2. TypeOK' /\ ContextOK' /\ SegmentsOK'
      BY <1>1, <1>4, <1>5, <2>1, KeepSegments DEF Scanning
    <2>3. ReadsInBounds' /\ ReturnsFirstMatch'
      BY <1>4, <2>1 DEF ReadsInBounds, ReturnsFirstMatch, query
    <2> QED  BY <1>5, <2>2, <2>3 DEF Inv, PointerOK, RuledOut
  <1>6. CASE pc' # "done"
    <2>1. /\ pc' = phase /\ result' = result
          /\ (pos' - cmpIndex) % stride = 0
          /\ ScanBegin(s) <= pos' /\ pos' <= ScanEnd(s)
          /\ NoneBelow(pos' - cmpIndex)
      BY <1>1, <1>3, <1>6 DEF LoopStep
    <2>2. TypeOK' /\ ContextOK' /\ SegmentsOK'
      BY <1>1, <1>4, <2>1, KeepSegments DEF Scanning, Inv, TypeOK
    <2>3. ReadsInBounds'  BY <1>4 DEF ReadsInBounds, query
    <2>4. SingleOK(s)'
      BY <1>4, <2>1 DEF SingleOK, ScanBegin, ScanEnd, query, context
    <2>5. NoneBelow(pos - cmpIndex)'
      BY <1>4, <2>1 DEF NoneBelow, query, context
    <2>6. PointerOK' /\ RuledOut'
      BY <1>1, <1>4, <2>1, <2>4, <2>5 DEF PointerOK, RuledOut
    <2>7. ReturnsFirstMatch'  BY <1>6 DEF ReturnsFirstMatch
    <2> QED  BY <2>2, <2>3, <2>6, <2>7 DEF Inv
  <1> QED  BY <1>5, <1>6

\* The segments Dispatch chooses between: addresses all, the head at begin.
LEMMA SegmentTypes ==
  ASSUME TypeOK, NEW g, g = WholeScan \/ VectorSegments(g), Len(sig) <= end - begin
  PROVE  /\ g \in [pre : SpanType, vec : SpanType, post : SpanType]
         /\ \E hi \in Int : /\ g.pre = Span(begin, hi)
                           /\ hi - begin >= Len(sig)
                           /\ hi <= end
  <1>1. /\ Len(sig) \in Nat /\ Len(sig) >= 1
        /\ begin \in Nat /\ end \in Nat /\ end <= MemSize /\ MemSize \in Nat
        /\ VecIndex \in Nat /\ VecIndex < Len(sig)
    BY TypeFacts
  <1>2. CASE g = WholeScan
    <2>1. g.pre = Span(begin, end)  BY <1>2 DEF WholeScan
    <2>2. g \in [pre : SpanType, vec : SpanType, post : SpanType]
      BY <1>1, <1>2 DEF WholeScan, Span, EmptySpan, SpanType
    <2> QED  BY <1>1, <2>1, <2>2
  <1>3. CASE VectorSegments(g)
    <2>1. PICK a \in Nat, b \in Nat :
            /\ a < b /\ begin + VecIndex <= a
            /\ b + RequiredAfter <= end
            /\ g = [pre  |-> Span(begin, a - VecIndex + Len(sig)),
                    vec  |-> Span(a, b),
                    post |-> Span(b - VecIndex, end)]
      BY <1>3 DEF VectorSegments
    <2>2. RequiredAfter \in Nat /\ RequiredAfter >= Len(sig)
      BY <1>1, <1>3, TypeFacts DEF RequiredAfter, VecCmp, VectorSegments
    <2>3. /\ a - VecIndex + Len(sig) \in 0 .. MemSize
          /\ a \in 0 .. MemSize /\ b \in 0 .. MemSize
          /\ b - VecIndex \in 0 .. MemSize
          /\ begin \in 0 .. MemSize /\ end \in 0 .. MemSize
      BY <1>1, <2>1, <2>2
    <2>4. g \in [pre : SpanType, vec : SpanType, post : SpanType]
      BY <2>1, <2>3 DEF Span, SpanType
    <2>5. /\ g.pre = Span(begin, a - VecIndex + Len(sig))
          /\ a - VecIndex + Len(sig) \in Int
          /\ (a - VecIndex + Len(sig)) - begin >= Len(sig)
          /\ a - VecIndex + Len(sig) <= end
      BY <1>1, <2>1, <2>2
    <2> QED  BY <2>4, <2>5
  <1> QED  BY <1>2, <1>3

LEMMA CreateInv == Inv /\ Create => Inv'
  <1> SUFFICES ASSUME Inv, Create PROVE Inv'  OBVIOUS
  <1>1. /\ pc = "create" /\ pc' = "scan"
        /\ UNCHANGED <<query, segs, pos, lanes, read, result>>
        /\ cmpIndex' = FirstAll(sig)
        /\ isa' = Resolve(ext)
        /\ pairIndex' = IF isa' = "single" THEN None ELSE ApplyHints(sig, hints)
    BY DEF Create
  <1>2. sig \in Signatures /\ sig' = sig  BY <1>1 DEF Inv, TypeOK, query
  <1>3. cmpIndex' \in 0 .. Len(sig) - 1 /\ All(sig[cmpIndex' + 1])
    BY <1>1, <1>2, FirstAllFacts
  <1>4. pairIndex' \in Pairs(sig) \cup {None}
    BY <1>1, <1>2, ApplyHintsFacts
  <1>5. isa' \in VectorIsa \cup {"single"}
    BY <1>1 DEF Resolve, VectorIsa
  <1>6. TypeOK'
    BY <1>1, <1>2, <1>3, <1>4, <1>5 DEF Inv, TypeOK, query, Phases
  <1>7. ContextOK'  BY <1>1, <1>2, <1>3 DEF ContextOK
  <1>8. ReadsInBounds'  BY <1>1 DEF Inv, ReadsInBounds, query
  <1> QED
    BY <1>1, <1>6, <1>7, <1>8
    DEF Inv, SegmentsOK, PointerOK, RuledOut, ReturnsFirstMatch

LEMMA TooShortInv == Inv /\ TooShort => Inv'
  <1> SUFFICES ASSUME Inv, TooShort PROVE Inv'  OBVIOUS
  <1>1. /\ pc = "scan" /\ pc' = "done" /\ result' = None
        /\ Len(sig) > end - begin
        /\ UNCHANGED <<query, context, segs, read, pos, lanes>>
    BY DEF TooShort, Return
  <1>2. TypeOK'
    BY <1>1 DEF Inv, TypeOK, query, context, Phases
  <1>3. Matches(mem, begin, end, sig, stride) = {}
    <2>1. /\ Len(sig) \in Nat /\ begin \in Nat /\ end \in Nat
      BY TypeFacts DEF Inv
    <2>2. Starts(begin, end, sig, stride) = {}  BY <1>1, <2>1 DEF Starts
    <2> QED  BY <2>2 DEF Matches
  <1>4. ReturnsFirstMatch'
    BY <1>1, <1>3 DEF ReturnsFirstMatch, IsFirstMatch, query
  <1>5. ContextOK' /\ ReadsInBounds'
    BY <1>1 DEF Inv, ContextOK, ReadsInBounds, query, context
  <1> QED
    BY <1>1, <1>2, <1>4, <1>5 DEF Inv, SegmentsOK, PointerOK, RuledOut

LEMMA DispatchInv == Inv /\ Dispatch => Inv'
  <1> SUFFICES ASSUME Inv, Dispatch PROVE Inv'  OBVIOUS
  <1>1. /\ pc = "scan" /\ pc' = "pre"
        /\ Len(sig) <= end - begin
        /\ segs' = IF isa = "single" THEN WholeScan ELSE SegmentScan
        /\ pos' = ScanBegin(segs'.pre)
        /\ UNCHANGED <<query, context, lanes, read, result>>
    BY DEF Dispatch
  <1>2. TypeOK /\ ContextOK  BY DEF Inv
  <1>3. segs' = WholeScan \/ VectorSegments(segs')
    <2>1. isa \in VectorIsa \cup {"single"}  BY <1>2 DEF TypeOK
    <2> QED  BY <1>1, <1>2, <2>1, SegmentScanFacts
  <1>4. PICK hi \in Int : /\ segs'.pre = Span(begin, hi)
                          /\ hi - begin >= Len(sig)
                          /\ hi <= end
    BY <1>1, <1>2, <1>3, SegmentTypes
  <1>5. segs' \in [pre : SpanType, vec : SpanType, post : SpanType]
    BY <1>1, <1>2, <1>3, SegmentTypes
  <1>6. begin \in Int /\ begin \in Nat /\ cmpIndex \in Nat /\ Len(sig) \in Nat
        /\ end \in Nat
    BY <1>2, TypeFacts
  <1>7. /\ pos' \in Int /\ begin + cmpIndex <= pos'
        /\ pos' <= ScanEnd(segs'.pre)
        /\ (pos' - cmpIndex) % stride = 0
    BY <1>1, <1>2, <1>4, <1>6, LoopFacts
  <1>8. NoneBelow(pos' - cmpIndex)
    <2>1. NoneBelow(begin)  BY <1>6 DEF NoneBelow, Starts
    <2> QED  BY <1>1, <1>2, <1>4, <1>6, <2>1, LoopEntry
  <1>9. TypeOK'
    <2>1. pos' \in Nat  BY <1>6, <1>7
    <2> QED  BY <1>1, <1>2, <1>5, <2>1 DEF TypeOK, query, context, Phases
  <1>10. ContextOK'  BY <1>1, <1>2 DEF ContextOK, query, context
  <1>11. SegmentsOK'
    BY <1>1, <1>3 DEF SegmentsOK, query, context, WholeScan, VectorSegments,
                      VecIndex, CmpEq2, RequiredAfter, VecCmp
  <1>12. PointerOK'
    BY <1>1, <1>7 DEF PointerOK, SingleOK, ScanBegin, ScanEnd, query, context
  <1>13. RuledOut'
    BY <1>1, <1>8 DEF RuledOut, NoneBelow, query, context
  <1>14. ReadsInBounds'  BY <1>1 DEF Inv, ReadsInBounds, query
  <1> QED
    BY <1>1, <1>9, <1>10, <1>11, <1>12, <1>13, <1>14 DEF Inv, ReturnsFirstMatch

LEMMA PreDoneInv == Inv /\ PreDone => Inv'
  <1> SUFFICES ASSUME Inv, PreDone PROVE Inv'  OBVIOUS
  <1>1. /\ pc = "pre" /\ pc' = "vec" /\ pos' = segs.vec.lo
        /\ Exhausted(segs.pre)
        /\ UNCHANGED <<query, context, segs, lanes, read, result>>
    BY DEF PreDone
  <1>2. TypeOK /\ SegmentsOK /\ SingleOK(segs.pre) /\ NoneBelow(pos - cmpIndex)
    BY <1>1 DEF Inv, PointerOK, RuledOut
  <1>3. /\ begin \in Nat /\ end \in Nat /\ Len(sig) \in Nat /\ VecIndex \in Nat
    BY <1>2, TypeFacts
  <1>4. PICK lo, hi \in Int : segs.pre = Span(lo, hi) /\ hi - lo >= Len(sig)
    BY <1>1, <1>2, SegmentFacts
  <1>5. segs.pre # EmptySpan  BY <1>1, <1>2, SegmentFacts
  <1>6. NoneBelow(hi - Len(sig) + 1)
    BY <1>1, <1>2, <1>4, <1>5, LoopExit
  <1>7. pos' \in Nat /\ lanes' \in SUBSET Nat /\ read' \in [lo : Nat, hi : Nat]
        /\ result' \in Address \cup {None}
    BY <1>1, <1>2 DEF TypeOK, SpanType
  <1>8. TypeOK' /\ ContextOK' /\ SegmentsOK'
    BY <1>1, <1>7, KeepSegments DEF Scanning
  <1>9. ReadsInBounds' /\ ReturnsFirstMatch'
    BY <1>1 DEF Inv, ReadsInBounds, ReturnsFirstMatch, query
  <1>10. CASE segs.vec = EmptySpan
    <2>1. segs = WholeScan  BY <1>1, <1>2, <1>10, SegmentFacts
    <2>2. hi = end  BY <1>4, <2>1 DEF WholeScan, Span
    <2>3. NoneBelow(end)  BY <1>2, <1>6, <2>2, NoneBelowEnd
    <2>4. pos' = 0  BY <1>1, <1>10 DEF EmptySpan, Span
    <2>5. PointerOK' /\ RuledOut'
      BY <1>1, <1>10, <2>3, <2>4 DEF PointerOK, RuledOut, NoneBelow, query, context
    <2> QED  BY <1>8, <1>9, <2>5 DEF Inv
  <1>11. CASE segs.vec # EmptySpan
    <2>1. VectorSegments(segs)  BY <1>1, <1>2, <1>11, SegmentFacts
    <2>2. hi = pos' - VecIndex + Len(sig)
      <3>1. segs.pre = Span(begin, segs.vec.lo - VecIndex + Len(sig))
        BY <2>1 DEF VectorSegments
      <3> QED  BY <1>1, <1>4, <3>1 DEF Span
    <2>3. NoneBelow(pos' - VecIndex)
      <3>1. hi - Len(sig) + 1 = (pos' - VecIndex) + 1  BY <1>3, <1>7, <2>2
      <3>2. NoneBelow((pos' - VecIndex) + 1)  BY <1>6, <3>1
      <3>3. PICK y \in Nat : y = pos'  BY <1>7
      <3>4. PICK x \in Int : x = y - VecIndex  BY <1>3
      <3>5. NoneBelow(x + 1)  BY <3>2, <3>3, <3>4
      <3>6. NoneBelow(x)  BY <1>3, <3>5 DEF NoneBelow, Starts
      <3> QED  BY <3>3, <3>4, <3>6
    <2>4. pos' % Width[isa] = 0 /\ segs.vec.lo <= pos' /\ pos' <= segs.vec.hi
      BY <1>1, <2>1 DEF VectorSegments
    <2>5. PointerOK'
      BY <1>1, <1>11, <2>4 DEF PointerOK, VectorOK, query, context
    <2>6. RuledOut'
      BY <1>1, <1>11, <2>3
      DEF RuledOut, NoneBelow, VecIndex, CmpEq2, query, context
    <2> QED  BY <1>8, <1>9, <2>5, <2>6 DEF Inv
  <1> QED  BY <1>10, <1>11

LEMMA VecDoneInv == Inv /\ VecDone => Inv'
  <1> SUFFICES ASSUME Inv, VecDone PROVE Inv'  OBVIOUS
  <1>1. /\ pc = "vec" /\ pc' = "post" /\ pos = segs.vec.hi
        /\ pos' = ScanBegin(segs.post)
        /\ UNCHANGED <<query, context, segs, lanes, read, result>>
    BY DEF VecDone
  <1>2. /\ TypeOK /\ SegmentsOK
        /\ NoneBelow(IF segs.vec = EmptySpan THEN end ELSE pos - VecIndex)
    BY <1>1 DEF Inv, RuledOut
  <1>3. /\ begin \in Nat /\ end \in Nat /\ Len(sig) \in Nat /\ VecIndex \in Nat
        /\ cmpIndex \in Nat /\ stride \in Nat \ {0}
    BY <1>2, TypeFacts
  <1>4. lanes' \in SUBSET Nat /\ read' \in [lo : Nat, hi : Nat]
        /\ result' \in Address \cup {None}
    BY <1>1, <1>2 DEF TypeOK
  <1>5. ReadsInBounds' /\ ReturnsFirstMatch'
    BY <1>1 DEF Inv, ReadsInBounds, ReturnsFirstMatch, query
  <1>6. CASE segs.vec = EmptySpan
    <2>1. segs.post = EmptySpan  BY <1>1, <1>2, <1>6, SegmentFacts
    <2>2. pos' \in Nat
      <3>1. pos' = AlignUp(0, stride) + cmpIndex
        BY <1>1, <2>1 DEF ScanBegin, EmptySpan, Span
      <3>2. AlignUp(0, stride) \in Int /\ 0 <= AlignUp(0, stride)
        BY <1>3, AlignUpFacts
      <3> QED  BY <1>3, <3>1, <3>2
    <2>3. TypeOK' /\ ContextOK' /\ SegmentsOK'
      BY <1>1, <1>4, <2>2, KeepSegments DEF Scanning
    <2>4. PointerOK'  BY <1>1, <2>1 DEF PointerOK
    <2>5. RuledOut'
      BY <1>1, <1>2, <1>6, <2>1 DEF RuledOut, NoneBelow, query, context
    <2> QED  BY <1>5, <2>3, <2>4, <2>5 DEF Inv
  <1>7. CASE segs.vec # EmptySpan
    <2>1. VectorSegments(segs) /\ segs.post # EmptySpan
      BY <1>1, <1>2, <1>7, SegmentFacts
    <2>2. PICK lo, hi \in Int : /\ segs.post = Span(lo, hi)
                               /\ hi - lo >= Len(sig)
                               /\ begin <= lo /\ hi <= end
      BY <1>1, <1>2, <2>1, SegmentFacts
    <2>3. lo = pos - VecIndex
      <3>1. segs.post = Span(segs.vec.hi - VecIndex, end)
        BY <2>1 DEF VectorSegments
      <3> QED  BY <1>1, <2>2, <3>1 DEF Span
    <2>4. NoneBelow(lo)  BY <1>2, <1>7, <2>3
    <2>5. NoneBelow(pos' - cmpIndex)  BY <1>1, <1>2, <2>2, <2>4, LoopEntry
    <2>6. /\ pos' \in Int /\ lo + cmpIndex <= pos'
          /\ pos' <= ScanEnd(segs.post)
          /\ (pos' - cmpIndex) % stride = 0
      BY <1>1, <1>2, <2>2, LoopFacts
    <2>7. pos' \in Nat  BY <1>3, <2>2, <2>6
    <2>8. TypeOK' /\ ContextOK' /\ SegmentsOK'
      BY <1>1, <1>4, <2>7, KeepSegments DEF Scanning
    <2>9. PointerOK'
      BY <1>1, <2>6 DEF PointerOK, SingleOK, ScanBegin, ScanEnd, query, context
    <2>10. RuledOut'
      BY <1>1, <2>1, <2>5 DEF RuledOut, NoneBelow, query, context
    <2> QED  BY <1>5, <2>8, <2>9, <2>10 DEF Inv
  <1> QED  BY <1>6, <1>7

LEMMA PostDoneInv == Inv /\ PostDone => Inv'
  <1> SUFFICES ASSUME Inv, PostDone PROVE Inv'  OBVIOUS
  <1>1. /\ pc = "post" /\ pc' = "done" /\ result' = None
        /\ Exhausted(segs.post)
        /\ UNCHANGED <<query, context, segs, read, pos, lanes>>
    BY DEF PostDone, Return
  <1>2. TypeOK /\ SegmentsOK  BY DEF Inv
  <1>3. NoneBelow(end)
    <2>1. CASE segs.post = EmptySpan
      BY <1>1, <2>1 DEF Inv, RuledOut
    <2>2. CASE segs.post # EmptySpan
      <3>1. SingleOK(segs.post) /\ NoneBelow(pos - cmpIndex)
        BY <1>1, <2>2 DEF Inv, PointerOK, RuledOut
      <3>2. PICK lo, hi \in Int : segs.post = Span(lo, hi) /\ hi - lo >= Len(sig)
        BY <1>1, <1>2, <2>2, SegmentFacts
      <3>3. NoneBelow(hi - Len(sig) + 1)
        BY <1>1, <1>2, <2>2, <3>1, <3>2, LoopExit
      <3>4. VectorSegments(segs)  BY <1>1, <1>2, <2>2, SegmentFacts
      <3>5. segs.post = Span(segs.vec.hi - VecIndex, end)
        BY <3>4 DEF VectorSegments
      <3>6. hi = end  BY <3>2, <3>5 DEF Span
      <3> QED  BY <1>2, <3>3, <3>6, NoneBelowEnd
    <2> QED  BY <2>1, <2>2
  <1>4. IsFirstMatch(result', mem, begin, end, sig, stride)
    BY <1>1, <1>2, <1>3, NoMatchLeft
  <1>5. /\ read' \in [lo : Nat, hi : Nat] /\ result' \in Address \cup {None}
        /\ begin <= read'.lo /\ read'.lo <= read'.hi /\ read'.hi <= end
    BY <1>1, <1>2 DEF TypeOK, Inv, ReadsInBounds
  <1> QED  BY <1>1, <1>4, <1>5, ReturnInv DEF Scanning

\* A vector at hand lies between the bounds of its segment, which leave room
\* for a comparison behind it.
LEMMA VectorFacts ==
  ASSUME TypeOK, SegmentsOK, PointerOK, pc \in {"vec", "lanes"}, pos # segs.vec.hi
  PROVE  /\ segs.vec # EmptySpan /\ VectorOK
         /\ isa \in VectorIsa /\ Width[isa] \in Nat \ {0}
         /\ segs.vec.hi \in Nat
         /\ begin + VecIndex <= pos
         /\ pos + Width[isa] <= segs.vec.hi
         /\ segs.vec.hi + RequiredAfter <= end
         /\ RequiredAfter \in Nat /\ RequiredAfter >= Len(sig)
         /\ (pos + Width[isa]) % Width[isa] = 0
  <1>1. segs.vec # EmptySpan
    <2>1. pc = "vec" /\ segs.vec = EmptySpan => pos = segs.vec.hi
      BY DEF PointerOK, EmptySpan, Span
    <2> QED  BY <2>1 DEF PointerOK
  <1>2. VectorOK  BY <1>1 DEF PointerOK
  <1>3. VectorSegments(segs)  BY <1>1, SegmentFacts
  <1>4. /\ isa \in VectorIsa
        /\ segs.vec.lo \in Nat /\ segs.vec.hi \in Nat
        /\ begin + VecIndex <= segs.vec.lo
        /\ segs.vec.hi % Width[isa] = 0
        /\ segs.vec.hi + RequiredAfter <= end
    BY <1>3 DEF VectorSegments
  <1>5. /\ Width[isa] \in Nat \ {0} /\ pos \in Nat /\ Len(sig) \in Nat
        /\ begin \in Nat /\ VecIndex \in Nat
    BY <1>4, TypeFacts DEF TypeOK
  <1>6. RequiredAfter \in Nat /\ RequiredAfter >= Len(sig)
    BY <1>5 DEF RequiredAfter, VecCmp
  <1>7. /\ segs.vec.lo <= pos /\ pos <= segs.vec.hi /\ pos % Width[isa] = 0
    BY <1>2 DEF VectorOK
  <1>8. pos < segs.vec.hi  BY <1>4, <1>5, <1>7
  <1>9. pos + Width[isa] <= segs.vec.hi
    BY <1>4, <1>5, <1>7, <1>8, MultiplesApart
  <1>10. (pos + Width[isa]) % Width[isa] = 0
    <2>1. PICK W \in Nat \ {0} : W = Width[isa]  BY <1>5
    <2>2. W % W = 0
      <3>1. (W * 1) % W = 0  BY MultipleMod
      <3> QED  BY <3>1
    <2>3. pos \in Int /\ pos % W = 0 /\ W \in Int  BY <1>5, <1>7, <2>1
    <2> QED  BY <2>1, <2>2, <2>3, SumOfMultiples
  <1> QED  BY <1>1, <1>2, <1>4, <1>5, <1>6, <1>7, <1>9, <1>10

\* When every lane below o has been ruled out, so has every start below o's.
LEMMA LanesBelow ==
  ASSUME TypeOK, RuledOut, pc = "lanes", segs.vec # EmptySpan, isa \in VectorIsa,
         NEW o \in 0 .. Width[isa], \A j \in lanes : j >= o
  PROVE  NoneBelow(pos + o - VecIndex)
  <1>1. /\ pos \in Nat /\ VecIndex \in Nat /\ Width[isa] \in Nat \ {0}
        /\ begin \in Nat /\ end \in Nat /\ Len(sig) \in Nat
    BY TypeFacts DEF TypeOK
  <1>2. NoneBelow(pos - VecIndex)  BY DEF RuledOut
  <1>3. ASSUME NEW p \in Starts(begin, end, sig, stride), p < pos + o - VecIndex
        PROVE  ~ MatchesAt(mem, sig, p)
    <2>1. p \in Int  BY <1>1 DEF Starts
    <2>2. CASE p < pos - VecIndex  BY <1>2, <2>2 DEF NoneBelow
    <2>3. CASE ~ (p < pos - VecIndex)
      <3>1. PICK j \in 0 .. Width[isa] - 1 : j < o /\ pos + j - VecIndex = p
        <4>1. p + VecIndex - pos \in 0 .. Width[isa] - 1
          BY <1>1, <1>3, <2>1, <2>3
        <4>2. p + VecIndex - pos < o  BY <1>1, <1>3, <2>1
        <4>3. pos + (p + VecIndex - pos) - VecIndex = p  BY <1>1, <2>1
        <4> QED  BY <4>1, <4>2, <4>3
      <3>2. j \notin lanes  BY <1>1, <3>1
      <3> QED  BY <3>1, <3>2 DEF RuledOut
    <2> QED  BY <2>2, <2>3
  <1> QED  BY <1>3 DEF NoneBelow

LEMMA LoadVectorInv == Inv /\ LoadVector => Inv'
  <1> SUFFICES ASSUME Inv, LoadVector PROVE Inv'  OBVIOUS
  <1>1. /\ pc = "vec" /\ pc' = "lanes" /\ pos # segs.vec.hi
        /\ lanes' = Candidates
        /\ read' = Span(pos, pos + Width[isa] + (IF CmpEq2 /\ isa = "neon" THEN 1 ELSE 0))
        /\ UNCHANGED <<query, context, segs, pos, result>>
    BY DEF LoadVector
  <1>2. TypeOK /\ ContextOK /\ SegmentsOK /\ PointerOK /\ RuledOut  BY DEF Inv
  <1>3. /\ Len(sig) \in Nat /\ Len(sig) >= 1 /\ begin \in Nat /\ end \in Nat
        /\ VecIndex \in Nat /\ pos \in Nat
    BY <1>2, TypeFacts DEF TypeOK
  <1>4. /\ segs.vec # EmptySpan /\ VectorOK
        /\ isa \in VectorIsa /\ Width[isa] \in Nat \ {0}
        /\ segs.vec.hi \in Nat
        /\ begin + VecIndex <= pos
        /\ pos + Width[isa] <= segs.vec.hi
        /\ segs.vec.hi + RequiredAfter <= end
        /\ RequiredAfter \in Nat /\ RequiredAfter >= Len(sig)
    BY <1>1, <1>2, VectorFacts
  <1>5. pos % Width[isa] = 0  BY <1>4 DEF VectorOK
  <1>6. /\ read' \in [lo : Nat, hi : Nat]
        /\ begin <= read'.lo /\ read'.lo <= read'.hi /\ read'.hi <= end
    <2>1. PICK h \in Nat : /\ read' = Span(pos, h)
                          /\ pos <= h /\ h <= pos + Width[isa] + 1
      BY <1>1, <1>3, <1>4, SMTT(60)
    <2>2. read' = [lo |-> pos, hi |-> h]  BY <2>1 DEF Span
    <2>3. begin <= pos /\ h <= end  BY <1>3, <1>4, <2>1
    <2> QED  BY <1>3, <2>1, <2>2, <2>3
  <1>7. Candidates \subseteq 0 .. Width[isa] - 1  BY DEF Candidates
  <1>8. TypeOK' /\ ContextOK' /\ SegmentsOK'
    <2>1. lanes' \in SUBSET Nat  BY <1>1, <1>4, <1>7
    <2> QED  BY <1>1, <1>2, <1>6, <2>1, KeepSegments DEF Scanning, TypeOK
  <1>9. \A o \in Candidates : (pos + o - VecIndex) % stride = 0
    BY <1>1, <1>2, <1>4, <1>5, <1>7, CandidateFacts
  <1>10. \A o \in (0 .. Width[isa] - 1) \ Candidates :
           pos + o - VecIndex \in Starts(begin, end, sig, stride) =>
             ~ MatchesAt(mem, sig, pos + o - VecIndex)
    BY <1>1, <1>2, <1>4, <1>5, CandidateFacts
  <1>11. PointerOK'
    BY <1>1, <1>4, <1>7, <1>9
    DEF PointerOK, VectorOK, VecIndex, CmpEq2, query, context
  <1>12. RuledOut'
    <2>1. NoneBelow(pos - VecIndex)  BY <1>1, <1>2, <1>4 DEF RuledOut
    <2> QED
      BY <1>1, <1>4, <1>10, <2>1
      DEF RuledOut, NoneBelow, VecIndex, CmpEq2, query, context
  <1>13. ReadsInBounds' /\ ReturnsFirstMatch'
    BY <1>1, <1>6 DEF ReadsInBounds, ReturnsFirstMatch, query
  <1> QED  BY <1>8, <1>11, <1>12, <1>13 DEF Inv

LEMMA TestLaneInv == Inv /\ TestLane => Inv'
  <1> SUFFICES ASSUME Inv, TestLane PROVE Inv'  OBVIOUS
  <1>1. /\ pc = "lanes" /\ lanes # {}
        /\ UNCHANGED <<query, context, segs>>
    BY DEF TestLane
  <1>2. TypeOK /\ ContextOK /\ SegmentsOK /\ PointerOK /\ RuledOut  BY DEF Inv
  <1>3. /\ Len(sig) \in Nat /\ Len(sig) >= 1 /\ begin \in Nat /\ end \in Nat
        /\ VecIndex \in Nat /\ pos \in Nat
    BY <1>2, TypeFacts DEF TypeOK
  <1>4. /\ pos # segs.vec.hi /\ lanes \subseteq 0 .. Width[isa] - 1
        /\ \A j \in lanes : (pos + j - VecIndex) % stride = 0
    BY <1>1, <1>2 DEF PointerOK
  <1>5. /\ segs.vec # EmptySpan
        /\ isa \in VectorIsa /\ Width[isa] \in Nat \ {0}
        /\ segs.vec.hi \in Nat
        /\ begin + VecIndex <= pos
        /\ pos + Width[isa] <= segs.vec.hi
        /\ segs.vec.hi + RequiredAfter <= end
        /\ RequiredAfter \in Nat /\ RequiredAfter >= Len(sig)
    BY <1>1, <1>2, <1>4, VectorFacts
  <1>6. PICK o \in 0 .. Width[isa] - 1 : /\ o = Min(lanes) /\ o \in lanes
                                         /\ \A j \in lanes : o <= j
    <2>1. lanes \in SUBSET Nat  BY <1>4, <1>5
    <2> QED  BY <1>1, <1>4, <2>1, MinFacts
  <1>7. PICK start \in Int : start = pos + o - VecIndex  BY <1>3, <1>5
  <1>8. begin <= start /\ start + RequiredAfter <= end /\ start + Len(sig) <= end
    BY <1>3, <1>5, <1>7
  <1>9. start % stride = 0  BY <1>4, <1>6, <1>7
  <1>10. NoneBelow(start)
    <2>1. o \in 0 .. Width[isa] /\ \A j \in lanes : j >= o
      <3>1. \A j \in lanes : j \in Int  BY <1>4, <1>5
      <3> QED  BY <1>5, <1>6, <3>1
    <2> QED  BY <1>1, <1>2, <1>5, <1>7, <2>1, LanesBelow
  <1>11. read' = Span(start, start + RequiredAfter)
    BY <1>6, <1>7 DEF TestLane, RequiredAfter
  <1>12. /\ read' \in [lo : Nat, hi : Nat]
         /\ begin <= read'.lo /\ read'.lo <= read'.hi /\ read'.hi <= end
    BY <1>3, <1>5, <1>8, <1>11 DEF Span
  <1>13. CASE MatchesAt(mem, sig, start)
    <2>1. result' = start /\ pc' = "done" /\ UNCHANGED <<pos, lanes>>
      BY <1>6, <1>7, <1>13 DEF TestLane, Return
    <2>2. start \in Address /\ IsFirstMatch(start, mem, begin, end, sig, stride)
      BY <1>2, <1>8, <1>9, <1>10, <1>13, MatchFound
    <2> QED  BY <1>1, <1>12, <2>1, <2>2, ReturnInv DEF Scanning
  <1>14. CASE ~ MatchesAt(mem, sig, start)
    <2>1. lanes' = lanes \ {o} /\ UNCHANGED <<pc, pos, result>>
      BY <1>6, <1>7, <1>14 DEF TestLane
    <2>2. TypeOK' /\ ContextOK' /\ SegmentsOK'
      BY <1>1, <1>2, <1>12, <2>1, KeepSegments DEF Scanning, TypeOK
    <2>3. PointerOK'
      BY <1>1, <1>2, <2>1
      DEF PointerOK, VectorOK, VecIndex, CmpEq2, query, context
    <2>4. \A j \in (0 .. Width[isa] - 1) \ lanes' :
            pos + j - VecIndex \in Starts(begin, end, sig, stride) =>
              ~ MatchesAt(mem, sig, pos + j - VecIndex)
      <3>1. \A j \in (0 .. Width[isa] - 1) \ lanes :
              pos + j - VecIndex \in Starts(begin, end, sig, stride) =>
                ~ MatchesAt(mem, sig, pos + j - VecIndex)
        BY <1>1, <1>2 DEF RuledOut
      <3> QED  BY <1>7, <1>14, <2>1, <3>1
    <2>5. RuledOut'
      <3>1. NoneBelow(pos - VecIndex)  BY <1>1, <1>2, <1>5 DEF RuledOut
      <3> QED
        BY <1>1, <1>5, <2>1, <2>4, <3>1
        DEF RuledOut, NoneBelow, VecIndex, CmpEq2, query, context
    <2>6. ReadsInBounds' /\ ReturnsFirstMatch'
      BY <1>1, <1>12, <2>1 DEF ReadsInBounds, ReturnsFirstMatch, query
    <2> QED  BY <2>2, <2>3, <2>5, <2>6 DEF Inv
  <1> QED  BY <1>13, <1>14

LEMMA NextVectorInv == Inv /\ NextVector => Inv'
  <1> SUFFICES ASSUME Inv, NextVector PROVE Inv'  OBVIOUS
  <1>1. /\ pc = "lanes" /\ pc' = "vec" /\ lanes = {} /\ pos' = pos + Width[isa]
        /\ UNCHANGED <<query, context, segs, lanes, read, result>>
    BY DEF NextVector
  <1>2. TypeOK /\ SegmentsOK /\ PointerOK /\ RuledOut  BY DEF Inv
  <1>3. pos # segs.vec.hi  BY <1>1, <1>2 DEF PointerOK
  <1>4. /\ segs.vec # EmptySpan /\ VectorOK
        /\ isa \in VectorIsa /\ Width[isa] \in Nat \ {0}
        /\ pos + Width[isa] <= segs.vec.hi
        /\ (pos + Width[isa]) % Width[isa] = 0
    BY <1>1, <1>2, <1>3, VectorFacts
  <1>5. pos \in Nat /\ segs.vec.lo \in Nat
    BY <1>2 DEF TypeOK, SpanType
  <1>6. pos' \in Nat  BY <1>1, <1>4, <1>5
  <1>7. TypeOK' /\ ContextOK' /\ SegmentsOK'
    BY <1>1, <1>2, <1>6, KeepSegments DEF Scanning, TypeOK
  <1>8. segs.vec.lo <= pos'  BY <1>1, <1>4, <1>5 DEF VectorOK
  <1>9. PointerOK'
    BY <1>1, <1>4, <1>8
    DEF PointerOK, VectorOK, VecIndex, CmpEq2, query, context
  <1>10. NoneBelow(pos' - VecIndex)
    <2>1. PICK w \in Nat : w = Width[isa]  BY <1>4
    <2>2. PICK x \in Nat : x = pos /\ pos' = x + w  BY <1>1, <1>5, <2>1
    <2>3. w \in 0 .. Width[isa] /\ \A j \in lanes : j >= w  BY <1>1, <2>1
    <2>4. NoneBelow(pos + w - VecIndex)
      BY <1>1, <1>2, <1>4, <2>3, LanesBelow
    <2>5. pos + w - VecIndex = pos' - VecIndex
      <3>1. VecIndex \in Nat  BY <1>2, TypeFacts
      <3> QED  BY <2>2, <3>1
    <2> QED  BY <2>4, <2>5
  <1>11. RuledOut'
    BY <1>1, <1>4, <1>10
    DEF RuledOut, NoneBelow, VecIndex, CmpEq2, query, context
  <1>12. ReadsInBounds' /\ ReturnsFirstMatch'
    BY <1>1 DEF Inv, ReadsInBounds, ReturnsFirstMatch, query
  <1> QED  BY <1>7, <1>9, <1>11, <1>12 DEF Inv

-----------------------------------------------------------------------------
(* The theorems *)

LEMMA NextInv == Inv /\ [Next]_vars => Inv'
  <1> SUFFICES ASSUME Inv, [Next]_vars PROVE Inv'  OBVIOUS
  <1>1. CASE Create  BY <1>1, CreateInv
  <1>2. CASE TooShort  BY <1>2, TooShortInv
  <1>3. CASE Dispatch  BY <1>3, DispatchInv
  <1>4. CASE SingleStep("pre", segs.pre)
    <2>1. "pre" \in {"pre", "post"}  OBVIOUS
    <2> QED  BY <1>4, <2>1, SingleInv
  <1>5. CASE PreDone  BY <1>5, PreDoneInv
  <1>6. CASE LoadVector  BY <1>6, LoadVectorInv
  <1>7. CASE TestLane  BY <1>7, TestLaneInv
  <1>8. CASE NextVector  BY <1>8, NextVectorInv
  <1>9. CASE VecDone  BY <1>9, VecDoneInv
  <1>10. CASE SingleStep("post", segs.post)
    <2>1. "post" \in {"pre", "post"}  OBVIOUS
    <2> QED  BY <1>10, <2>1, SingleInv
  <1>11. CASE PostDone  BY <1>11, PostDoneInv
  <1>12. CASE UNCHANGED vars
    <2>1. UNCHANGED <<query, context, pc, segs, pos, lanes, read, result>>
      BY <1>12 DEF vars
    <2>2. TypeOK' /\ ContextOK'
      BY <2>1 DEF Inv, TypeOK, ContextOK, query, context
    <2>3. SegmentsOK'
      BY <2>1 DEF Inv, SegmentsOK, query, context, WholeScan, VectorSegments,
                  VecIndex, CmpEq2, RequiredAfter, VecCmp
    <2>4. PointerOK'
      BY <2>1 DEF Inv, PointerOK, SingleOK, VectorOK, ScanBegin, ScanEnd,
                  VecIndex, CmpEq2, query, context
    <2>5. RuledOut'
      BY <2>1 DEF Inv, RuledOut, NoneBelow, VecIndex, CmpEq2, query, context
    <2>6. ReadsInBounds' /\ ReturnsFirstMatch'
      BY <2>1 DEF Inv, ReadsInBounds, ReturnsFirstMatch, query
    <2> QED  BY <2>2, <2>3, <2>4, <2>5, <2>6 DEF Inv
  <1> QED
    BY <1>1, <1>2, <1>3, <1>4, <1>5, <1>6, <1>7, <1>8, <1>9, <1>10, <1>11, <1>12
    DEF Next

\* The invariant behind every result below holds in every reachable state, for
\* every memory, signature, range, stride, vector width and set of features.
THEOREM Invariance == Spec => []Inv
  <1> QED  BY InitInv, NextInv, PTL DEF Spec

\* Every variable keeps its type: the segments lie inside the machine.
THEOREM TypeCorrect == Spec => []TypeOK
  <1>1. Inv => TypeOK  BY DEF Inv
  <1> QED  BY <1>1, Invariance, PTL

\* No load, of a byte or of a vector, leaves the range the caller gave.
THEOREM NoOverread == Spec => []ReadsInBounds
  <1>1. Inv => ReadsInBounds  BY DEF Inv
  <1> QED  BY <1>1, Invariance, PTL

\* The aligned load instructions are only given aligned addresses.
THEOREM AlignedLoads == Spec => []LoadsAligned
  <1>1. Inv => LoadsAligned
    BY DEF Inv, PointerOK, VectorOK, LoadsAligned
  <1> QED  BY <1>1, Invariance, PTL

\* The head, the vectors and the tail of segment_scan leave no start out.
THEOREM Coverage == Spec => []SegmentsCover
  <1>1. ASSUME Inv, pc \in {"pre", "vec", "lanes", "post"},
               NEW p \in begin .. end - Len(sig)
        PROVE  \/ p \in segs.pre.lo .. segs.pre.hi - Len(sig)
               \/ p + VecIndex \in segs.vec.lo .. segs.vec.hi - 1
               \/ p \in segs.post.lo .. segs.post.hi - Len(sig)
    <2>1. /\ Len(sig) \in Nat /\ begin \in Nat /\ end \in Nat /\ VecIndex \in Nat
          /\ p \in Int
      BY <1>1, TypeFacts DEF Inv
    <2>2. CASE segs = WholeScan
      BY <2>1, <2>2 DEF WholeScan, Span
    <2>3. CASE VectorSegments(segs)
      <3>1. PICK a \in Nat, b \in Nat :
              segs = [pre  |-> Span(begin, a - VecIndex + Len(sig)),
                      vec  |-> Span(a, b),
                      post |-> Span(b - VecIndex, end)]
        BY <2>3 DEF VectorSegments
      <3>2. /\ segs.pre.lo = begin /\ segs.pre.hi = a - VecIndex + Len(sig)
            /\ segs.vec.lo = a /\ segs.vec.hi = b
            /\ segs.post.lo = b - VecIndex /\ segs.post.hi = end
        BY <3>1 DEF Span
      <3>3. CASE p <= a - VecIndex  BY <2>1, <3>2, <3>3
      <3>4. CASE a - VecIndex < p /\ p < b - VecIndex  BY <2>1, <3>2, <3>4
      <3>5. CASE b - VecIndex <= p  BY <2>1, <3>2, <3>5
      <3> QED  BY <2>1, <3>3, <3>4, <3>5
    <2> QED  BY <1>1, <2>2, <2>3 DEF Inv, SegmentsOK
  <1>2. Inv => SegmentsCover  BY <1>1 DEF SegmentsCover
  <1> QED  BY <1>2, Invariance, PTL

\* What the pointer and the lanes have passed holds no match.
THEOREM NothingSkipped == Spec => []RuledOut
  <1>1. Inv => RuledOut  BY DEF Inv
  <1> QED  BY <1>1, Invariance, PTL

\* find_pattern returns the lowest aligned match, or null when there is none.
THEOREM Correct == Spec => []ReturnsFirstMatch
  <1>1. Inv => ReturnsFirstMatch  BY DEF Inv
  <1> QED  BY <1>1, Invariance, PTL

\* Only the step that returns changes the result, and no step the arguments.
LEMMA StepFrame ==
  ASSUME [Next]_vars
  PROVE  /\ UNCHANGED query
         /\ pc' # "done" => result' = result
         /\ pc = "done" => pc' = "done" /\ result' = result
  <1>1. CASE Create  BY <1>1 DEF Create
  <1>2. CASE TooShort  BY <1>2 DEF TooShort, Return
  <1>3. CASE Dispatch  BY <1>3 DEF Dispatch
  <1>4. ASSUME NEW phase \in {"pre", "post"}, NEW s, SingleStep(phase, s)
        PROVE  pc # "done" /\ UNCHANGED query /\ (pc' # "done" => result' = result)
    BY <1>4 DEF SingleStep, NoHit, Hit, Stride, Return
  <1>5. CASE SingleStep("pre", segs.pre) \/ SingleStep("post", segs.post)
    BY <1>4, <1>5
  <1>6. CASE PreDone  BY <1>6 DEF PreDone
  <1>7. CASE LoadVector  BY <1>7 DEF LoadVector
  <1>8. CASE TestLane  BY <1>8 DEF TestLane, Return
  <1>9. CASE NextVector  BY <1>9 DEF NextVector
  <1>10. CASE VecDone  BY <1>10 DEF VecDone
  <1>11. CASE PostDone  BY <1>11 DEF PostDone, Return
  <1>12. CASE UNCHANGED vars  BY <1>12 DEF vars
  <1> QED
    BY <1>1, <1>2, <1>3, <1>5, <1>6, <1>7, <1>8, <1>9, <1>10, <1>11, <1>12 DEF Next

\* ScanSpec's answers are Scanner's.
LEMMA SameAnswer ==
  /\ Abstract!None = None /\ Abstract!Address = Address
  /\ \A r, m, b, e, s, a :
       IsFirstMatch(r, m, b, e, s, a) => Abstract!IsFirstMatch(r, m, b, e, s, a)
  BY DEF Abstract!None, Abstract!Address, Address, IsFirstMatch, Matches, Starts,
         MatchesAt, Abstract!IsFirstMatch, Abstract!Matches, Abstract!Starts,
         Abstract!MatchesAt

\* Every scanner, whatever the instruction set, implements the one atomic
\* search of ScanSpec: callers need not know which one ran.
THEOREM Refinement == Spec => ImplementsScanSpec
  <1>1. Init => Abstract!Init
    BY SameAnswer DEF Init, Arguments, Abstract!Init, Abstract!Arguments
  <1>2. Inv /\ Inv' /\ [Next]_vars => [Abstract!Next]_(Abstract!vars)
    <2> SUFFICES ASSUME Inv, Inv', [Next]_vars
                 PROVE  [Abstract!Next]_(Abstract!vars)
      OBVIOUS
    <2>1. /\ UNCHANGED query
          /\ pc' # "done" => result' = result
          /\ pc = "done" => pc' = "done" /\ result' = result
      BY StepFrame
    <2>2. UNCHANGED Abstract!query  BY <2>1 DEF query, Abstract!query
    <2>3. CASE pc = "done" \/ pc' # "done"
      BY <2>1, <2>2, <2>3 DEF Abstract!vars
    <2>4. CASE pc # "done" /\ pc' = "done"
      <3>1. result' \in Address \cup {None}  BY DEF Inv, TypeOK
      <3>2. IsFirstMatch(result', mem, begin, end, sig, stride)
        BY <2>1, <2>4 DEF Inv, ReturnsFirstMatch, query
      <3>3. \E r \in Abstract!Address \cup {Abstract!None} :
              /\ Abstract!IsFirstMatch(r, mem, begin, end, sig, stride)
              /\ result' = r
        BY <3>1, <3>2, SameAnswer
      <3>4. Abstract!Find  BY <2>2, <2>4, <3>3 DEF Abstract!Find
      <3> QED  BY <3>4 DEF Abstract!Next
    <2> QED  BY <2>3, <2>4
  <1> QED
    BY <1>1, <1>2, Invariance, PTL DEF Spec, ImplementsScanSpec, Abstract!Spec

-----------------------------------------------------------------------------
(* find_all_pattern.  FoundExactly is an invariant as it stands, because   *)
(* two matches are at least a stride apart: behind a match, the next place *)
(* to look at is no further than the next match.                           *)

\* The matches of the range of the query.
Wanted == Matches(mem, begin, end, sig, stride)

found == earlier \o written

UpTo == IF state = "returned" /\ ~ bounded THEN end ELSE from

-----------------------------------------------------------------------------
(* Matches *)

LEMMA QueryFacts ==
  ASSUME FindAllTypeOK
  PROVE  /\ stride \in Nat \ {0} /\ begin \in Nat /\ end \in Nat /\ begin <= end
         /\ from \in Nat /\ begin <= from /\ from <= end + stride
         /\ Len(sig) \in Nat \ {0} /\ capacity \in Nat
  <1>1. sig \in Seq(Element) /\ sig # << >>  BY FindAllAssumption, SearchAssumption DEF FindAllTypeOK
  <1>2. Len(sig) \in Nat \ {0}  BY <1>1, EmptySeq, LenProperties
  <1> QED  BY <1>2, FindAllAssumption, SearchAssumption, PatternAssumption DEF FindAllTypeOK

\* A match of the rest of the range is a match of the whole that is in the rest.
LEMMA MatchesOfRest ==
  ASSUME FindAllTypeOK, NEW m
  PROVE  /\ m \in Matches(mem, from, end, sig, stride) <=> m \in Wanted /\ m >= from
         /\ m \in Wanted => m \in Nat /\ m < end /\ m % stride = 0
  BY QueryFacts DEF Wanted, Matches, Starts

\* What a search leaves out: there is no match between where it starts and its answer,
\* nor between the answer and a stride behind it.
LEMMA NothingBetween ==
  ASSUME FindAllTypeOK, NEW r \in Address, Scan(r)
  PROVE  /\ r \in Wanted /\ from <= r
         /\ \A m \in Wanted : m < r + stride <=> m < from \/ m = r
  <1>1. r # None  BY PatternAssumption DEF Address, None
  <1>2. /\ r \in Matches(mem, from, end, sig, stride)
        /\ \A m \in Matches(mem, from, end, sig, stride) : r <= m
    BY <1>1 DEF Scan, IsFirstMatch
  <1>3. r \in Wanted /\ r \in Nat /\ from <= r /\ r % stride = 0
    BY <1>2, MatchesOfRest, QueryFacts
  <1>4. ASSUME NEW m \in Wanted PROVE m < r + stride <=> m < from \/ m = r
    <2>1. m \in Nat /\ m % stride = 0 /\ (m >= from => r <= m)  BY <1>2, MatchesOfRest
    <2>2. r < m => r + stride <= m  BY <1>3, <2>1, MultiplesApart, QueryFacts
    <2> QED  BY <1>3, <2>1, <2>2, QueryFacts
  <1> QED  BY <1>3, <1>4

LEMMA NothingLeft ==
  ASSUME FindAllTypeOK, Scan(None), NEW m \in Wanted
  PROVE  m < from
  <1>1. Matches(mem, from, end, sig, stride) = {}  BY DEF Scan, IsFirstMatch
  <1> QED  BY <1>1, MatchesOfRest, QueryFacts

-----------------------------------------------------------------------------
(* What has been written *)

LEMMA FoundTyped ==
  ASSUME FindAllTypeOK
  PROVE  /\ found \in Seq(Address) /\ Len(found) \in Nat /\ DOMAIN found = 1 .. Len(found)
         /\ \A k \in DOMAIN found : found[k] \in Address
  <1>1. found \in Seq(Address)  BY ConcatProperties DEF FindAllTypeOK, found
  <1> QED  BY <1>1, LenProperties, ElementOfSeq

\* One more at the end.
LEMMA FoundAppended ==
  ASSUME FindAllTypeOK, NEW r \in Address, written' = Append(written, r), earlier' = earlier
  PROVE  /\ found' \in Seq(Address)
         /\ Len(found') = Len(found) + 1
         /\ DOMAIN found' = 1 .. Len(found) + 1
         /\ \A k \in DOMAIN found : found'[k] = found[k]
         /\ found'[Len(found) + 1] = r
  <1>1. PICK o, e : o = written /\ e = earlier /\ o \in Seq(Address) /\ e \in Seq(Address)
    BY DEF FindAllTypeOK
  <1>2. << r >> \in Seq(Address)  OBVIOUS
  <1>3. Append(o, r) = o \o << r >>  BY <1>1, AppendIsConcat
  <1>4. e \o (o \o << r >>) = (e \o o) \o << r >>  BY <1>1, <1>2, ConcatAssociative
  <1>5. e \o o \in Seq(Address)  BY <1>1, ConcatProperties
  <1>6. (e \o o) \o << r >> = Append(e \o o, r)  BY <1>5, AppendIsConcat
  <1>7. PICK a, b : a = found /\ b = found'  OBVIOUS
  <1>8. a \in Seq(Address) /\ b = Append(a, r)
    BY <1>1, <1>3, <1>4, <1>5, <1>6, <1>7 DEF found
  <1>9. /\ b \in Seq(Address) /\ Len(b) = Len(a) + 1
        /\ \A k \in 1 .. Len(a) : b[k] = a[k]
        /\ b[Len(a) + 1] = r
    BY <1>8, AppendProperties
  <1>10. DOMAIN a = 1 .. Len(a) /\ DOMAIN b = 1 .. Len(b)  BY <1>8, <1>9, LenProperties
  <1> QED  BY <1>7, <1>9, <1>10

-----------------------------------------------------------------------------
(* The invariant *)

LEMMA FindAllTypeStep ==
  ASSUME FindAllTypeOK, FindAllNext
  PROVE  FindAllTypeOK'
  <1>1. UNCHANGED given  BY DEF FindAllNext, Write, NoResult, LoopEnd, Resume
  <1>2. CASE Write
    <2>1. PICK r \in Address : Scan(r) /\ written' = Append(written, r) /\ from' = r + stride
      BY <1>2 DEF Write, After
    <2>2. r \in Nat /\ from <= r /\ r < end  BY <2>1, NothingBetween, MatchesOfRest
    <2>3. PICK k : k = from' /\ k \in begin .. end + stride
      BY <2>1, <2>2, QueryFacts
    <2>4. written' \in Seq(Address) /\ Len(written') = Len(written) + 1 /\ Len(written) \in Nat
      BY <2>1, AppendProperties, LenProperties DEF FindAllTypeOK
    <2>5. (bounded => Len(written) <= capacity)' 
      BY <1>1, <1>2, <2>4, QueryFacts DEF given, Write, Full, FindAllTypeOK
    <2> QED  BY <1>1, <1>2, <2>3, <2>4, <2>5 DEF FindAllTypeOK, given, Write
  <1>3. CASE NoResult
    <2>1. from' \in begin .. end + stride  BY <1>3, QueryFacts DEF NoResult
    <2> QED  BY <1>1, <1>3, <2>1 DEF FindAllTypeOK, given, NoResult
  <1>4. CASE LoopEnd  BY <1>1, <1>4 DEF FindAllTypeOK, given, LoopEnd
  <1>5. CASE Resume
    <2>1. earlier' \in Seq(Address)  BY <1>5, ConcatProperties DEF FindAllTypeOK, Resume
    <2>2. written' \in Seq(Address) /\ Len(written') = 0  BY <1>5, EmptySeq DEF Resume
    <2> QED  BY <1>1, <1>5, <2>1, <2>2, QueryFacts DEF FindAllTypeOK, given, Resume
  <1> QED  BY <1>2, <1>3, <1>4, <1>5 DEF FindAllNext

\* FoundExactly in the words of this module.
Exactly ==
  /\ \A k \in DOMAIN found : found[k] \in Wanted /\ found[k] < UpTo
  /\ \A m \in Wanted : m < UpTo => \E k \in DOMAIN found : found[k] = m
  /\ \A j, k \in DOMAIN found : j < k => found[j] < found[k]

LEMMA ExactlyMeans == FoundExactly <=> Exactly
  <1>1. FoundExactly <=>
          /\ Addresses(found) = {m \in Wanted : m < UpTo}
          /\ \A j, k \in DOMAIN found : j < k => found[j] < found[k]
    BY DEF FoundExactly, found, UpTo, Wanted
  <1>2. Addresses(found) = {found[k] : k \in DOMAIN found}  BY DEF Addresses
  <1> QED  BY <1>1, <1>2 DEF Exactly

LEMMA ExactlyStep ==
  ASSUME FindAllTypeOK, Exactly, FindAllNext
  PROVE  Exactly'
  <1>1. UNCHANGED given /\ Wanted' = Wanted
    BY DEF FindAllNext, Write, NoResult, LoopEnd, Resume, given, Wanted
  <1>2. CASE Write
    <2>1. PICK r \in Address : Scan(r) /\ written' = Append(written, r) /\ from' = r + stride
      BY <1>2 DEF Write, After
    <2>2. /\ r \in Wanted /\ r \in Nat /\ from <= r
          /\ \A m \in Wanted : m \in Nat /\ (m < r + stride <=> m < from \/ m = r)
      BY <2>1, NothingBetween, MatchesOfRest
    <2>3. UpTo = from /\ UpTo' = r + stride  BY <1>2, <2>1 DEF UpTo, Write
    <2>4. PICK n \in Nat : n = Len(found) /\ DOMAIN found = 1 .. n  BY FoundTyped
    <2>5. PICK a, b : a = found /\ b = found'  OBVIOUS
    <2>6. /\ DOMAIN a = 1 .. n /\ DOMAIN b = 1 .. n + 1
          /\ \A k \in 1 .. n : b[k] = a[k]
          /\ b[n + 1] = r
      BY <1>2, <2>1, <2>4, <2>5, FoundAppended DEF Write
    <2>7. \A k \in 1 .. n : a[k] \in Wanted /\ a[k] < from
      BY <2>3, <2>4, <2>5 DEF Exactly
    <2>8. \A k \in 1 .. n + 1 : k \in 1 .. n \/ k = n + 1  OBVIOUS
    <2>9. \A k \in 1 .. n + 1 : b[k] \in Wanted /\ b[k] < r + stride
      BY <2>2, <2>6, <2>7, <2>8
    <2>10. ASSUME NEW m \in Wanted, m < r + stride PROVE \E k \in 1 .. n + 1 : b[k] = m
      <3>1. CASE m = r
        <4>1. n + 1 \in 1 .. n + 1  OBVIOUS
        <4> QED  BY <2>6, <3>1, <4>1
      <3>2. CASE m < from
        <4>1. PICK k \in 1 .. n : a[k] = m  BY <2>3, <2>4, <2>5, <3>2 DEF Exactly
        <4>2. k \in 1 .. n + 1  OBVIOUS
        <4> QED  BY <2>6, <4>1, <4>2
      <3> QED  BY <2>2, <2>10, <3>1, <3>2
    <2>11. ASSUME NEW j \in 1 .. n + 1, NEW k \in 1 .. n + 1, j < k PROVE b[j] < b[k]
      <3>1. j \in 1 .. n  BY <2>11
      <3>2. CASE k \in 1 .. n  BY <2>4, <2>5, <2>6, <2>11, <3>1, <3>2 DEF Exactly
      <3>3. CASE k = n + 1
        <4>1. b[j] = a[j] /\ a[j] < from /\ a[j] \in Nat  BY <2>2, <2>6, <2>7, <3>1
        <4> QED  BY <2>2, <2>6, <3>3, <4>1, QueryFacts
      <3> QED  BY <2>8, <3>2, <3>3
    <2> QED  BY <1>1, <2>3, <2>5, <2>6, <2>9, <2>10, <2>11 DEF Exactly
  <1>3. ASSUME found' = found, \A m \in Wanted : m < UpTo' <=> m < UpTo PROVE Exactly'
    BY <1>1, <1>3 DEF Exactly
  <1>4. CASE NoResult
    <2>1. found' = found /\ UpTo = from /\ UpTo' = end  BY <1>1, <1>4 DEF NoResult, found, UpTo, given
    <2>2. \A m \in Wanted : m < end /\ m < from  BY <1>4, MatchesOfRest, NothingLeft DEF NoResult
    <2> QED  BY <1>3, <2>1, <2>2
  <1>5. CASE LoopEnd
    <2>1. found' = found /\ UpTo = from /\ (bounded => UpTo' = from) /\ (~bounded => UpTo' = end)
      BY <1>1, <1>5 DEF LoopEnd, found, UpTo, given, FindAllTypeOK
    <2>2. ~bounded => from >= end  BY <1>5 DEF LoopEnd, Full
    <2>3. \A m \in Wanted : m \in Nat /\ m < end  BY MatchesOfRest
    <2> QED  BY <1>3, <2>1, <2>2, <2>3, QueryFacts
  <1>6. CASE Resume
    <2>1. found' = found
      <3>1. found' = (earlier \o written) \o << >>  BY <1>6 DEF Resume, found
      <3>2. found \in Seq(Address)  BY FoundTyped
      <3> QED  BY <3>1, <3>2, ConcatEmptySeq DEF found
    <2>2. UpTo = from /\ UpTo' = from  BY <1>1, <1>6 DEF Resume, UpTo, given
    <2> QED  BY <1>3, <2>1, <2>2
  <1> QED  BY <1>2, <1>4, <1>5, <1>6 DEF FindAllNext

LEMMA FindAllStarting == FindAllInit => FindAllTypeOK /\ Exactly
  <1> SUFFICES ASSUME FindAllInit PROVE FindAllTypeOK /\ Exactly
    OBVIOUS
  <1>1. FindAllTypeOK
    <2>1. begin \in 0 .. MemSize /\ end \in 0 .. MemSize /\ begin <= end /\ stride \in Nat
      BY FindAllAssumption, SearchAssumption DEF FindAllInit, Arguments
    <2>2. begin \in begin .. end + stride /\ end \in begin .. MemSize
      BY <2>1, PatternAssumption
    <2>3. Len(<< >>) = 0 /\ << >> \in Seq(Address) /\ capacity \in Nat
      BY FindAllAssumption, SearchAssumption, EmptySeq DEF FindAllInit, Arguments
    <2> QED  BY <2>1, <2>2, <2>3 DEF FindAllInit, Arguments, FindAllTypeOK
  <1>2. found = << >>
    <2>1. << >> \in Seq(Address)  BY EmptySeq
    <2> QED  BY <2>1, ConcatEmptySeq DEF FindAllInit, Arguments, found
  <1>3. UpTo = begin  BY DEF FindAllInit, Arguments, UpTo
  <1>4. \A m \in Wanted : m \in Nat /\ m >= begin
    <2>1. Wanted = Matches(mem, from, end, sig, stride)  BY DEF FindAllInit, Arguments, Wanted
    <2> QED  BY <1>1, <2>1, MatchesOfRest DEF FindAllInit, Arguments
  <1> QED  BY <1>1, <1>2, <1>3, <1>4, QueryFacts DEF Exactly

LEMMA FindAllInvariance == FindAllSpec => [](FindAllTypeOK /\ Exactly)
  <1>1. FindAllTypeOK /\ Exactly /\ [FindAllNext]_findAllVars => FindAllTypeOK' /\ Exactly'
    <2> SUFFICES ASSUME FindAllTypeOK, Exactly, [FindAllNext]_findAllVars PROVE FindAllTypeOK' /\ Exactly'
      OBVIOUS
    <2>1. CASE FindAllNext  BY <2>1, FindAllTypeStep, ExactlyStep
    <2>2. CASE UNCHANGED findAllVars  BY <2>2 DEF findAllVars, given, FindAllTypeOK, Exactly, found, UpTo, Wanted
    <2> QED  BY <2>1, <2>2
  <1> QED  BY <1>1, FindAllStarting, PTL DEF FindAllSpec

\* The type invariant of find_all_pattern, whatever it searches.
THEOREM FindAllTypeCorrect == FindAllSpec => []FindAllTypeOK
  BY FindAllInvariance, PTL

\* However often the output range fills up, what has been written is exactly the
\* matches up to where the search stands, in ascending order and none twice.
THEOREM Exact == FindAllSpec => []FoundExactly
  <1>1. Exactly => FoundExactly  BY ExactlyMeans
  <1> QED  BY <1>1, FindAllInvariance, PTL
=============================================================================
