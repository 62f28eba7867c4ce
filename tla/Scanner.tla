------------------------------- MODULE Scanner -------------------------------
(***************************************************************************)
(* One call of hat::find_pattern: scan_context::create picks the scanner   *)
(* and the bytes it looks for, scan_context::scan rejects short ranges,    *)
(* and the scanner walks the range.  A vector scanner splits the range in  *)
(* three (segment_scan): an unaligned head and tail, scanned byte by byte, *)
(* and aligned vectors in between, of which each is loaded, reduced to a   *)
(* mask of candidate lanes, and tested lane by lane.  The per-byte scanner *)
(* is the case where the head is the whole range.                          *)
(***************************************************************************)
EXTENDS Search, Alignment, FiniteSetsExt

CONSTANTS
  Extensions,   \* the sets of CPU features considered
  Width,        \* vector size in bytes of each vector instruction set
  Score         \* the frequency table of byte pairs, complete over Byte \X Byte

VectorIsa == {"sse", "avx2", "avx512", "neon"}

Hints == {"frequency", "pair0"}

\* NUM_PAIRS: the score of a pair the frequency table does not list.
NumPairs == 512

Feature == {"bmi", "avx512", "avx2", "sse41", "neon"}

\* A fully masked byte is what the README requires of every signature.
ASSUME ScannerAssumption ==
  /\ \A s \in Signatures : \E k \in DOMAIN s : All(s[k])
  /\ Extensions \subseteq SUBSET Feature
  /\ Width \in [VectorIsa -> Nat \ {0}]
  /\ \A v \in VectorIsa, a \in Strides : Width[v] % a = 0
  /\ Score \in [Byte \X Byte -> 0 .. NumPairs]

VARIABLES
  \* what else the call is given, and the machine it runs on
  hints, ext,
  \* the scan_context
  cmpIndex, pairIndex, isa,
  \* the scanner: control, the segments, the pointer and the lanes to test
  pc, segs, pos, lanes,
  \* the range of addresses the last step read, and the value returned
  read, result

query == <<mem, begin, end, sig, stride, hints, ext>>
context == <<cmpIndex, pairIndex, isa>>
vars == <<query, context, pc, segs, pos, lanes, read, result>>

-----------------------------------------------------------------------------
(* scan_context::create *)

\* The first fully masked element.
FirstAll(s) ==
  CHOOSE i \in 0 .. Len(s) - 1 :
    /\ All(s[i + 1])
    /\ \A j \in 0 .. i - 1 : ~ All(s[j + 1])

\* The positions where two adjacent elements are fully masked.
Pairs(s) == {i \in 0 .. Len(s) - 2 : All(s[i + 1]) /\ All(s[i + 2])}

PairScore(s, i) == Score[<<Value(s[i + 1]), Value(s[i + 2])>>]

\* The first of the pairs with the highest score.
BestPair(s) ==
  CHOOSE i \in Pairs(s) :
    \A j \in Pairs(s) : \/ PairScore(s, i) > PairScore(s, j)
                        \/ PairScore(s, i) = PairScore(s, j) /\ i <= j

\* scan_context::apply_hints.  "frequency" is the hint that has a table on
\* this architecture; pair0 keeps only a pair at index 0.
ApplyHints(s, h) ==
  IF "pair0" \in h THEN (IF 0 \in Pairs(s) THEN 0 ELSE None)
  ELSE IF Pairs(s) = {} THEN None
  ELSE IF "frequency" \in h THEN BestPair(s)
  ELSE Min(Pairs(s))

\* resolve_scanner<Auto>.
Resolve(x) ==
  IF {"bmi", "avx512"} \subseteq x THEN "avx512"
  ELSE IF {"bmi", "avx2"} \subseteq x THEN "avx2"
  ELSE IF "sse41" \in x THEN "sse"
  ELSE IF "neon" \in x THEN "neon"
  ELSE "single"

-----------------------------------------------------------------------------
(* The segments of a vector scan *)

Span(lo, hi) == [lo |-> lo, hi |-> hi]
EmptySpan == Span(0, 0)

\* validateRange: a range the signature does not fit in is dropped.
ValidRange(lo, hi) == IF hi - lo >= Len(sig) THEN Span(lo, hi) ELSE EmptySpan

VecCmp == Len(sig) <= Width[isa]
CmpEq2 == pairIndex # None
VecIndex == IF CmpEq2 THEN pairIndex ELSE cmpIndex

\* Slip: room for the signature only, although a whole vector is compared.
RoomForSignature == Len(sig)

\* The bytes that must follow a vector: a whole vector where candidates are
\* compared with a vector load, the signature otherwise.
RequiredAfter == IF VecCmp THEN Width[isa] ELSE Len(sig)

\* Slip: the first vector where the range happens to start.
VecUnaligned == begin + VecIndex

VecBegin == AlignUp(begin + VecIndex, Width[isa])

VecEnd ==
  IF end - VecBegin >= RequiredAfter
  THEN VecBegin + Width[isa] * ((end - VecBegin - RequiredAfter) \div Width[isa])
  ELSE VecBegin

\* Slip: the tail starts at the end of the vectors, not at the first start
\* whose compared byte lies there.
TailTooLate ==
  IF VecBegin > end \/ VecBegin = VecEnd
  THEN [pre |-> ValidRange(begin, end), vec |-> EmptySpan, post |-> EmptySpan]
  ELSE [pre  |-> ValidRange(begin, VecBegin - VecIndex + Len(sig)),
        vec  |-> Span(VecBegin, VecEnd),
        post |-> ValidRange(VecEnd, end)]

SegmentScan ==
  IF VecBegin > end \/ VecBegin = VecEnd
  THEN [pre |-> ValidRange(begin, end), vec |-> EmptySpan, post |-> EmptySpan]
  ELSE [pre  |-> ValidRange(begin, VecBegin - VecIndex + Len(sig)),
        vec  |-> Span(VecBegin, VecEnd),
        post |-> ValidRange(VecEnd - VecIndex, end)]

\* The per-byte scanner takes the whole range.
WholeScan == [pre |-> Span(begin, end), vec |-> EmptySpan, post |-> EmptySpan]

\* The pointers between which find_pattern_single walks a segment.
ScanBegin(s) == AlignUp(s.lo, stride) + cmpIndex
ScanEnd(s) == AlignUp(s.hi - Len(sig) + 1, stride) + cmpIndex

-----------------------------------------------------------------------------
Init ==
  /\ Arguments
  /\ hints \in SUBSET Hints
  /\ ext \in Extensions
  /\ cmpIndex = 0
  /\ pairIndex = None
  /\ isa = "single"
  /\ pc = "create"
  /\ segs = [pre |-> EmptySpan, vec |-> EmptySpan, post |-> EmptySpan]
  /\ pos = 0
  /\ lanes = {}
  /\ read = Span(begin, begin)
  /\ result = None

Return(r) ==
  /\ result' = r
  /\ pc' = "done"
  /\ UNCHANGED <<pos, lanes>>

Create ==
  /\ pc = "create"
  /\ cmpIndex' = FirstAll(sig)
  /\ isa' = Resolve(ext)
  /\ pairIndex' = IF isa' = "single" THEN None ELSE ApplyHints(sig, hints)
  /\ pc' = "scan"
  /\ UNCHANGED <<query, segs, pos, lanes, read, result>>

TooShort ==
  /\ pc = "scan"
  /\ Len(sig) > end - begin
  /\ Return(None)
  /\ UNCHANGED <<query, context, segs, read>>

Dispatch ==
  /\ pc = "scan"
  /\ Len(sig) <= end - begin
  /\ segs' = IF isa = "single" THEN WholeScan ELSE SegmentScan
  /\ pos' = ScanBegin(segs'.pre)
  /\ pc' = "pre"
  /\ UNCHANGED <<query, context, lanes, read, result>>

-----------------------------------------------------------------------------
(* find_pattern_single on the head or the tail *)

CmpByte == Value(sig[cmpIndex + 1])

\* The segment was empty, or its loop has ended.
Exhausted(s) ==
  \/ s = EmptySpan
  \/ stride # 1 /\ ScanBegin(s) >= ScanEnd(s)
  \/ pos = ScanEnd(s)

\* memchr in an X1 scan: the occurrences of the byte up to the end of the loop.
Hits(s) == {i \in pos .. ScanEnd(s) - 1 : mem[i] = CmpByte}

\* An X1 scan whose memchr finds no further byte.
NoHit(phase, s) ==
  /\ pc = phase
  /\ ~ Exhausted(s)
  /\ stride = 1
  /\ Hits(s) = {}
  /\ pos' = ScanEnd(s)
  /\ read' = Span(pos, ScanEnd(s))
  /\ UNCHANGED <<query, context, pc, segs, lanes, result>>

\* An X1 scan compares the signature at the byte memchr found.
Hit(phase, s) ==
  /\ pc = phase
  /\ ~ Exhausted(s)
  /\ stride = 1
  /\ Hits(s) # {}
  /\ LET i == Min(Hits(s))
         start == i - cmpIndex
     IN /\ read' = Span(IF pos <= start THEN pos ELSE start, start + Len(sig))
        /\ IF MatchesAt(mem, sig, start)
           THEN Return(start)
           ELSE pos' = i + 1 /\ UNCHANGED <<pc, lanes, result>>
  /\ UNCHANGED <<query, context, segs>>

\* One iteration of an X4 or X16 scan.
Stride(phase, s) ==
  /\ pc = phase
  /\ ~ Exhausted(s)
  /\ stride # 1
  /\ LET start == pos - cmpIndex
     IN IF mem[pos] = CmpByte
        THEN /\ read' = Span(start, start + Len(sig))
             /\ IF MatchesAt(mem, sig, start)
                THEN Return(start)
                ELSE pos' = pos + stride /\ UNCHANGED <<pc, lanes, result>>
        ELSE /\ read' = Span(pos, pos + 1)
             /\ pos' = pos + stride
             /\ UNCHANGED <<pc, lanes, result>>
  /\ UNCHANGED <<query, context, segs>>

SingleStep(phase, s) == NoHit(phase, s) \/ Hit(phase, s) \/ Stride(phase, s)

PreDone ==
  /\ pc = "pre"
  /\ Exhausted(segs.pre)
  /\ pc' = "vec"
  /\ pos' = segs.vec.lo
  /\ UNCHANGED <<query, context, segs, lanes, read, result>>

PostDone ==
  /\ pc = "post"
  /\ Exhausted(segs.post)
  /\ Return(None)
  /\ UNCHANGED <<query, context, segs, read>>

-----------------------------------------------------------------------------
(* find_pattern_sse, _avx2, _avx512 and _neon on the vectors *)

\* create_alignment_mask: the lanes of an aligned vector that are aligned.
AlignmentMask == {k \in 0 .. Width[isa] - 1 : k % stride = 0}

\* Slip: the mask of the starts applied to the lanes of the compared byte.
MaskNotRotated == AlignmentMask

\* That mask rotated by the offset of the compared byte.
RotatedMask == {(k + VecIndex) % Width[isa] : k \in AlignmentMask}

\* Slip: the last lane of an x86 vector never passes.
LastLaneFails(o) ==
  /\ isa = "neon" \/ o # Width[isa] - 1
  /\ mem[pos + o + 1] = Value(sig[pairIndex + 2])

\* The second byte of the pair.  The x86 scanners compare within the vector
\* and let its last lane pass; Neon loads the vector one byte further.
SecondByteAt(o) ==
  \/ isa # "neon" /\ o = Width[isa] - 1
  \/ mem[pos + o + 1] = Value(sig[pairIndex + 2])

Candidates ==
  {o \in 0 .. Width[isa] - 1 :
     /\ mem[pos + o] = Value(sig[VecIndex + 1])
     /\ CmpEq2 => SecondByteAt(o)
     /\ stride # 1 => o \in RotatedMask}

LoadVector ==
  /\ pc = "vec"
  /\ pos # segs.vec.hi
  /\ lanes' = Candidates
  /\ read' = Span(pos, pos + Width[isa] + (IF CmpEq2 /\ isa = "neon" THEN 1 ELSE 0))
  /\ pc' = "lanes"
  /\ UNCHANGED <<query, context, segs, pos, result>>

TestLane ==
  /\ pc = "lanes"
  /\ lanes # {}
  /\ LET o == Min(lanes)
         start == pos + o - VecIndex
     IN /\ read' = Span(start, start + (IF VecCmp THEN Width[isa] ELSE Len(sig)))
        /\ IF MatchesAt(mem, sig, start)
           THEN Return(start)
           ELSE lanes' = lanes \ {o} /\ UNCHANGED <<pc, pos, result>>
  /\ UNCHANGED <<query, context, segs>>

\* Slip: the pointer stays on the vector.
SameVector ==
  /\ pc = "lanes"
  /\ lanes = {}
  /\ pc' = "vec"
  /\ UNCHANGED <<query, context, segs, pos, lanes, read, result>>

NextVector ==
  /\ pc = "lanes"
  /\ lanes = {}
  /\ pos' = pos + Width[isa]
  /\ pc' = "vec"
  /\ UNCHANGED <<query, context, segs, lanes, read, result>>

VecDone ==
  /\ pc = "vec"
  /\ pos = segs.vec.hi
  /\ pos' = ScanBegin(segs.post)
  /\ pc' = "post"
  /\ UNCHANGED <<query, context, segs, lanes, read, result>>

-----------------------------------------------------------------------------
Next ==
  \/ Create
  \/ TooShort
  \/ Dispatch
  \/ SingleStep("pre", segs.pre)
  \/ PreDone
  \/ LoadVector
  \/ TestLane
  \/ NextVector
  \/ VecDone
  \/ SingleStep("post", segs.post)
  \/ PostDone

\* The call runs on its caller's thread, which is scheduled.
Spec == Init /\ [][Next]_vars /\ WF_vars(Next)
=============================================================================
