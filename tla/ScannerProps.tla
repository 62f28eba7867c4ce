---------------------------- MODULE ScannerProps ----------------------------
(***************************************************************************)
(* What the scanner has to satisfy.                                        *)
(***************************************************************************)
EXTENDS Scanner

Phases == {"create", "scan", "pre", "vec", "lanes", "post", "done"}

SpanType == [lo : 0 .. MemSize, hi : 0 .. MemSize]

\* Every variable keeps its type: in particular the bounds of the three
\* segments segment_scan computes stay addresses of the machine.
TypeOK ==
  /\ mem \in [Address -> Byte]
  /\ sig \in Signatures
  /\ stride \in Strides
  /\ hints \in SUBSET Hints
  /\ ext \in Extensions
  /\ begin \in 0 .. MemSize
  /\ end \in begin .. MemSize
  /\ cmpIndex \in 0 .. Len(sig) - 1
  /\ pairIndex \in Pairs(sig) \cup {None}
  /\ isa \in VectorIsa \cup {"single"}
  /\ pc \in Phases
  /\ segs \in [pre : SpanType, vec : SpanType, post : SpanType]
  /\ pos \in Nat
  /\ lanes \in SUBSET Nat
  /\ read \in [lo : Nat, hi : Nat]
  /\ result \in Address \cup {None}

\* No load of the scanner, byte or vector, leaves the caller's range: the
\* 16, 32 or 64 bytes a vector scanner loads at a time, the whole vector it
\* compares a short signature with, and the second load of Neon included.
ReadsInBounds == begin <= read.lo /\ read.lo <= read.hi /\ read.hi <= end

\* Vectors are loaded with the aligned load instructions, which fault on an
\* address that is not a multiple of the vector size.
LoadsAligned == pc = "lanes" => pos % Width[isa] = 0

\* The three segments leave no start out: a start of the whole range is a
\* start of the head, has its compared byte in a vector, or is a start of the
\* tail.
SegmentsCover ==
  pc \in {"pre", "vec", "lanes", "post"} =>
    \A p \in begin .. end - Len(sig) :
      \/ p \in segs.pre.lo .. segs.pre.hi - Len(sig)
      \/ p + VecIndex \in segs.vec.lo .. segs.vec.hi - 1
      \/ p \in segs.post.lo .. segs.post.hi - Len(sig)

\* No aligned start below x is a match.
NoneBelow(x) ==
  \A p \in Starts(begin, end, sig, stride) : p < x => ~ MatchesAt(mem, sig, p)

\* What has been ruled out at each point of the scan: everything below the
\* pointer, less the index of the byte it looks for, and every lane of the
\* vector at hand that is not waiting to be tested.
RuledOut ==
  /\ pc = "pre" => NoneBelow(pos - cmpIndex)
  /\ pc \in {"vec", "lanes"} =>
       NoneBelow(IF segs.vec = EmptySpan THEN end ELSE pos - VecIndex)
  /\ pc = "lanes" =>
       \A o \in (0 .. Width[isa] - 1) \ lanes :
         pos + o - VecIndex \in Starts(begin, end, sig, stride) =>
           ~ MatchesAt(mem, sig, pos + o - VecIndex)
  /\ pc = "post" =>
       NoneBelow(IF segs.post = EmptySpan THEN end ELSE pos - cmpIndex)

\* The value returned is the promised one whatever the instruction set, the
\* hints, the alignment of the range and the way it was split.
ReturnsFirstMatch ==
  pc = "done" => IsFirstMatch(result, mem, begin, end, sig, stride)

-----------------------------------------------------------------------------
(* The inductive invariant behind ReadsInBounds and ReturnsFirstMatch.      *)

\* The byte every scanner looks for first is fully masked.
ContextOK ==
  pc # "create" =>
    /\ All(sig[cmpIndex + 1])
    /\ isa = "single" => pairIndex = None

\* The head ends one start into the first vector, the tail starts at the first
\* start whose compared byte is behind the last vector, and the vectors leave
\* room for a whole comparison behind them.
VectorSegments(g) ==
  /\ isa \in VectorIsa
  /\ g.vec.lo \in Nat /\ g.vec.hi \in Nat
  /\ g.vec.lo % Width[isa] = 0
  /\ g.vec.hi % Width[isa] = 0
  /\ begin + VecIndex <= g.vec.lo
  /\ g.vec.lo < g.vec.hi
  /\ g.vec.hi + RequiredAfter <= end
  /\ g = [pre  |-> Span(begin, g.vec.lo - VecIndex + Len(sig)),
          vec  |-> Span(g.vec.lo, g.vec.hi),
          post |-> Span(g.vec.hi - VecIndex, end)]

SegmentsOK ==
  pc \in {"pre", "vec", "lanes", "post"} =>
    /\ Len(sig) <= end - begin
    /\ segs = WholeScan \/ VectorSegments(segs)

\* The pointer of find_pattern_single stays between the bounds of its loop,
\* on a start of the stride.
SingleOK(s) ==
  /\ (pos - cmpIndex) % stride = 0
  /\ ScanBegin(s) <= pos
  /\ pos <= ScanEnd(s)

\* The pointer of a vector scanner stays on a vector of its segment.
VectorOK ==
  /\ pos % Width[isa] = 0
  /\ segs.vec.lo <= pos
  /\ pos <= segs.vec.hi

PointerOK ==
  /\ pc = "pre" => SingleOK(segs.pre)
  /\ pc = "post" /\ segs.post # EmptySpan => SingleOK(segs.post)
  /\ pc = "vec" => IF segs.vec = EmptySpan THEN pos = 0 ELSE VectorOK
  /\ pc = "lanes" =>
       /\ segs.vec # EmptySpan
       /\ VectorOK
       /\ pos # segs.vec.hi
       /\ lanes \subseteq 0 .. Width[isa] - 1
       /\ \A o \in lanes : (pos + o - VecIndex) % stride = 0

Inv ==
  /\ TypeOK
  /\ ContextOK
  /\ SegmentsOK
  /\ PointerOK
  /\ ReadsInBounds
  /\ RuledOut
  /\ ReturnsFirstMatch

-----------------------------------------------------------------------------
\* Every call returns.
Terminates == <>(pc = "done")

Abstract == INSTANCE ScanSpec WITH returned <- (pc = "done")

\* Every call of a scanner is a call of the one atomic search of ScanSpec.
ImplementsScanSpec == Abstract!Spec
=============================================================================
