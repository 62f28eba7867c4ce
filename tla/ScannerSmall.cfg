SPECIFICATION Spec
CONSTANTS
  Byte <- SmallByte
  MemSize = 15
  Near = {6}
  Memories <- SparseMemories
  Signatures <- SmallSignatures
  Strides = {1, 2}
  Begins = {0, 3}
  Ends = {6, 12}
  Extensions <- SmallExtensions
  Width <- SmallWidth
  Score <- SmallScore
INVARIANTS
  ReadsInBounds
  LoadsAligned
  RuledOut
  ReturnsFirstMatch
PROPERTIES
  ImplementsScanSpec
  Terminates
CHECK_DEADLOCK FALSE
