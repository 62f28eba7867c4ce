SPECIFICATION FindAllSpec
CONSTANTS
  Byte <- SmallByte
  MemSize = 7
  Memories <- AllMemories
  Signatures <- SmallSignatures
  Strides = {1, 2, 4}
  Begins = {0, 1}
  Ends = {5, 7}
  Capacities = {0, 1, 2}
INVARIANTS
  FoundExactly
PROPERTIES
  FindsAll
CHECK_DEADLOCK FALSE
