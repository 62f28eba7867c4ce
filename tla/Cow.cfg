SPECIFICATION Spec
CONSTANTS
  Cows = {c1, c2}
  Sources = {s1}
  Buffers = {b1, b2, b3}
  Allocators = {a1, a2}
  Default = a1
  Values = {empty, some}
  Empty = empty
  Nothing = Nothing
  Gone = Gone
  Unsure = Unsure
SYMMETRY Symmetry
INVARIANTS BuffersAccounted ReadsAsExpected 
PROPERTY AllocatorKept
CHECK_DEADLOCK FALSE
