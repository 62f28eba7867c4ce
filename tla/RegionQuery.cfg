SPECIFICATION QuerySpec
CONSTANTS
  PageCount = 4
  PageSize = 2
  Layouts <- AllLayouts
  Protections <- SmallProtections
  Seams <- SmallSeams
  Begins = {1, 2}
  Ends = {2, 5, 8}
  Asked = {"r", "w"}
  Platforms = {"linux", "win32", "mac"}
  MaxChanges = 1
INVARIANTS
  YesMeansFlagged
  NoMeansSome
PROPERTIES
  Answers
CHECK_DEADLOCK FALSE
