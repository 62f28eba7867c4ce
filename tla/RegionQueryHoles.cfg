SPECIFICATION QuerySpec
CONSTANTS
  PageCount = 4
  PageSize = 2
  Layouts <- HoleLayouts
  Protections <- SmallProtections
  Seams <- SmallSeams
  Begins = {1, 2}
  Ends = {2, 5, 8}
  Asked = {"r", "w"}
  Platforms = {"mac"}
  MaxChanges = 0
INVARIANTS
  YesMeansAll
CHECK_DEADLOCK FALSE
