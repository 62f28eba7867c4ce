SPECIFICATION Spec
CONSTANTS
  g1 = g1
  g2 = g2
  g3 = g3
  Guards = {g1, g2, g3}
  PageCount = 3
  PageSize = 2
  Layouts <- AllLayouts
  Flags <- SmallFlags
  Sizes = {0, 2, 3}
  Platforms = {"linux"}
  Disciplines = {"nested"}

INVARIANTS
  SetMeansProtected
CHECK_DEADLOCK FALSE
