SPECIFICATION Spec
CONSTANTS
  g1 = g1
  g2 = g2
  g3 = g3
  Guards = {g1, g2, g3}
  PageCount = 3
  PageSize = 2
  Layouts <- AllLayouts
  Flags <- SmallFlags
  Sizes = {0, 2, 3}
  Platforms = {"linux", "win32", "mac"}
  Disciplines = {"nested", "disjoint", "lifo"}
SYMMETRY Symmetry
INVARIANTS
  Layered
  DisciplinedRestores
CHECK_DEADLOCK FALSE
