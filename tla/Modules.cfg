CONSTANTS
  t1 = t1
  t2 = t2
  a = a
  Threads = {t1, t2}
  Libs = {a, b, c}
  Main = main
  Places <- TwoPlaces
  MainPlace = 9
  Platforms <- AllPlatforms
  Callers <- SomeCallers
  UserLibs <- SomeLibs
  MaxUser = 2
SPECIFICATION Spec
INVARIANTS Pinned Balanced DiesOnly
PROPERTIES Found Returns
CHECK_DEADLOCK FALSE
