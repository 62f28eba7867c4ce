CONSTANTS
  Threads = {t1, t2}
  Slots = {s1, s2}
  Foreign = foreign
  MaxObjects = 2
SPECIFICATION BindingsSpec
INVARIANTS DisciplinedSafe MisuseCaught EffectAsPromised DestroyedOnce WrappersBehave NothingLost
SYMMETRY Symmetry
CHECK_DEADLOCK FALSE
