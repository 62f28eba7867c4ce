SPECIFICATION FairSpec
CONSTANTS
  Thread = {t1, t2}
  Systems = {"linux", "windows", "mac"}
  Images <- SmallImages
  Files <- SmallFiles
  Names = {0, 2}
  Stops = {1, 9}
  MaxCalls = 3
INVARIANTS
  Truthful
  OneAnswer
  ExecutableFound
PROPERTIES
  Returns
CHECK_DEADLOCK FALSE
