SPECIFICATION Spec
CONSTANTS
  Machines <- MCMachines
  Builds <- MCBuilds
  PageSize = 4
  Sizes = {1, 5}
INVARIANTS OnlyUsable WidestUsable SetMeansMemory
CHECK_DEADLOCK FALSE
