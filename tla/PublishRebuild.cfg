\* The erasure-coding policy is changed between two PUTs; then a restart.
SPECIFICATION Spec
CONSTANTS
  Puts = {w1}
  Deletes = {}
  Gets = {}
  Old = Old
  None = None
  Paths = {"flat", "ec"}
  Serial = TRUE
  Depths = {TRUE}
  Faults = {}
  MaxCrashes = 1
INVARIANT
  CanRebuildIndex
CHECK_DEADLOCK FALSE
