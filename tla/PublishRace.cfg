\* Three overlapping flat PUTs, nothing fails.
SPECIFICATION Spec
CONSTANTS
  Puts = {w1, w2, w3}
  Deletes = {}
  Gets = {}
  Old = Old
  None = None
  Paths = {"flat"}
  Serial = FALSE
  Depths = {TRUE}
  Faults = {}
  MaxCrashes = 0
INVARIANT
  RaceHasWinner
CHECK_DEADLOCK FALSE
