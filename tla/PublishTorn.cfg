\* Two overlapping PUTs in an erasure-coded, encrypted bucket, nothing fails.
SPECIFICATION Spec
CONSTANTS
  Puts = {w1, w2}
  Deletes = {}
  Gets = {}
  Old = Old
  None = None
  Paths = {"ec_enc"}
  Serial = FALSE
  Depths = {TRUE}
  Faults = {}
  MaxCrashes = 0
INVARIANT
  LatestDecryptable
CHECK_DEADLOCK FALSE
