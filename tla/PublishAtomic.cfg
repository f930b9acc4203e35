\* One writer at a time, one format; the body and the two final renames may fail.
SPECIFICATION Spec
CONSTANTS
  Puts = {w1, w2}
  Deletes = {d1}
  Gets = {g1}
  Old = Old
  None = None
  Paths = {"flat"}
  Serial = TRUE
  Depths = {TRUE}
  Faults = {"stream", "rename"}
  MaxCrashes = 0
INVARIANT
  RestIntact
PROPERTY
  ImplementsAtomicObject
CHECK_DEADLOCK FALSE
