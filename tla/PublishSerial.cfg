\* One writer at a time: every failure, dropped futures, a crash, the sweep and
\* changes of the bucket's erasure-coding policy between two PUTs and a DELETE.
SPECIFICATION FairSpec
CONSTANTS
  Puts = {w1, w2}
  Deletes = {d1}
  Gets = {}
  Old = Old
  None = None
  Paths = {"flat", "ec_enc"}
  Serial = TRUE
  Depths = {TRUE, FALSE}
  Faults = {"stream", "backup", "rename", "restore", "cancel"}
  MaxCrashes = 1
INVARIANTS
  TypeOK
  SidecarMatchesPayload
  NoRejectedBytes
  Recoverable
PROPERTY
  LeftoversSwept
CHECK_DEADLOCK FALSE
