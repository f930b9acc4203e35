\* Two parts, a completion, an abort, the sweep and a crash; no part number is
\* sent twice.
SPECIFICATION FairSpec
CONSTANTS
  Parts = {p1, p2}
  Uploads = {u1, u2}
  Completes = {c1}
  Aborts = {a1}
  Creator = Creator
  Sweeper = Sweeper
  None = None
  Torn = Torn
  Reupload = FALSE
  Faults = {"stream", "checksum", "sidecar", "check", "publish", "cancel"}
  MaxCrashes = 1
INVARIANTS
  TypeOK
  AssembledAsNamed
PROPERTY
  UploadsEnd
CHECK_DEADLOCK FALSE
