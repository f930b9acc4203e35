SPECIFICATION Spec
CONSTANTS
  MaxId = 3
  MaxTime = 1
  Retention = 1
INVARIANTS
  TypeOK
  VersionLockHolds
  ShownIsNewest
CHECK_DEADLOCK FALSE
