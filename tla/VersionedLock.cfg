\* No default retention: a lock on the current object comes from a request.
SPECIFICATION Spec
CONSTANTS
  MaxId = 3
  MaxTime = 1
  Retention = 0
PROPERTY
  LockedCurrentKept
CHECK_DEADLOCK FALSE
