SPECIFICATION Spec
CONSTANTS
  ShardNodes <- MCNodes
  DataShards = 2
  ParityShards = 1
  MaxHarm = 1
  MaxOutages = 1
  Event = {"e1", "e2"}
  External = {"e2"}
  MaxSpoolFaults = 1
  Line = {"l1", "l2", "l3"}
  Torn = "torn"
  StatusPeers <- MCNodes
  MaxEpoch = 2
INVARIANTS
  DamageContained
  QuietLogComplete
PROPERTIES
  RotHealed
  WebhookDelivers
  ReadyTracksQuorum
CHECK_DEADLOCK FALSE
