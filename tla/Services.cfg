SPECIFICATION Spec
CONSTANTS
  Node = {"n1", "n2", "n3"}
  Peers <- MCPeers
  FirstLeader = "n1"
  Server = {"s1"}
  Bucket = {"k"}
  MaxOps = 2
  MaxFaults = 1
  MaxSnapshots = 1
  Rotator = {1, 2}
  Sealed = {"o1"}
  Customers = {1, 2}
  MaxStarts = 2
  PieceSize = 2
  MaxBytes = 5
  ParityPieces = 1
  MaxDamage = 2
  ApiKey = {"a", "b"}
  Reader = {"r"}
  Writer = {"v", "w"}
  Sizes <- MCSizes
  PartSizes <- MCPartSizes
  Modified <- MCModified
  Ranges <- MCRanges
  Conditions <- MCConditions
  Denied = {"b"}
  DefaultSse = TRUE
  ObjectLimit = 2
  OffsetLimit = 16
  LastEntry = 4
  KeyOf <- MCKeyOf
  GroupOf <- MCGroups
  Prefixed = {2, 3, 4}
  CaseTwins = {1}
  MaxChanges = 2
  Browser = {"b1", "b2"}
  Scripts = {"b2"}
  Account = {"root", "ann"}
  Admin = "root"
  SsoAccount = "root"
  TenantOf <- MCTenants
  SessionBucket = {"ka", "kb"}
  Knows <- MCKnows
  Keycloak = TRUE
  TokenMaxAge = 1
  AccessLife = 1
  MaxTime = 2
  MaxSecret = 2
  MaxRealmKey = 2
  File = {"x", "y"}
  Deleter = {"d1", "d2"}
  MaxUploads = 1
INVARIANTS
  MachineIsLog
  DiskFollowsLog
  LocalAfterCommit
  KeysSurvive
  StreamIsSlice
  ResponseDescribesBody
  SidecarMatches
  BatchAccounted
  PagingComplete
  ServedToOwner
  FolderKept
CHECK_DEADLOCK FALSE
