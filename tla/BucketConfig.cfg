\* Two changes, a creation, a deletion, a copy and a crash.
SPECIFICATION Spec
CONSTANTS
  Creates = {cr}
  Deletes = {de}
  Changes = {ch1, ch2}
  Puts = {}
  Copies = {co}
  Ops <- VersioningAndPolicy
  Starts <- FlatAndChunked
  ServerErasure = TRUE
  Unknown = Unknown
  Faults = {"write", "cancel"}
  MaxCrashes = 1
SYMMETRY ChangeSymmetry
INVARIANTS
  TypeOK
  UncontestedSettingKept
  SettledUploadFollows
  PayloadKept
CHECK_DEADLOCK FALSE
