CONSTANTS
  r1 = r1
  r2 = r2
  r3 = r3
  Req <- MCReq
  Inputs <- MCInputs
  Docs <- MCDocs
  Tenants <- MCTenants
  CredFiles <- MCCredFiles
  Char = {"b", "/", "*", "?", "e", "a", "x", "s", "t"}
  Root = "root"
  RootSecret = "sr"
  Proxies <- MCProxies
  Window = 2
  MaxFailures = 1
  MaxPuts = 2
  Skew = 1
  MaxChanges = 1
  MaxClock = 2
SYMMETRY MCSymmetry
SPECIFICATION Spec
INVARIANTS
  ServedAsPolicySays
  RefusedForAReason
  ServedWithinTenant
  AnonymousOnlyWhenOpen
  FailuresBounded
CHECK_DEADLOCK FALSE
