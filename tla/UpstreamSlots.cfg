CONSTANTS
  r1 = r1  r2 = r2  r3 = r3  a1 = a1  a2 = a2  m1 = m1  ws = ws  p1 = p1
  route1 = route1  route2 = route2  route3 = route3  none = none
  Requests <- ThreeRequests
  Accounts = {a1}
  Models = {m1}
  SearchModel = ws
  Profiles = {p1}
  NoProfile = none
  ProfileArn <- SharedProfile
  MaxConcurrency <- NoOverride
  Routes = {}
  Null = none
  Configs <- Alternating
  Settings <- EveryMode
  Updates <- TheOther
  RetryAfters = {0}
  MaxRetryAfter = 3
  MaxRateLimits = 1
SYMMETRY RequestSymmetry
SPECIFICATION Spec
INVARIANTS SlotsSafe GuardsAccounted
PROPERTIES AdmissionWithinLimits
