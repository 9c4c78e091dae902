CONSTANTS
  r1 = r1  r2 = r2  r3 = r3  a1 = a1  a2 = a2  m1 = m1  ws = ws  p1 = p1
  route1 = route1  route2 = route2  route3 = route3  none = none
  Requests <- TwoRequests
  Accounts = {a1, a2}
  Models = {m1}
  SearchModel = ws
  Profiles = {p1}
  NoProfile = none
  ProfileArn <- OneProfile
  MaxConcurrency <- NoOverride
  Routes = {route1, route2, route3}
  Null = none
  Configs = {"strict"}
  Settings <- OnlyTwoBindings
  Updates <- AnyOther
  RetryAfters = {0}
  MaxRetryAfter = 3
  MaxRateLimits = 1
SYMMETRY AffinitySymmetry
SPECIFICATION Spec
PROPERTIES AffinityEvictsOldest ForgetsOnlyOwnBinding ProfileAdmissionWithinLimit
