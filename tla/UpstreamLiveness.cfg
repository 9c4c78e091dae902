CONSTANTS
  r1 = r1  r2 = r2  r3 = r3  a1 = a1  a2 = a2  m1 = m1  ws = ws  p1 = p1
  route1 = route1  route2 = route2  route3 = route3  none = none
  Requests <- TwoRequests
  Accounts = {a1}
  Models = {m1, ws}
  SearchModel = ws
  Profiles = {}
  NoProfile = none
  ProfileArn <- NoProfiles
  MaxConcurrency <- NoOverride
  Routes = {}
  Null = none
  Configs = {"strict"}
  Settings <- OnlyStrict
  Updates <- AnyOther
  RetryAfters = {0, 3}
  MaxRetryAfter = 3
  MaxRateLimits = 1

SPECIFICATION FairSpec
PROPERTIES ProbeResolved QueueDrains
