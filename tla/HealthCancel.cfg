CONSTANTS
  c1 = c1  c2 = c2  c3 = c3  e1 = e1  e2 = e2  p1 = p1
  None = none
  Calls <- TwoCalls
  MaxDepth = 1
  Endpoints = {e1}
  Proxies = {}
  MaxEntries = 1
  Threshold <- FirstFailure
  BaseCooldown = 1
  MaxCooldown = 1
  MaxOpenCount = 1
  MaxAttempts = 1
  MaxAbandoned = 1

SPECIFICATION HealthFairSpec
PROPERTIES ProbeResolved
