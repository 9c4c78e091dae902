CONSTANTS
  r1 = r1  r2 = r2  r3 = r3  c1 = c1  c2 = c2  c3 = c3  e1 = e1  e2 = e2  p1 = p1
  Requests = {c1, c2, r3}
  Limits <- QueueLimits
  Amounts = {0, 1, 2}
  MaxTokens = 3
  MaxRequests = 2
  None = none
  Calls <- TwoCalls
  MaxDepth = 2
  Endpoints = {e1, e2}
  Proxies = {p1}
  MaxEntries = 1
  Threshold <- SecondFailure
  BaseCooldown = 1
  MaxCooldown = 2
  MaxOpenCount = 2
  MaxAttempts = 1
  MaxAbandoned = 1
  GateKinds <- GateKindsChecked
  MaxOutput = 3
SYMMETRY GatesSymmetry
SPECIFICATION GatesSpec
INVARIANTS
  AdmissionAccounted HoldersWithinLimits ReservationsCovered
  CircuitsSafe GateSafe
PROPERTIES CooldownNotExtended
