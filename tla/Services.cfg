CONSTANTS
  a1 = a1  a2 = a2  c1 = c1  c2 = c2  e1 = e1  e2 = e2  i1 = i1  i2 = i2  k1 = k1  l1 = l1
  m1 = m1  m2 = m2  n1 = n1  n2 = n2  o1 = o1  o2 = o2  p1 = p1  p2 = p2  q1 = q1  q2 = q2  r1 = r1  r2 = r2  r3 = r3  t1 = t1  t2 = t2  u1 = u1  u2 = u2  v1 = v1  v2 = v2
  x1 = x1  x2 = x2  x3 = x3
  KeyValues = {v1, v2}
  KeyIds = {i1, i2}
  NoKey = none
  Clients = {c1, c2}
  KeyEditors = {e1}
  Quotas = {1}
  MaxUsage = 1
  UsageCap = 3
  MaxFaults = 1
  KeyLineups <- KeyLineupsChecked
  AccountIds = {x1, x2, x3}
  Users = {u1, u2}
  Keys = {k1}
  NoId = none
  MaxAccounts = 2
  MaxCred = 1
  MaxRegFaults = 1
  RegLineups <- RegLineupsChecked
  Missing = Missing
  StatAccounts = {a1}
  StatRequests = {q1, q2}
  StatReloaders = {l1}
  MaxCount = 2
  MaxSaveFaults = 1
  MaxResets = 1
  ToolIds = {t1, t2}
  Styles <- StylesChecked
  SameAccountRetries = 1
  MaxFragments = 3
  ToolCalls = {1, 2}
  Dialects <- DialectsChecked
  ToolNames = {t1, t2}
  NoTool = none
  IdleLimit = 2
  LastTick = 4
  MaxGen = 4
  Pairs = {p1, p2}
  RouteEndpoints = {e1, e2}
  RouteScenes <- RouteScenesChecked
  NoEndpoint = none
  RouteTTL = 2
  BaseCool = 1
  MaxCool = 2
  MaxRouteTime = 3
  MaxSaves = 1
  FailoverAccounts = {a1, a2}
  RequestModel = m1
  NoAccount = none
  Journeys <- JourneysChecked
  EmptyLimit = 2
  MaxIntegrity = 1
  RefreshScenes <- RefreshScenesChecked
  RefreshBefore = 1
  InfoInterval = 1
  FailureCooldown = 2
  TokenLife = 2
  MaxRefreshTime = 4
  ResponseIds <- ResponseIdsChecked
  Owners = {o1}
  Readers = {o1, o2}
  Sizes = {1, 2}
  MaxFiles = 2
  MaxBytes = 3
  EncryptedGrowth = 1
  ResponseTTL = 0
  MaxStoreTime = 2
  MaxStoreFaults = 2
  NoAnswer = none
  CatalogAccounts <- CatalogAccountsChecked
  Listings <- ListingsChecked
  BlankModel = blank
  NoName = none
  Asked = asked
  TaskSlots = {1, 2}
  MaxModelsPerRun = 1
  ModelConcurrency = 1
  MaxTasks = 2
SPECIFICATION ServicesSpec
INVARIANTS KeysSafe AccountsSafe CountersSafe DeliverySafe ToolsSafe TimersSafe SettingsSafe RoutesSafe FailoverSafe AutoRefreshSafe ResponsesSafe CatalogSafe
PROPERTIES UsageNotLost CredentialsNeverOlder WellFormedResponse
