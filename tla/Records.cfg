SPECIFICATION RecordsSpec
CONSTANTS
  a1 = a1  b1 = b1  b2 = b2  d1 = d1  d2 = d2  d3 = d3  g1 = g1  g2 = g2  o1 = o1  o2 = o2  t1 = t1  t2 = t2  w1 = w1  w2 = w2  word = word
  NoImage = NoImage
  Accounts = {a1}
  Workers = {w1, w2}
  Transient = 1
  Short = 1
  Quota = 2
  RefreshFor = 1
  Legacy <- LegacyTicks
  MaxSavers = 1
  MaxEvents = 4
  Loads <- LoadsChecked
  MaxTools = 1
  MaxAttempts = 1
  TraceToolIds = {t1, t2}
  TextLimit = 1
  DetailLimits = {2, 6}
  LogRequests = {g1, g2}
  DetailSize <- DetailSizesChecked
  StoreBytes = 2
  LogScenes <- LogScenesChecked
  MaxLogFaults = 1
  Records = {d1, d2, d3}
  DetailRecords = {d1, d2}
  QueueCap = 2
  CommandCap = 1
  RotateBytes = 3
  CapacityBytes = 4
  MaxArchiveFaults = 1
  ArchiveScenes <- ArchiveScenesChecked
  Requests = {b1, b2}
  Payloads <- PayloadsChecked
  CacheScenes <- CacheScenesChecked
  Nothing = Nothing
  ShortTTL = 1
  LongTTL = 2
  ReservationTTL = 1
  MaxTime = 2
  UsageEvents <- UsageEventsChecked
  UsageScenes <- UsageScenesChecked
  MaxUsageEvents = 2
  MaxRecorded = 2
  MaxTokenInt = 1000
  ClientRequests <- ClientRequestsChecked
  OpenAIRequests <- OpenAIRequestsChecked
  InputLimits = {6}
  MinRecentTurns = 1
  Outputs = {o1, o2}
  OutputSize = 3
  BlankId = blank
  Dot = dot
  Space = space
  Ok = ok
  Called = called
  Note = note
  Dropped = dropped
  NoConversation = NoConversation
SYMMETRY WorkerSymmetry
INVARIANTS CooldownsSafe TraceSafe LogsSafe ArchiveSafe CacheSafe AccountingSafe HistorySafe
