SPECIFICATION Spec
CONSTANTS
  Names = {n1, n2, n3}
  Messages <- MCMessages
  MaxEntries = 2
  StaleFor = 1
  Clients = {c1, c2}
  Handlers = {h1, h2}
  PerSec = 1
  Second = 2
  IdleAfter = 3
  MaxClients = 1
  MaxQueries = 3
  FluxDomains = {d1, d2, d3}
  Addresses = {a1, a2}
  TTLs = {1, 2}
  FluxWindow = 2
  IPThreshold = 2
  TTLMax = 1
  MaxDomains = 2
  MaxObserved = 3
  NodDomains = {d1, d2, d3}
  NodWindow = 2
  MaxFirstSeen = 2
  Devices = {c1}
  Blockers = {b1, b2}
  AlertThreshold = 2
  AlertWindow = 2
  MaxHits = 5
  Recorders = {r1, r2}
  SliceCount = 2
  SliceSize = 1
  MaxRecords = 3
  IPs = {i1}
  MACs = {m1, m2}
  Hosts = {h1, h2}
  MaxMoves = 4
  MaxLanTime = 2
  Letters = {"l", "o", "1"}
  Confusable <- MCConfusable
  MaxLabel = 4
  Watchlists <- MCWatchlists
  MaxDistance = 2
  MaxTime = 4
INVARIANTS
  LimitIsKept
  AlertsMatchHits
  WindowIsExactUnlessRaced
  DevicesAreKnown
  LookalikesAreFlagged
PROPERTIES
  CacheIsLRU
  FluxVerdictIsRight
  LedgerTellsNew
CHECK_DEADLOCK FALSE
