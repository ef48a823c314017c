SPECIFICATION MCSpec
CONSTANTS
  Primary = Primary
  Backup = Backup
  FailureThreshold = 3
  RecoveryThreshold = 2
  WatchdogThreshold = 0
  MaxRun = 20
  Agents = {b1}
  Reporters = {b2}
  Interval = 6
  Timeout = 1
  StaleAfter = 9
  Categories = {k1}
  Collections = {k2}
  Feeds = {f1, f2}
  Togglers = {t1, t2}
  MaxToggles = 4
  ExportEvents = {e1, e2, e3}
  NSinks = 2
  ExportQueue = 2
  MaxVersion = 4
INVARIANTS
  RecoveryPerThreshold
  ReporterKeepsPace
  SuccessIsApplied
  SinksOfferedAll
PROPERTIES
  HysteresisHolds
  PairSettles
  FleetViewFollows
  ExporterDelivers
  FeedTakesEffect
CHECK_DEADLOCK FALSE
