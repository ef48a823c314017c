SPECIFICATION AdminSpec
CONSTANTS
  Requests = {r1, r2}
  Boot = Boot
  MaxWrites = 2
  MaxCrashes = 2
  Queries = {q1}
  Appliers = {a1, a2}
  MaxUpstreams = 2
  Plain = {1}
  MaxRetries = 2
  MaxManagers = 3
  PolicyIds = {p1}
  SourceIds = {s1, bundle}
  Bundle = bundle
  MaxEdits = 3
  Admins = {x1, x2}
  Choices = {c1, c2}
  MaxRestarts = 2
  Monitored = {l1, l2}
  Sizes = {0, 1, 3}
  StaleLimit = 1
  MaxSnapshots = 2
  MaxSweepTime = 2
  Capacity = 4
  MinFreePercent = 40
  GrowthPercentPerHour = 25
  MaxSamples = 3
  MaxHours = 3
  Grace = 2
  Expiries = {1, 2}
  MaxClock = 5
INVARIANTS
  PushesFollowStore
  ManagersAccountedFor
  OutcomeIsJustified
  RoundTripHolds
  SetupHasOneWinner
  HealthReportsAreRight
  StartUpIsSound
CHECK_DEADLOCK FALSE
