SPECIFICATION FairSpec
CONSTANTS
  Handlers = {h1, h2}
  Ids = {p1, p2}
  MaxRequests = 2
CHECK_DEADLOCK FALSE
INVARIANTS SnapshotsFollowTable
PROPERTIES DataplaneCatchesUp
