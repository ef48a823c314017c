SPECIFICATION FairSpec
CONSTANTS
  n1 = n1
  Queries = {q1}
  Names = {n1}
  Asks <- MCAsks
  Configs <- MCConfigs
INVARIANTS BlockedStaysOut LogMatchesResponse
PROPERTIES QueryIsServed
