SPECIFICATION FairSpec
CONSTANTS
  Goroutines = {g1, g2}
  NoOne = NoOne
  MaxConns = 2
  MaxExchanges = 3
INVARIANTS
  ConnUseIsExclusive
  SocketsAccountedFor
  AnswersMatchUntilTimeout
PROPERTIES
  CallsReturn
CHECK_DEADLOCK FALSE
