SPECIFICATION Spec
CONSTANTS
  Goroutines = {g1, g2}
  NoOne = NoOne
  MaxConns = 2
  MaxExchanges = 3
INVARIANT ReservedSlotHasOwner
CHECK_DEADLOCK FALSE
