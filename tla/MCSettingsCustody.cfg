SPECIFICATION Spec
INVARIANTS
  CustodySilences
CHECK_DEADLOCK FALSE
