SPECIFICATION EngineSpec
CONSTANTS
  c1 = c1
  c2 = c2
  Clients = {c1, c2}
  Domains <- MCDomains
  Policies <- MCPolicies
  MaxPolicies = 3
  Days = 2
  DayLen = 4
INVARIANT EvaluationIsRight
