SPECIFICATION Spec
CONSTANTS
  NoTraces = NoTraces
  NoTrace = NoTrace
  Prime <- MCPrime
  Traces <- MCTraces
  WeberLevels <- MCWeberLevels
  SchoofLevels <- MCSchoofLevels
  ClassicalLevels = {7}
  EarlyCaps = {1, 3}
  MaxCandidates = 2
  MaxSearchNodes = 3
INVARIANT
  OrdersAreTriedOrReported
CHECK_DEADLOCK FALSE
