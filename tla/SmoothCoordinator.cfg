SPECIFICATION FairSpec
CONSTANTS
  Clients = {c1, c2}
  Sizes = {1, 3}
  Cap = 5
  CounterMax = 14
  MaxRequests = 3
  MaxFaults = 1
INVARIANTS
  OneAccount
  SettledOnce
  OwnAnswer
  FirstComeFirstServed
PROPERTIES
  Served
  DestructorReturns
CHECK_DEADLOCK FALSE
