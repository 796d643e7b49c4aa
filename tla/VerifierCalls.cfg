SPECIFICATION CallsSpec
CONSTANTS
  Threads = {t1, t2}
  MaxCandidates = 2
INVARIANTS
  ChildrenCollected
PROPERTY
  CallsReturn
CHECK_DEADLOCK FALSE
