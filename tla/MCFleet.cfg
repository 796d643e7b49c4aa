SPECIFICATION FleetSpec
CONSTANTS
  Modulus = 8
  Launchers = {l1, l2}
  Deployments = {d1, d2}
  Options = {o1, o2}
  Hosted = {"w1", "w2"}
  CurveCount <- MCCurveCount
  InFlight = 2
  MaxChanges = 2
  MaxRestarts = 1
INVARIANTS
  SearchedOnce
  AllSearched
  LauncherAgrees
  TrustedContent
  WorkerResumes
CHECK_DEADLOCK FALSE
