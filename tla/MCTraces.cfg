SPECIFICATION MCSpec
CONSTANTS
  NoTraces = NoTraces
  Primes = {7, 13}
  Moduli = {2, 3, 4, 5}
  Ells = {3, 5, 7, 11, 13}
  KaratsubaThreshold = 8
  KroneckerThreshold = 0
  LimbBits = 8
  ReciprocalThreshold = 6
  MaximumWindowBits = 5
  CountedCurves <- MCCounted
  ProbedCurves <- MCProbed
  WalkLimit = 3
  ModularPolynomials <- MCModularPolynomials
  LevelRequests <- MCLevels
  RootWorkers = 2
INVARIANTS
  ExactlyImposed
  RejectedMeansImpossible
  NoTraceMissed
  TorsionTellsTheTrace
  LevelIsTheTruth
CHECK_DEADLOCK FALSE
