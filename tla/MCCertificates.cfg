SPECIFICATION Spec
CONSTANTS
  Orders <- MCOrders
  Limits <- MCLimits
  Primes = {11, 13, 17}
  Attempts = 2
  Moduli = {7, 9, 13, 15, 17, 21, 25}
  KaratsubaThreshold = 1
  KroneckerThreshold = 4
  LimbBits = 2
  ReciprocalThreshold = 3
  MaximumWindowBits = 4
  Quotients <- MCQuotients
  Exponents = {0, 1, 7, 23, 45, 119}
  Targets <- MCTargets
  SplitAttempts = 2
  Extractions <- MCExtractions
  SmoothBound = 23
  WordBits = 2
  WordBytes = 2
INVARIANTS
  AdmissibleOnce
  PrimesMatch
  WitnessExactly
  CoefficientsComplete
  AcceptedExactly
  FastPathsExact
  NothingLost
  SmoothPartsExact
CHECK_DEADLOCK FALSE
