SPECIFICATION FairSpec
CONSTANTS
  First = 3
  End = 6
  Fates = {"no_rational_weber_lift", "candidate_limit", "verified_certificate"}
  SkipIncomplete = TRUE
  CurveThreads = 2
  CheckpointEvery = 2
  MaxCurves = 2
  OrderedRenames = FALSE
  NoFile = NoFile
  NoReport = NoReport
  MaxFaults = 1
  MaxPowerLosses = 2
INVARIANT
  SyncsOrderPublication
PROPERTY
  SearchSettles
