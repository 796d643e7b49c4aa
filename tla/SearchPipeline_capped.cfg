SPECIFICATION FairSpec
CONSTANTS
  First = 3
  End = 6
  Fates = {"sound_reject_many_traces", "verified_certificate"}
  SkipIncomplete = FALSE
  CurveThreads = 2
  CheckpointEvery = 2
  MaxCurves = 1
  OrderedRenames = TRUE
  NoFile = NoFile
  NoReport = NoReport
  MaxFaults = 0
  MaxPowerLosses = 0
PROPERTIES
  SearchSettles
