SPECIFICATION Spec
CONSTANTS
  First = 3
  End = 7
  Fates = {"sound_reject_many_traces", "sea_level_limit_after_screen", "verified_certificate"}
  SkipIncomplete = FALSE
  CurveThreads = 3
  CheckpointEvery = 2
  MaxCurves = 3
  OrderedRenames = TRUE
  NoFile = NoFile
  NoReport = NoReport
  MaxFaults = 2
  MaxPowerLosses = 1
INVARIANTS
  TypeOK
  CheckpointsTruthful
  LowestWinnerPublished
  ArtifactsPrecedeCursor
  RecoveryUnambiguous
  OneLineLostPerFault
PROPERTIES
  ImplementsSequential
