SPECIFICATION Spec
CONSTANTS
  First = 3
  End = 5
  Fates = {"sound_reject_many_traces", "verified_certificate"}
  SkipIncomplete = FALSE
  CurveThreads = 1
  CheckpointEvery = 1
  MaxCurves = 2
  OrderedRenames = FALSE
  NoFile = NoFile
  NoReport = NoReport
  MaxFaults = 1
  MaxPowerLosses = 1
INVARIANTS
  ArtifactsPrecedeCursor
