SPECIFICATION WSpec
CONSTANTS
  Datasets = {d1}
  Runs = {r1}
  Keys = {k1}
  Workers = {w1}
  Stages = {"PREPROCESSING", "TESTING"}
  FirstStage = "PREPROCESSING"
  StageOrder <- TwoStages
  PreflightCapacity = 1
  WaitCapacity = 1
  LeaseTicks = 1
  MaxLag = 0
  None = None
SYMMETRY Symmetric
INVARIANTS
  CancelledCommitsNoManifest
