SPECIFICATION WSpec
CONSTANTS
  Datasets = {d1}
  Runs = {r1, r2}
  Keys = {k1, k2}
  Workers = {w1, w2}
  Stages = {"PREPROCESSING", "TESTING"}
  FirstStage = "PREPROCESSING"
  StageOrder <- TwoStages
  PreflightCapacity = 1
  WaitCapacity = 1
  LeaseTicks = 1
  MaxLag = 1
  None = None
SYMMETRY Symmetric
INVARIANTS
  WTypeOK
  SoleExecutor
  PublishOnce
  CommittedIsPublished
  FailedLeavesNothing
  StartedWithRenewal
