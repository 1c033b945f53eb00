SPECIFICATION Spec
CONSTANTS
  Datasets = {d1, d2}
  Runs = {r1, r2}
  Keys = {k1, k2}
  Workers = {w1, w2}
  Stages = {"PREPROCESSING", "TESTING"}
  FirstStage = "PREPROCESSING"
  PreflightCapacity = 1
  WaitCapacity = 1
  LeaseTicks = 1
  MaxLag = 1
  None = None
SYMMETRY Symmetric
INVARIANTS
  TypeOK
  SingleExecutionSlot
  RunFollowsJob
  DatasetFollowsPreflight
  CancellationIntentWins
PROPERTIES
  SettledIsFinal
