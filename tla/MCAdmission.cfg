SPECIFICATION Spec
CONSTANTS
  Datasets = {d1, d2}
  Runs = {r1, r2, r3}
  Keys = {k1, k2, k3}
  Workers = {w1}
  Stages = {"PREPROCESSING"}
  FirstStage = "PREPROCESSING"
  PreflightCapacity = 1
  WaitCapacity = 1
  LeaseTicks = 1
  MaxLag = 1
  None = None
SYMMETRY Symmetric
INVARIANTS
  RunsUseValidDatasets
  CapacityRespected
  FifoStart
  OneRunPerKey
PROPERTIES
  ServesAsPromised
