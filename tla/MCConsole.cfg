\* The data, parameter, queue and history views, one of them at a time.
SPECIFICATION CFairSpec
CONSTANTS
  None = None
  Datasets = {d1, d2}
  UploadLimit = 1
  MaxSize = 2
  LostAnswers = 1
  Values = {v1, v2}
  Allowed = {v1}
  Factory = v1
  Aliases = {n1}
  Saves = {s1, s2}
  ListLimit = 2
  MaxActs = 6
  MaxBroken = 1
  Tasks = {t1, t2}
  Calls = {c1, c2}
  MaxSteps = 3
  MaxClicks = 2
  MaxLost = 1
  NRuns = 2
  Unusable = {1}
  Filters = {"all", "odd"}
  NoFilter = "all"
  Agents = {1, 2}
  FirstAgent = 1
  PageSize = 1
  Points = 2
  MaxInputs = 3
  MaxFailures = 1
  Matches <- Odd
INVARIANTS
  ConsoleTypeOK
  StoredIsWhole
  RefusedLeavesNothing
  RegisteredHasSource
  ShowsLatestUpload
  OneVersionPerContent
  CopiesAreFaithful
  PendingExact
  NoDuplicateRows
  ReplayShowsSelection
  OneTimer
PROPERTIES
  VerdictIsShown
  RequestsSettle
  BoardCatchesUp
  PageFollowsQueue
\* The inputs are bounded: a desk where nothing is left to do stops.
CHECK_DEADLOCK FALSE
