\* The history list's cursor outlives a change of the filters.
SPECIFICATION HSpec
CONSTANTS
  None = None
  NRuns = 3
  Unusable = {}
  Filters = {"all", "odd"}
  NoFilter = "all"
  Agents = {1, 2}
  FirstAgent = 1
  PageSize = 1
  Points = 2
  MaxInputs = 3
  MaxFailures = 0
  Matches <- Odd
INVARIANT NoStaleCursor
\* The inputs are bounded.
CHECK_DEADLOCK FALSE
