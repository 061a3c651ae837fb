SPECIFICATION Spec
CONSTANTS
  Eok = 10
  Symbols = {1, 2}
  Sessions = {1, 2, 3, 18, 19}
  Jobs = {j1, j2}
  Universes <- TheUniverses
  IndexCodes = {1, 2}
  KnownCodes = {1}
  Studied <- TheConditions
  Followed <- TheStrategies
  Documents <- TheDocuments
  Requests = {q1, q2}
  MaxStrategies = 2
  MaxVersions = 4
  MaxRuns = 1
  Watched = {"a", "b"}
  Visits = {v1, v2}
  MaxLists = 2
  MaxItems = 3
INVARIANTS VersionsIncrease
CHECK_DEADLOCK FALSE
