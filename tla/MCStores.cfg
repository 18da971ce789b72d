CONSTANTS
  Every <- MCEvery
  Hours = 2
  Hour = 2
  EarlyBy = 1
  SetBeforeLoad = FALSE
  MaxTime = 5
  MaxSets = 2
  MaxRestarts = 1
  MaxPending = 2
  Keep = 2
  MaxScans = 4
  MaxFaults = 2
  Requests = {r1, r2, r3}
  Keys = {k1, k2}
  Statuses = {"done"}
  Devices <- MCDevices
  Names = {"dictionary"}
  Spacing = 1
  Waits <- MCWaits
  Timeout = 2
  Grace = 1
  Budget = 4
  MaxPages = 2
  RetryFailed = 6
  FreshFound = 12
  FreshEmpty = 8
  Gaps = {7, 13}
  Cves = {c1, c2, c3}
  Workers = 2
  Early = {c1, c2}
  Fresh = 2
  MaxVersion = 3
  Agents = {0, 1, 2, 3}
  Docs = {1, 2, 3}
  AgentPage = 1
  AgentMaxPages = 3
  PageSize = 1
  Cap = 2
  LoginAttempts = 2
  MaxChanges = 1
  ServerPackages <- MCPackages
  OsvStates <- MCOsv
  AliasesOf <- MCAliases
  Direct = {"cve"}
  OsvBatch = 2
  OsvFresh = 2
  OsvTicksMax = 3
SPECIFICATION MCSpec
INVARIANT HistoryHolds
INVARIANT NoStatusLost
PROPERTY ScheduleKeeps
INVARIANT NeverLosesCves
INVARIANT StageEndsInTime
INVARIANT RecordsHold
INVARIANT WazuhHolds
INVARIANT CachesStayWhole
PROPERTY Considerate
CHECK_DEADLOCK FALSE
