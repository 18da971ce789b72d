SPECIFICATION FairSpec
CONSTANTS
  MaxRuns = 1
  q1 = q1
  q2 = q2
  Requests <- OneRequest
  NoRequest = NoRequest
  OldMap = "devices"
  TaskKinds = {}
CHECK_DEADLOCK FALSE
PROPERTY EveryStopResolves
