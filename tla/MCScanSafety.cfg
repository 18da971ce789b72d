SPECIFICATION SafetySpec
CONSTANTS
  MaxRuns = 2
  q1 = q1
  q2 = q2
  Requests <- TwoRequests
  NoRequest = NoRequest
  OldMap = "devices"
  TaskKinds = {"recompute", "rescore"}
CHECK_DEADLOCK FALSE
INVARIANT FilesAgree
INVARIANT TaskSeesCurrentFiles
INVARIANT RefinersHaveAnOwner
INVARIANT UnsuccessfulLeavesNoTrace
INVARIANT StoppedAndToldRightly
PROPERTY KeepsTheLock
SYMMETRY Alike
