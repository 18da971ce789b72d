SPECIFICATION FairSpec
CONSTANTS
  h1 = h1
  r1 = r1
  Hosts <- OneHost
  Reasons <- OneReason
  MaxSaves = 1
  MinInterval = 1
  MaxBackoff = 2
  Others = {"manual", "update"}
  None = None
INVARIANT RoutesLeaveOutTheirOwn
PROPERTY ReasonIsFollowed
PROPERTY NoEndlessRescans
PROPERTY RoutesFollowUndisturbed
