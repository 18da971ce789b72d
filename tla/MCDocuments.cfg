CONSTANTS
  Reports <- MCReports
  Documents <- MCDocs
  FirstName = 50
  Agents = {a1}
  Hosts = {h1}
  Switches = {s1}
  Cves = {1, 2, 3}
  Urgent = {1}
  TopCves = 1
  Worlds <- MCWorlds
  Polled <- MCPolled
  BootWindow = 3
  MaxCuts = 1
  Nodes = {1, 2, 3, 4, 5}
  Flaws <- MCFlaws
  Keep = 2
  LastVlan = 9
  FirstSpare = 100
  ScoredGraphs <- MCGraphs
  TargetChoices <- MCMarks
  Feeds <- MCThreats
  Shown = 2
  SnmpAgents <- MCSnmpAgents
  Credentials = 2
  Walks <- MCWalks
  Limits = {0, 2}
  Repetitions = 2
  Bridges <- MCBridges
  Machines = {1, 2}
  FirstPortName = 100
  MaxVlans = 2
  MaxMoves = 1
SPECIFICATION MCSpec
INVARIANT WalksReadTheTable
INVARIANT PortsAreTheirOwn
INVARIANT OneOfEach
INVARIANT ReasonsAreTrue
PROPERTY EvidenceStands
INVARIANT ConcurrentIsSequential
INVARIANT FailureStaysInItsStage
INVARIANT ListedAreFound
INVARIANT PassesAreEarned
INVARIANT RoutesAreTheMostLikely
INVARIANT LivenessOnlyTakesStarts
INVARIANT ScoresHold
CHECK_DEADLOCK FALSE
