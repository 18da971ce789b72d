SPECIFICATION Spec
CONSTANTS
  sw = sw
  h = h
  p1 = p1
  x1 = x1
  x2 = x2
  s1 = s1
  Nodes = {sw, h}
  Graphs <- Places
  Ports = {p1}
  StrangeAgents = {}
  StrangeClients = {s1}
  Threshold = 2
  MaxAge = 1
  MaxReasons = 1
  HasSnmp = TRUE
  UseAgents = TRUE
  None = None
INVARIANT InactiveForAReason
INVARIANT LiveReplyWins
PROPERTY SuggestionsStand
