SPECIFICATION FairSpec
CONSTANTS
  a = a
  b = b
  c = c
  x1 = x1
  x2 = x2
  x3 = x3
  x4 = x4
  x5 = x5
  n1 = n1
  n2 = n2
  w1 = w1
  w2 = w2
  Cids = {a, b, c}
  Ips = {x1, x2, x3, x4, x5}
  Names = {n1, n2}
  Workers = {w1, w2}
  MaxNodes = 4
  Networks <- AllNetworks
  None = None
  Unknown = Unknown
  Stop = Stop
CHECK_DEADLOCK FALSE
INVARIANT PolledByOne
INVARIANT EverySettledWhenDone
INVARIANT OneLinkPerPair
INVARIANT MapIsWhole
PROPERTY CrawlEnds
