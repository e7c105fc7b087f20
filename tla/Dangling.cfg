SPECIFICATION Spec
CONSTANTS
  c1 = c1
  c2 = c2
  s1 = s1
  s2 = s2
  h1 = h1
  h2 = h2
  NULL = NULL
  Clients = {c1, c2}
  Servers = {s1}
  Heap = {}
  TimedClients = {c1}
  TimedServers = {}
  VClients = {}
  MaxRcvid = 2
  MaxNoReply = 1
  MaxSignals = 0
  MaxLeaks = 0
  MaxExcess = 1
INVARIANT NoDanglingAtAll
CHECK_DEADLOCK FALSE
