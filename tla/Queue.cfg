SPECIFICATION Spec
CONSTANTS
  c1 = c1
  c2 = c2
  s1 = s1
  s2 = s2
  h1 = h1
  h2 = h2
  NULL = NULL
  Clients = {c1, c2}
  Servers = {s1}
  Heap = {h1, h2}
  TimedClients = {}
  TimedServers = {s1}
  VClients = {c1}
  MaxRcvid = 2
  MaxNoReply = 1
  MaxSignals = 1
  MaxLeaks = 1
  MaxExcess = 1
INVARIANT ChannelRefs
INVARIANT NoReplyAccounting
INVARIANT CounterCoversQueue
 
INVARIANT RcvidUnique
CONSTRAINT UpToTheRace
CHECK_DEADLOCK FALSE
