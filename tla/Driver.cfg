SPECIFICATION Spec
CONSTANTS
  p1 = p1
  p2 = p2
  f1 = f1
  f2 = f2
  f3 = f3
  e1 = e1
  e2 = e2
  ch1 = ch1
  ch2 = ch2
  NULL = NULL
  Pids = {p1, p2}
  Files = {f1, f2, f3}
  Entries = {e1, e2}
  Chans = {ch1, ch2}
  StartChannels = 0
  LastChannels = 1
  MaxChid = 2
  MaxPolls = 1
  SerialOpen = TRUE
  MaxRecords = 2
SYMMETRY Symmetry
INVARIANT EntryRefsExact
INVARIANT ListExact
INVARIANT PollRecordsLive
INVARIANT ChannelRefsExact
INVARIANT ConnectionsNotRedirected
CHECK_DEADLOCK FALSE
