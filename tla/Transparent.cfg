SPECIFICATION Spec
CONSTANTS
  p1 = p1
  p2 = p2
  p3 = p3
  f1 = f1
  f2 = f2
  f3 = f3
  f4 = f4
  e1 = e1
  e2 = e2
  e3 = e3
  ch1 = ch1
  ch2 = ch2
  t1 = t1
  t2 = t2
  t3 = t3
  t4 = t4
  NULL = NULL
  Pids = {p1, p2, p3}
  Files = {f1, f2, f3}
  Entries = {e1, e2, e3}
  Chans = {ch1}
  StartChannels = 1
  LastChannels = 1
  MaxChid = 1
  MaxPolls = 0
  Threads = {t1, t2, t4}
  ProcessOf <- ThreeProcesses
  Fds = {1, 2}
  Cmd = {"ChannelCreate"}
  ReusePids = FALSE
  OpenMayFail = FALSE
  ServersSayENOSPC = FALSE
  MaxForks = 2
  MaxStarts = 1
SYMMETRY Symmetry
INVARIANT ReconnectTransparent
INVARIANT ChannelsSurvive
CHECK_DEADLOCK FALSE
