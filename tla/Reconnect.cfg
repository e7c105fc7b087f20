SPECIFICATION FairSpec
CONSTANTS
  p1 = p1
  p2 = p2
  p3 = p3
  f1 = f1
  f2 = f2
  f3 = f3
  f4 = f4
  e1 = e1
  e2 = e2
  e3 = e3
  ch1 = ch1
  ch2 = ch2
  t1 = t1
  t2 = t2
  t3 = t3
  t4 = t4
  NULL = NULL
  Pids = {p1, p2}
  Files = {f1, f2}
  Entries = {e1, e2}
  Chans = {}
  StartChannels = 0
  LastChannels = 0
  MaxChid = 0
  MaxPolls = 0
  Threads = {t1, t2, t3}
  ProcessOf <- TwoThreadsInOne
  Fds = {1, 2}
  Cmd = {"Other"}
  ReusePids = FALSE
  OpenMayFail = TRUE
  ServersSayENOSPC = TRUE
  MaxForks = 1
  MaxStarts = 1
VIEW InUse
INVARIANT OneConnection
INVARIANT ForgottenUnlessShared
PROPERTY CallsReturn
CHECK_DEADLOCK FALSE
