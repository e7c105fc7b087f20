SPECIFICATION FairSpec
CONSTANTS
  w1 = w1
  w2 = w2
  r1 = r1
  r2 = r2
  k1 = k1
  k2 = k2
  k3 = k3
  k4 = k4
  k5 = k5
  k6 = k6
  NULL = NULL
  Writers = {w1, w2}
  Readers = {r1, r2}
  Conns = {k1,k2,k3}
  InitialSize = 2
  MaxConnections = 4
INVARIANT TypeOK
INVARIANT ReadersSafe
INVARIANT SlotsDisjoint
INVARIANT CoidStable
INVARIANT MaxCovers
PROPERTY WritersFinish
CHECK_DEADLOCK FALSE
