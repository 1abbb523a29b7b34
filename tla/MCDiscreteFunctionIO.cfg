SPECIFICATION FairSpec
CONSTANTS
  t1 = t1
  t2 = t2
  k1 = k1
  k2 = k2
  k3 = k3
  Threads <- MCThreads
  Keys <- MCKeys
  MainThread = t1
  MaxRuns = 2
CHECK_DEADLOCK FALSE
INVARIANT EmplaceSucceeds
INVARIANT NoDanglingBackend
INVARIANT LaterWalksOnlyRead
PROPERTY BackendsKept
PROPERTY RunEndsClean
PROPERTY MCImplementsBackendMap
