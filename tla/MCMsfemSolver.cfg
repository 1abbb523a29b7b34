SPECIFICATION FairSpec
CONSTANTS
  t1 = t1
  t2 = t2
  t3 = t3
  c1 = c1
  c2 = c2
  c3 = c3
  Threads <- MCThreads
  Cells <- MCCells
  BoundaryCells <- MCBoundary
  NumDofs = 4
  Oversampling = TRUE
  MaxRuns = 2
CHECK_DEADLOCK FALSE
INVARIANT TypeOK
INVARIANT CoarseSystemFresh
INVARIANT LoadsSucceed
INVARIANT StoreHoldsOneSave
PROPERTY CallEnds
PROPERTY ImplementsMsfemRun
