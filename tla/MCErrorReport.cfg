SPECIFICATION ReportSpec
CONSTANTS
  t1 = t1
  t2 = t2
  N = 2
  Threads <- MCThreads
  FineCells <- MCFineCells
  Nodes <- MCNodes
  NodesOf <- MCNodesOf
  CoarseOf <- MCCoarseOf
CHECK_DEADLOCK FALSE
INVARIANT OwnCorrection
INVARIANT EveryNodeFromItsCell
INVARIANT LookupsSucceed
INVARIANT ErrorsOfAllSolutions
PROPERTY ReportEnds
