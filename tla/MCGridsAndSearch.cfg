SPECIFICATION FairSpec
CONSTANTS
  N = 4
  ViewSize = 4
  Queries <- MCQueries
  Dims = {1, 2}
  MaxCells = 3
  MaxMicro = 3
  MaxLayers = 4
CHECK_DEADLOCK FALSE
INVARIANT IteratorValid
INVARIANT CurrentCellMatches
INVARIANT SearchSucceeds
INVARIANT OneRoundSuffices
INVARIANT CoveredIsCell
INVARIANT PatchOnRank
PROPERTY CallEnds
PROPERTY ImplementsCellSearch
