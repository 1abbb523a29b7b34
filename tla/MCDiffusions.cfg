SPECIFICATION DiffusionsSpec
CONSTANTS
  MaxLog2Seg <- MCMaxLog2Seg
  MaxLog2Proc <- MCMaxLog2Proc
  Overlaps = {0, 1, 2}
  Threads = {1, 2}
  Blocks <- MCBlocks
  Ticks = 2
  Points <- MCPoints
  Files = {20, 36}
CHECK_DEADLOCK FALSE
INVARIANT OwnValue
INVARIANT DirectionsKept
INVARIANT BlockInterpolates
INVARIANT BlockSegmentsDistributed
