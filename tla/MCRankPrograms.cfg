SPECIFICATION Spec
CONSTANTS
  r1 = r1
  r2 = r2
  r3 = r3
  Ranks <- MCRanks
  Mains <- MCMains
CHECK_DEADLOCK FALSE
 
INVARIANT MismatchNeedsLoneFailure
PROPERTY RunEnds
