SPECIFICATION Spec
CONSTANTS
  N = 1
  ViewSize = 1
  Queries <- MCQueries
CHECK_DEADLOCK FALSE
INVARIANT SearchSucceeds
