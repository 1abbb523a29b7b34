SPECIFICATION ComparedSpec
CONSTANTS
  P = 101
  NumCells = 3
  Micro = 2
  Inverted <- MCInverted
  Layers = {0, 1}
  MaxCalls = 2
  Diffusions <- MCDiffusions
  Sources <- MCSources
  Boundaries <- MCBoundaries
  Configs <- MCConfigs
  AnyValue <- MCValues
CHECK_DEADLOCK FALSE
INVARIANT QuadraturePointsAgree
