SPECIFICATION FairSpec
CONSTANTS
  Procs <- MCProcs
  Rows <- MCRows
  Owner <- MCOwner
  Block <- MCBlock
  Script <- MCScript
CHECK_DEADLOCK FALSE
INVARIANT FieldIsWhole
INVARIANT GetsReadTheirField
PROPERTY ScriptEnds
