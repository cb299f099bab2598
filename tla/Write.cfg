SPECIFICATION Spec
CONSTANTS
  Columns <- MCColumns
  BlockedCols <- MCBlocked
  EnumLower <- MCEnumLower
  BatchSize = 2
  Writer = {w1, w2}
  Node = {n1}
  PayloadOf <- MCPayloads
  InputRows <- MCRows
  FkCols = {"owner"}
  PoolMax = 3
  MaxIds = 2
  UseCalcite = TRUE
  MaxRuns = 1
  MaxErrors = 2
  MaxAttempts = 2
INVARIANTS PoolSound ParametersBound PlanKept EveryRowOnce
SYMMETRY Symm
CHECK_DEADLOCK FALSE
