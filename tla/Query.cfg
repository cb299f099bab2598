SPECIFICATION Spec
CONSTANTS
  q1 = q1
  q2 = q2
  w1 = w1
  Query = {q1, q2}
  Writer = {w1}
  Client = {c1, c2}
  Nobody = Nobody
  Tables <- MCTables
  TextColumn <- MCTextColumn
  Intents <- MCIntents
  Contents <- MCContents
  Outputs <- MCOutputs
  NewRow <- MCNewRow
  DataSources <- MCDataSources
  MaxFaults = 1
  MaxRowsPerNode = 3
  BatchSize = 2
  MemoryLimit = 2
INVARIANTS AnswersCorrect BudgetExact ProtocolKept FiltersMeanTheSame SplitQueriesKeepJoin
CHECK_DEADLOCK FALSE
