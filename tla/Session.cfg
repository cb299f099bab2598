SPECIFICATION Spec
CONSTANTS
    MaxTurns = 4
    SummarizedTurns = 2
    TurnBound = 8
INVARIANTS Chronological CompleteUnlessOverlap
CHECK_DEADLOCK FALSE
