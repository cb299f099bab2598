SPECIFICATION Spec
CONSTANTS
    Candidates <- MCCandidates
    Words <- MCWords
    MaxSteps = 3
INVARIANTS CycleReported GraphFaithful AlgorithmsCorrect
CHECK_DEADLOCK FALSE
