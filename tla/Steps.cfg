SPECIFICATION FairSpec
CONSTANTS
    Graphs <- MCGraphsSet
    Node <- MCNode
    OutKinds <- MCOutKinds
    MaxLLMCalls = 2
    MaxIterations = 2
    MaxParallelBranches = 2
    MaxItems = 1
INVARIANTS TypeOK CallBound OutcomeJustified UntakenNotRun MergeComplete
PROPERTIES RunsAsPromised Termination
