SPECIFICATION FairSpec
CONSTANTS
    Graphs <- MCGraphsSet
    Node <- MCNode
    OutKinds <- MCOutKinds
    MaxLLMCalls = 2
    MaxIterations = 2
    MaxParallelBranches = 2
    MaxItems = 3
INVARIANTS ResolvedQuiet StartedOnce LLMOvershoot HardCapOnIterations
PROPERTIES Termination
