SPECIFICATION Spec
CONSTANTS
    Graphs <- MCDirect
    Node <- MCNode
    OutKinds <- MCOutKinds
    MaxLLMCalls = 2
    MaxIterations = 2
    MaxParallelBranches = 2
    MaxItems = 1
INVARIANTS BranchesRun
