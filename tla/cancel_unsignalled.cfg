SPECIFICATION Spec
CONSTANTS
    Runs <- MCOneRun
    Providers <- MCProviders
    ProviderOf <- MCProviderOf
    DependsOn <- MCNoDependency
    Priority <- MCPriority
    SessionIds = {1, 2}
    RetryBudget = 1
    MaxConcurrent = 2
    Capacity <- MCTwoEach
    AvailableWorktrees = 3
    MaxLiveSessions = 2
    Operations = {"cancel"}
    Faults <- MCNoFaults
    MaxLegs = 2
    MaxQuestions = 0
    MaxRestarts = 0
INVARIANTS
    CancelledIsSignalled
CHECK_DEADLOCK FALSE
