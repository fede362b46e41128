SPECIFICATION Spec
CONSTANTS
    Runs <- MCOneRun
    Providers <- MCProviders
    ProviderOf <- MCProviderOf
    DependsOn <- MCNoDependency
    Priority <- MCPriority
    SessionIds = {1, 2}
    RetryBudget = 1
    MaxConcurrent = 2
    Capacity <- MCTwoEach
    AvailableWorktrees = 3
    MaxLiveSessions = 2
    Operations = {"retry"}
    Faults = {"setup"}
    MaxLegs = 2
    MaxQuestions = 0
    MaxRestarts = 0
INVARIANTS
    RunningIsExecuted
CHECK_DEADLOCK FALSE
