SPECIFICATION Spec
CONSTANTS
    Runs <- MCRuns
    Providers <- MCProviders
    ProviderOf <- MCProviderOf
    DependsOn <- MCNoDependency
    Priority <- MCPriority
    SessionIds = {1, 2}
    RetryBudget = 1
    MaxConcurrent = 2
    Capacity <- MCTwoEach
    AvailableWorktrees = 3
    MaxLiveSessions = 2
    Operations = {"cancel", "escalate", "answer", "retry", "stop"}
    Faults = {"launch"}
    MaxLegs = 2
    MaxQuestions = 1
    MaxRestarts = 1
INVARIANTS
    RunningIsExecuted
    ReportsReachTheirOwnLeg
    ParkedOnAnOpenQuestion
    ParkedOnACappedProvider
    SuspendedIsSignalled
CHECK_DEADLOCK FALSE
