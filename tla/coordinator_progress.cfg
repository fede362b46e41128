SPECIFICATION FairSpec
CONSTANTS
    Runs <- MCRuns
    Providers <- MCProviders
    ProviderOf <- MCProviderOf
    DependsOn <- MCNoDependency
    Priority <- MCPriority
    SessionIds = {1, 2}
    RetryBudget = 1
    MaxConcurrent = 1
    Capacity <- MCTwoEach
    AvailableWorktrees = 3
    MaxLiveSessions = 2
    Operations = {"answer", "retry"}
    Faults <- MCNoFaults
    MaxLegs = 2
    MaxQuestions = 1
    MaxRestarts = 1
INVARIANTS
    SlotsRespected
PROPERTIES
    QuotaParkEnds
    EligibleIsAdmitted
    InterruptedComesBack
