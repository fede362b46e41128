SPECIFICATION Spec
CONSTANTS
    Runs <- MCOneRun
    Providers <- MCProviders
    ProviderOf <- MCProviderOf
    DependsOn <- MCNoDependency
    Priority <- MCPriority
    SessionIds = {1, 2}
    RetryBudget = 2
    MaxConcurrent = 1
    Capacity <- MCOneEach
    AvailableWorktrees = 1
    MaxLiveSessions = 2
    Operations = {"discard", "cancel", "escalate", "answer", "retry", "pause", "stop", "worktree"}
    Faults = {"launch", "admit", "setup", "report", "answer", "timer", "reopen"}
    MaxLegs = 3
    MaxQuestions = 1
    MaxRestarts = 1
INVARIANTS
    TypeOK
    LegOpenIffRunning
    ChargedWithinBudget
PROPERTIES
    HistoryIsFinal
    KeepsItsPromise
CHECK_DEADLOCK FALSE
