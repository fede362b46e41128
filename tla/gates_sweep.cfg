SPECIFICATION FairSpec
CONSTANTS
    Runs = {1}
    DependsOn <- MCNoDependency
    Checkout = "main"
    Operations = {"expiry", "retry", "cancel", "cleaning", "lands"}
    Faults = {"crash", "store", "git", "scope", "conflict", "hands"}
    MaxCommits = 2
    MaxApprovals = 1
    MaxTries = 2
    MaxFailures = 2
INVARIANTS
    TypeOK
    SpentMeansLanded
    ActiveHasDirectory
PROPERTIES
    
    RefusedIsNeverSpent
    ReleasedOnlyLanded
    UncommittedWorkSurvives
    AuthorizationIsJudged
    
CHECK_DEADLOCK FALSE
