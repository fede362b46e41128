SPECIFICATION FairSpec
CONSTANTS
    Runs = {1, 2}
    DependsOn <- MCChain
    Checkout = "main"
    Operations = {}
    Faults = {}
    MaxCommits = 1
    MaxApprovals = 1
    MaxTries = 1
    MaxFailures = 0
PROPERTIES
    DependentIsAdmitted
CHECK_DEADLOCK FALSE
