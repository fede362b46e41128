SPECIFICATION Spec
CONSTANTS
    MaxLegs = 2
    MaxReports = 3
    MaxMishaps = 1
    Backlog = 1
    StallTurns = 1
    Tools <- MCTools
    Claims = {"proven", "claimed"}
    Faults = {"store", "patience", "restart"}
INVARIANTS
    TypeOK
    HealthIsRecomputable
    GenesisAgrees
    LostStandsUntilProgress
    
    

    
CHECK_DEADLOCK FALSE
