\* Runs of the bootstrap, cut short and overlapping, and a process that starts.
SPECIFICATION Spec
CONSTANTS
    None = None
    recalllease = recalllease
    staging = staging
    p1 = p1
    p2 = p2
    o1 = o1
    o2 = o2
    lambda = lambda
    Database <- TwoDatabases
    AppDatabase = recalllease
    Password <- TwoPasswords
    Operator <- TwoOperators
    Process <- OneProcess
    MaxRuns = 3
INVARIANTS
    DeploymentTypeOK
    ServesOnlyComplete
    FinishedIsReady
CHECK_DEADLOCK FALSE
