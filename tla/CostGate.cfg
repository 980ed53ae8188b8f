\* The verifier of the zero-cost boundary, over clouds that change as it asks.
SPECIFICATION FairSpec
CONSTANTS
    Account <- Accounts
    ClusterName = "recalllease"
    MaxUnits = 3
    GiB = 4
    Lifetime = 2
    Timeout = 1
    Shapes <- DeepAndFlat
    MaxChanges = 2
INVARIANTS
    VerifiedIsFree
    RejectedForCause
    GateInv
PROPERTIES
    GateEnds
CHECK_DEADLOCK FALSE
