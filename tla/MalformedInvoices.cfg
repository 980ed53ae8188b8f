\* The same verifier, held to what the documentation promises of the invoices.
SPECIFICATION Spec
CONSTANTS
    Account <- Accounts
    ClusterName = "recalllease"
    MaxUnits = 3
    GiB = 4
    Lifetime = 2
    Timeout = 1
    Shapes <- DeepAndFlat
    MaxChanges = 2
INVARIANTS
    VerifiedOwesNothing
CHECK_DEADLOCK FALSE
