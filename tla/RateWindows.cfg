\* Creations that overlap and are retried across the end of a window, and their end.
SPECIFICATION FairSpec
CONSTANTS
    None = None
    t1 = t1
    t2 = t2
    c1 = c1
    c2 = c2
    c3 = c3
    a1 = a1
    about = about
    Tenant <- TwoTenants
    Caller <- TwoCallers
    ReceiptId <- NoReceipt
    Topic <- TopicValues
    Query <- NoQuery
    Score <- ScoreValues
    Draft <- PermissionOnly
    RecallLimit = 2
    Floor = 1
    HourlyLimit = 1
    WindowLen = 1
    RowTTL = TRUE
    MaxTime = 1
    PoolSize = 2
    Attempts = 4
    Budget = 1
    MaxMemories = 0
INVARIANTS
    SessionsWithinLimit
PROPERTIES
    EveryCallReturns
CHECK_DEADLOCK TRUE
