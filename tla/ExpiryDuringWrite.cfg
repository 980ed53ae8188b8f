\* A session that expires between the start of a memory write and its commit.
SPECIFICATION Spec
CONSTANTS
    None = None
    t1 = t1
    t2 = t2
    c1 = c1
    c2 = c2
    c3 = c3
    a1 = a1
    about = about
    Tenant <- OneTenant
    Caller <- TwoCallers
    ReceiptId <- OneReceipt
    Topic <- TopicValues
    Query <- QueryValues
    Score <- ScoreValues
    Draft <- PermissionOnly
    RecallLimit = 2
    Floor = 1
    HourlyLimit = 1
    WindowLen = 2
    RowTTL = TRUE
    MaxTime = 2
    PoolSize = 2
    Attempts = 4
    Budget = 1
    MaxMemories = 1
PROPERTIES
    NoWriteAfterExpiry
CHECK_DEADLOCK TRUE
