\* The store under arbitrary calls: two tenants, three memories each.
SPECIFICATION StoreSpec
CONSTANTS
    None = None
    t1 = t1
    t2 = t2
    r1 = r1
    about = about
    Tenant <- TenantValues
    ReceiptId <- ReceiptValues
    Topic <- TopicValues
    Query <- QueryValues
    Score <- ScoreValues
    Draft <- DraftValues
    RecallLimit = 2
    Floor = 1
    HourlyLimit = 2
    WindowLen = 2
    RowTTL = TRUE
    MaxTime = 2
    MaxUses = 1
    MaxMemories = 3
    MaxAttempts = 3
INVARIANTS
    StoreTypeOK
    VersionCountsMemories
    SupersededOnce
PROPERTIES
    RecordsPermanent
CHECK_DEADLOCK FALSE
