\* The memory and receipt transactions of two callers over one session.
SPECIFICATION Spec
CONSTANTS
    None = None
    t1 = t1
    t2 = t2
    c1 = c1
    c2 = c2
    c3 = c3
    a1 = a1
    about = about
    Tenant <- OneTenant
    Caller <- TwoCallers
    ReceiptId <- OneReceipt
    Topic <- TopicValues
    Query <- QueryValues
    Score <- ScoreValues
    Draft <- TimedDrafts
    RecallLimit = 2
    Floor = 1
    HourlyLimit = 1
    WindowLen = 2
    RowTTL = TRUE
    MaxTime = 1
    PoolSize = 2
    Attempts = 2
    Budget = 0
    MaxMemories = 2
SYMMETRY Symmetry
INVARIANTS
    CockroachTypeOK
    TransactionInv
    NoEffectRepeated
PROPERTIES
    SavedAsOfStart
CHECK_DEADLOCK TRUE
