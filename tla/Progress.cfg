\* Two sessions of one use, requests that cross them, their expiry and deletion under
\* requests that still use them, the archive, and the end of every request.
SPECIFICATION FairSpec
CONSTANTS
    None = None
    t1 = t1
    t2 = t2
    r1 = r1
    r2 = r2
    r3 = r3
    r4 = r4
    r5 = r5
    r6 = r6
    r7 = r7
    r8 = r8
    r9 = r9
    near = near
    far = far
    publish = publish
    Topic <- TopicValues
    Query <- QueryValues
    Score <- ScoreValues
    ReceiptId <- ReceiptIds
    Tenant <- TwoTenants
    Request <- ThreeRequests
    ClientDraft <- Denials
    PermissionTopic = near
    AudienceTopic = far
    RecallLimit = 2
    Floor = 1
    HourlyLimit = 1
    WindowLen = 1
    RowTTL = TRUE
    MaxTime = 2
    Workers = 2
    TTL = 1
    UseLimit = 1
    Skew = 1
    Archive = TRUE
CONSTRAINT InTurn
INVARIANTS
    BudgetNeverOverspent
    AnsweredIsWhole
    TypeOK
    Inv
    ArchiveAgreement
PROPERTIES
    TenantIsolation
    EveryRequestEnds
    ImplementsLedger
CHECK_DEADLOCK TRUE
