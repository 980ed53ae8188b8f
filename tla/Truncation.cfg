\* The deployed limits: eight memories recalled, eight uses of a session.
SPECIFICATION Spec
CONSTANTS
    None = None
    t1 = t1
    t2 = t2
    r1 = r1
    r2 = r2
    r3 = r3
    r4 = r4
    r5 = r5
    r6 = r6
    r7 = r7
    r8 = r8
    r9 = r9
    near = near
    far = far
    publish = publish
    Topic <- TopicValues
    Query <- QueryValues
    Score <- ScoreValues
    ReceiptId <- ReceiptIds
    Tenant <- OneTenant
    Request <- NineRequests
    ClientDraft <- DenialAndPermissions
    PermissionTopic = near
    AudienceTopic = near
    RecallLimit = 8
    Floor = 1
    HourlyLimit = 20
    WindowLen = 60
    RowTTL = FALSE
    MaxTime = 0
    Workers = 1
    TTL = 120
    UseLimit = 8
    Skew = 0
    Archive = TRUE
CONSTRAINT NoDetours
PROPERTIES
    AnyRelevantDenialWins
CHECK_DEADLOCK TRUE
