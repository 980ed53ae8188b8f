\* One session, four requests, two at a time: a recall that leaves memories out, a
\* host clock that is ahead, and denials, and the permission, that start or end.
SPECIFICATION Spec
CONSTANTS
    None = None
    t1 = t1
    t2 = t2
    r1 = r1
    r2 = r2
    r3 = r3
    r4 = r4
    r5 = r5
    r6 = r6
    r7 = r7
    r8 = r8
    r9 = r9
    near = near
    far = far
    publish = publish
    Topic <- TopicValues
    Query <- QueryValues
    Score <- ScoreValues
    ReceiptId <- ReceiptIds
    Tenant <- OneTenant
    Request <- FourRequests
    ClientDraft <- PassingDenials
    PermissionTopic = near
    AudienceTopic = far
    RecallLimit = 2
    Floor = 1
    HourlyLimit = 1
    WindowLen = 4
    RowTTL = TRUE
    MaxTime = 1
    Workers = 2
    TTL = 1
    UseLimit = 3
    Skew = 1
    Archive = FALSE
SYMMETRY Symmetry
INVARIANTS
    AtMostOneReceipt
    Inv
PROPERTIES
    CommitIsCurrent
    DenialYieldsOnlyToNearer
    ImplementsLedger
CHECK_DEADLOCK TRUE
