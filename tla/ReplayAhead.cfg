\* The browser's clock is ahead of the service's by more than the pause.
SPECIFICATION Spec
CONSTANTS
    None = None
    publishing = publishing
    audience = audience
    publish = publish
    Topic <- TopicValues
    Query <- QueryValues
    Score <- ScoreValues
    Tenant <- Clicks3
    ReceiptId <- Clicks3
    PermissionTopic = publishing
    AudienceTopic = audience
    Publish = publish
    RecallLimit = 8
    Floor = 1
    HourlyLimit = 2
    WindowLen = 4
    RowTTL = TRUE
    MaxTime = 3
    TTL = 3
    UseLimit = 8
    SessionUseLimit = 8
    BrowserSkew = 2
    Pause = 1
    MaxClicks = 3
INVARIANTS
    ReplayBlocks
CHECK_DEADLOCK FALSE
