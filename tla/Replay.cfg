\* The replay and the reset of either build, with requests that fail, are lost, late or refused.
SPECIFICATION FairSpec
CONSTANTS
    None = None
    publishing = publishing
    audience = audience
    publish = publish
    Topic <- TopicValues
    Query <- QueryValues
    Score <- ScoreValues
    Tenant <- Clicks4
    ReceiptId <- Clicks4
    PermissionTopic = publishing
    AudienceTopic = audience
    Publish = publish
    RecallLimit = 8
    Floor = 1
    HourlyLimit = 2
    WindowLen = 4
    RowTTL = TRUE
    MaxTime = 2
    TTL = 2
    UseLimit = 5
    SessionUseLimit = 4
    BrowserSkew = 0
    Pause = 1
    MaxClicks = 4
INVARIANTS
    ReplayTypeOK
    ReplayInv
    VerifiedIsRecorded
    DisplayIsOfSession
    FixtureIsOfSession
    RevokedOnce
    ReplayBlocks
    Blocking
PROPERTIES
    ButtonsComeBack
CHECK_DEADLOCK FALSE
