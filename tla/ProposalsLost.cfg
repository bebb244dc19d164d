SPECIFICATION FairSpec
CONSTANTS
    p = p
    q = q
    x = x
    y = y
    Nobody = Nobody
    Id <- TwoIds
    Bytes <- OneCommand
    Foreign <- OtherForeign
    Retention = 2
    MayFail = FALSE
    MaxCalls = 2
    MaxLength = 2
    MaxLeads = 2
PROPERTIES LeaderAnswers
CHECK_DEADLOCK FALSE
