SPECIFICATION Spec
CONSTANTS
    p = p
    q = q
    x = x
    y = y
    Nobody = Nobody
    Id <- OneId
    Bytes <- TwoCommands
    Foreign <- SameForeign
    Retention = 1
    MayFail = FALSE
    MaxCalls = 2
    MaxLength = 2
    MaxLeads = 1
INVARIANTS ResultIsOfOwnBytes
CHECK_DEADLOCK FALSE
