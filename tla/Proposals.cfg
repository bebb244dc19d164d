SPECIFICATION FairSpec
CONSTANTS
    p = p
    q = q
    x = x
    y = y
    Nobody = Nobody
    Id <- OneId
    Bytes <- TwoCommands
    Foreign <- SameForeign
    Retention = 1
    MayFail = TRUE
    MaxCalls = 3
    MaxLength = 2
    MaxLeads = 2
INVARIANTS TypeOK EveryWaitIsOwed NothingOwedAfterStop ResultIsOfAppliedEntry OncePerLeadership
PROPERTIES InLogIsAnswered
CHECK_DEADLOCK FALSE
