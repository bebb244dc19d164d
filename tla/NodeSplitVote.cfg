SPECIFICATION SplitVoteSpec
CONSTANTS
    a = a
    b = b
    c = c
    x = x
    y = y
    Nil = Nil
    Noop = Noop
    Server <- Trio
    Command <- OneCommand
    Campaigns <- NoCampaigns
    MaxLogLength = 1
    Faulty <- OnlyC
    Lossy <- FromC
    Crashing <- OnlyC
    AutomaticTimers = TRUE
INVARIANTS SentIsDurable BatchIsAcceptable
CHECK_DEADLOCK FALSE
VIEW Relevant
