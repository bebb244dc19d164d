SPECIFICATION FairWithoutCSpec
CONSTANTS
    a = a
    b = b
    c = c
    x = x
    y = y
    Nil = Nil
    Noop = Noop
    Server <- Trio
    Command <- OneCommand
    Campaigns <- TwoCampaigns
    MaxLogLength = 2
    Faulty <- OnlyB
    Lossy <- BetweenBoth
    Crashing <- OnlyB
    AutomaticTimers = TRUE
PROPERTIES ReadyIsFinished FailureIsNoticed
CHECK_DEADLOCK FALSE
