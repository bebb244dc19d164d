SPECIFICATION FairSpec
CONSTANTS
    a = a
    b = b
    c = c
    x = x
    y = y
    Nil = Nil
    Noop = Noop
    Server <- Solo
    Command <- TwoCommands
    Campaigns <- SoloTerms
    MaxLogLength = 3
    Faulty <- Solo
    Lossy <- Nobody
    Crashing <- Solo
    AutomaticTimers = FALSE
PROPERTIES FailureIsNoticed
CHECK_DEADLOCK FALSE
