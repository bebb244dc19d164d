SPECIFICATION WithoutCSpec
CONSTANTS
    a = a
    b = b
    c = c
    x = x
    y = y
    Nil = Nil
    Noop = Noop
    Server <- Trio
    Command <- OneCommand
    Campaigns <- Handover
    MaxLogLength = 2
    Faulty <- Nobody
    Lossy <- Nobody
    Crashing <- OnlyA
    AutomaticTimers = TRUE
INVARIANTS TypeOK MachineFollowsDisk
PROPERTIES ImplementsRaft
CHECK_DEADLOCK FALSE
VIEW Relevant
