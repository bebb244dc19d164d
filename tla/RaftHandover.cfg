CONSTANTS
    a = a
    b = b
    c = c
    x = x
    Server <- Trio
    Command <- OneCommand
    Nil = Nil
    Noop = Noop
    Campaigns <- Handover
    Restarts <- HandoverRestarts
    MaxLogLength = 1
SPECIFICATION FairSpec
VIEW Unspent
PROPERTIES LeaderBringsUpToDate
INVARIANTS LeaderCompleteness CommittedOnQuorum
CHECK_DEADLOCK FALSE
