CONSTANTS
    a = a
    b = b
    c = c
    x = x
    Server <- Trio
    Command <- OneCommand
    Nil = Nil
    Noop = Noop
    Campaigns <- ComeBack
    Restarts = {}
    MaxLogLength = 1
SPECIFICATION TwoLostLeadersSpec
VIEW Unspent
INVARIANTS StateMachineSafety NeverOverwritesCommitted LogMatching MatchIndexIsTrue
PROPERTIES CommittedIsStable
CHECK_DEADLOCK FALSE
