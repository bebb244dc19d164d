CONSTANTS
    a = a
    b = b
    c = c
    x = x
    Server <- Trio
    Command <- OneCommand
    Nil = Nil
    Noop = Noop
    Campaigns <- FirstTerm
    Restarts <- FirstTerm
    MaxLogLength = 2
SPECIFICATION Spec
SYMMETRY Symmetry
INVARIANTS TypeOK ElectionSafety OneVotePerTerm AppendCoversCommit
PROPERTIES LeaderNeverGoesBack
CHECK_DEADLOCK FALSE
