SPECIFICATION Spec
CONSTANTS
    a = a
    b = b
    Nil = Nil
    Candidate <- TwoCandidates
    Batches <- SomeBatches
    MaxTerm = 1
    MaxIndex = 2
    MaxHandles = 2
INVARIANTS TypeOK OwnerKnowsStorage
PROPERTIES RefusedChangesNothing NothingGoesBack StaysStartable
CHECK_DEADLOCK FALSE
SYMMETRY Symmetry
