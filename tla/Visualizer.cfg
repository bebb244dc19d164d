SPECIFICATION Spec
CONSTANTS
    page = page
    other = other
    stream = stream
    Server <- Members
    Talk <- RequestsAndAnswers
    Client = {page, other}
    Stream = {stream}
    MaxId = 2
    MaxBurst = 2
    DrainLimit = 1
    MaxProposals = 1
INVARIANTS TypeOK IdsAreDistinct CutIsClean FlagsAreTrue StreamsAreCurrent
PROPERTIES IdIsNeverReused EveryRequestIsAnswered
CHECK_DEADLOCK FALSE
