SPECIFICATION PageSpec
CONSTANTS
    Threads = {A, B}
    First = A
    NoThread = none
    MaxTurns = 2
    MaxSeq = 3
    MaxAttempts = 2
    MaxTroubles = 2
    MaxClicks = 3
    Outcomes = {"completed", "cancelled"}
CONSTRAINT Apart
INVARIANTS
    AppliedInOrder
    CancelledIsAuthoritative
    ReconciledShowsAll
    NoticesAreTrue
CHECK_DEADLOCK FALSE
PROPERTIES
    EveryRequestReturns
