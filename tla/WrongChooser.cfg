SPECIFICATION PageSpec
CONSTANTS
    Threads = {A, B}
    First = A
    NoThread = none
    MaxTurns = 1
    MaxSeq = 2
    MaxAttempts = 1
    MaxTroubles = 1
    MaxClicks = 1
    Outcomes = {"completed"}
INVARIANTS
    ConfirmationAfterClick
CHECK_DEADLOCK FALSE
