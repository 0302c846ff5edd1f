\* A -> B, C; transactions do not overlap, one pause, one stop.
SPECIFICATION EngineFairSpec
CONSTANTS
    A = A
    B = B
    C = C
    D = D
    J = J
    NoTask = NoTask
    Task <- Fork
    OnSuccess <- ForkSuccess
    OnError <- NoClauseF
    OnComplete <- ForkComplete
    Join <- NoJoin
    Needed <- NoneNeeded
    Outcome <- EndsF
    Serial = TRUE
    MaxPause = 1
    MaxStop = 1
    MaxExtra = 0
CHECK_DEADLOCK FALSE
INVARIANTS
    PauseInv
