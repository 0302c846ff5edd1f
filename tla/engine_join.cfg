\* A -> J, B -> C -> J (join: all), B -> D on error; transactions overlap, an
\* operator stops the workflow once and reports one result.
SPECIFICATION EngineFairSpec
CONSTANTS
    A = A
    B = B
    C = C
    D = D
    J = J
    NoTask = NoTask
    Task <- Tasks
    OnSuccess <- Success
    OnError <- ErrorOfB
    OnComplete <- NoClause
    Join <- Joins
    Needed <- All
    Outcome <- Ends
    Serial = FALSE
    MaxPause = 0
    MaxStop = 1
    MaxExtra = 1
CHECK_DEADLOCK FALSE
INVARIANTS
    RunningHasWork
    EngineInv
    StartedOnce
PROPERTIES
    EndIsFinal
    WorkflowEnds
