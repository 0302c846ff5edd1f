\* A -> J, B -> J (join: all); transactions do not overlap, one pause: both inbound
\* tasks complete while the workflow is paused.
SPECIFICATION EngineFairSpec
CONSTANTS
    A = A
    B = B
    C = C
    D = D
    J = J
    NoTask = NoTask
    Task <- Three
    OnSuccess <- ToJoin3
    OnError <- NoClause3
    OnComplete <- NoClause3
    Join <- Joins
    Needed <- All
    Outcome <- Succeed3
    Serial = TRUE
    MaxPause = 1
    MaxStop = 0
    MaxExtra = 0
CHECK_DEADLOCK FALSE
PROPERTIES
    ResumedGoesOn
