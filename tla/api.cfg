\* A scenario for each part of the API; two processes.
SPECIFICATION ApiSpec
CONSTANTS
    p1 = p1
    p2 = p2
    c1 = c1
    c2 = c2
    x1 = x1
    a = a
    w = w
    owner = owner
    member1 = member1
    t1 = t1
    t2 = t2
    u1 = u1
    u2 = u2
    u3 = u3
    Process <- MCProcess
    Budgets <- Scenarios
    Actions <- MCAction
    Workflows <- MCWorkflow
    Documents <- MCDocuments
    DynamicAction <- MCAction
    MaxSource = 2
    MaxText = 4
    Project <- MCProject
    Owner = owner
    Trigger <- MCTrigger
    Client <- MCClient
    ExecutionId <- MCExecution
    MaxSecond = 1
    Row <- MCRow
    Limit = 2
    Inbound <- MCInbound
    Join <- MCJoin
    Branches <- MCBranches
CHECK_DEADLOCK FALSE
INVARIANTS
    CopiesAgree
    TriggersCanStart
    AnswersAreTrue
    JoinLocksInv
