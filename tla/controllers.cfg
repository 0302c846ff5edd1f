\* Eight reverse workflows with one pause, or two reruns or skips; seven direct
\* workflows with engine commands, and one pause or stop by an operator.
SPECIFICATION ControllersFairSpec
CONSTANTS
    A = A
    B = B
    C = C
    T = T
    Nobody = Nobody
    Task <- MCTask
    Publisher <- MCTask
    Documents <- MCDocuments
    Budgets <- MCBudgets
    Name <- MCTask
    Scenarios <- MCScenarios
CHECK_DEADLOCK FALSE
INVARIANTS
    ReverseInv
    CommandsInv
PROPERTIES
    ReverseEnds
    CommandsEnd
