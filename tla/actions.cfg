\* A synchronous and an asynchronous action, or one started by hand; one executor; one crash,
\* stop or lost message, one late heartbeat, one result reported by an operator.
SPECIFICATION ActionFairSpec
CONSTANTS
    a1 = a1
    a2 = a2
    a3 = a3
    e1 = e1
    Action <- MCAction
    Sync <- MCSync
    Owned <- MCOwned
    Together <- MCTogether
    Executor <- OneExecutor
    NoExecutor = NoExecutor
    MaxFault = 1
    MaxLate = 1
    MaxReport = 1
CHECK_DEADLOCK FALSE
INVARIANTS
    ActionInv
PROPERTIES
    LivingNotFailed
    TaskLifecycle
    SyncTasksEnd
