\* Two upstream tasks, two jobs in batches of two; two processes without faults,
\* or one process with one slow job, one crash or failed preparation, and
\* one transaction rolled back.
SPECIFICATION RefreshFairSpec
CONSTANTS
    p1 = p1
    p2 = p2
    j1 = j1
    j2 = j2
    r1 = r1
    r2 = r2
    Proc <- Procs
    Job <- Jobs
    Request <- Requests
    Worlds <- MCWorlds
    NoJob = NoJob
    NoProc = NoProc
    BatchSize = 2
    MaxSlow = 1
    MaxFailure = 1
    MaxRollback = 1
CHECK_DEADLOCK FALSE
INVARIANTS
    RefreshInv
PROPERTIES
    EveryCompletionSeen
    CommittedJobRuns
