\* Three executions; scenarios for each service and for their combinations.
SPECIFICATION ServicesFairSpec
CONSTANTS
    en1 = en1
    en2 = en2
    p1 = p1
    p2 = p2
    t1 = t1
    t2 = t2
    j1 = j1
    j2 = j2
    Engine <- MCEngine
    Cleaner <- MCEngine
    Project <- MCProject
    Trigger <- MCTrigger
    Proc <- MCEngine
    Job <- MCJob
    Budgets <- Scenarios
    MaxExecs = 3
    Period = 2
    Lookahead = 2
    MaxTime = 3
    MaxGen = 2
    MaxJobs = 3
    MaxFinished = 1
    BatchSize = 1
    LegacyBatch = 2
    Ignored = {}
CHECK_DEADLOCK FALSE
INVARIANTS
    ServicesInv
    NothingRunsInMaintenance
PROPERTIES
    KeepsNewest
    ServicesLive
    KeepsPromise
    CommittedCallIsMade
