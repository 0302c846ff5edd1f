\* Two engine processes, two jobs, one slow job, one crash, stop or failed
\* preparation.
SPECIFICATION Spec
CONSTANTS
    p1 = p1
    p2 = p2
    j1 = j1
    j2 = j2
    Proc <- Procs
    Job <- Jobs
    NoJob = NoJob
    NoProc = NoProc
    BatchSize = 2
    MaxSlow = 1
    MaxFailure = 1
SYMMETRY Symmetry
CHECK_DEADLOCK FALSE
INVARIANTS
    ExclusiveCapture
    OneCallPerCapture
PROPERTIES
    KeepsPromise
