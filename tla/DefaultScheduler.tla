-------------------------- MODULE DefaultScheduler --------------------------
(***************************************************************************)
(* The default scheduler of an engine process: a job is written to the     *)
(* scheduled_jobs table inside the transaction of the caller and, at the   *)
(* same moment, pushed on a heap in the memory of the process.  Two        *)
(* threads of every process can run it: a worker of the local pool, when   *)
(* its time has come, and the job store checker, which picks up the jobs   *)
(* that nobody processed in time.  Whoever wants to run a job captures its *)
(* row first (UPDATE ... WHERE captured_at = <the value it read>).         *)
(*                                                                         *)
(* Clock values are abstracted to what the code compares: "phase" is how   *)
(* far a job is past its execute_at, a captured_at is the number of the    *)
(* capture (0 is NULL), and "lapsed" says that captured_job_timeout has    *)
(* passed since that capture.  The single UPDATE, DELETE and SELECT are    *)
(* atomic; everything between them interleaves.                            *)
(***************************************************************************)
EXTENDS Integers, FiniteSets

CONSTANTS Proc,        (* the engine processes, each with its own scheduler  *)
          Job,         (* the jobs that may be scheduled, each at most once  *)
          NoJob,       (* stands for Python's None where a job may be        *)
          NoProc,      (* the owner of a job nobody scheduled yet            *)
          BatchSize,   (* [scheduler] batch_size                             *)
          MaxSlow,     (* bound: the first captures of a job, which may lapse *)
                       (* in the hands of a thread that is still at work     *)
          MaxFailure   (* bound: crashes and stops of processes, and calls   *)
                       (* that cannot be prepared                            *)

ASSUME SchedulerAssumption ==
    /\ NoJob \notin Job
    /\ NoProc \notin Proc
    /\ BatchSize \in Nat \ {0}
    /\ MaxSlow \in Nat
    /\ MaxFailure \in Nat

RowState    == {"none", "pending", "stored", "deleted", "rolledback"}
Phase       == {"early", "due", "late"}
WorkerState == {"idle", "heap", "taken", "captured", "running", "returned"}
CheckerState == {"idle", "selected", "captured", "running", "returned"}

VARIABLES
    row,        \* [Job -> RowState]: the row of the job in scheduled_jobs
    capturedAt, \* [Job -> Nat]: its captured_at column, 0 for NULL
    lapsed,     \* SUBSET Job: their captured_at is older than the timeout
    phase,      \* [Job -> Phase]: execute_at, then pickup_job_after, passed
    owner,      \* [Job -> Proc \cup {NoProc}]: the process that scheduled it
    memory,     \* SUBSET Job: the jobs in in_memory_jobs of their owner
    copy,       \* [Job -> Nat]: captured_at of the object in that memory
    worker,     \* [Job -> WorkerState]: heap entry or pool thread of the job
    checker,    \* [Proc -> CheckerState]: the job store checker thread
    selected,   \* [Proc -> SUBSET Job]: candidate_jobs, then captured_jobs
    token,      \* [Proc -> [Job -> Nat]]: captured_at of those objects
    current,    \* [Proc -> Job \cup {NoJob}]: the job the checker runs
    up,         \* [Proc -> {"up", "stopped", "down"}]
    failures,   \* Nat: the failures so far, at most MaxFailure
    called,     \* [Job -> SUBSET Nat]: history, captures that led to a call
    returned    \* [Job -> BOOLEAN]: history, a call of the job has returned

storeVars   == <<row, capturedAt, lapsed, phase>>
memoryVars  == <<owner, memory, copy, worker>>
checkerVars == <<checker, selected, token, current>>
procVars    == <<up, failures>>
histVars    == <<called, returned>>
vars == <<storeVars, memoryVars, checkerVars, procVars, histVars>>

TypeOK ==
    /\ row \in [Job -> RowState]
    /\ capturedAt \in [Job -> Nat]
    /\ lapsed \subseteq Job
    /\ phase \in [Job -> Phase]
    /\ owner \in [Job -> Proc \cup {NoProc}]
    /\ memory \in SUBSET Job
    /\ copy \in [Job -> Nat]
    /\ worker \in [Job -> WorkerState]
    /\ checker \in [Proc -> CheckerState]
    /\ selected \in [Proc -> SUBSET Job]
    /\ token \in [Proc -> [Job -> Nat]]
    /\ current \in [Proc -> Job \cup {NoJob}]
    /\ up \in [Proc -> {"up", "stopped", "down"}]
    /\ failures \in Nat
    /\ called \in [Job -> SUBSET Nat]
    /\ returned \in [Job -> BOOLEAN]

Init ==
    /\ row = [j \in Job |-> "none"]
    /\ capturedAt = [j \in Job |-> 0]
    /\ lapsed = {}
    /\ phase = [j \in Job |-> "early"]
    /\ owner = [j \in Job |-> NoProc]
    /\ memory = {}
    /\ copy = [j \in Job |-> 0]
    /\ worker = [j \in Job |-> "idle"]
    /\ checker = [p \in Proc |-> "idle"]
    /\ selected = [p \in Proc |-> {}]
    /\ token = [p \in Proc |-> [j \in Job |-> 0]]
    /\ current = [p \in Proc |-> NoJob]
    /\ up = [p \in Proc |-> "up"]
    /\ failures = 0
    /\ called = [j \in Job |-> {}]
    /\ returned = [j \in Job |-> FALSE]

-----------------------------------------------------------------------------
(* What the caller's transaction does.                                     *)

\* schedule(): the row is inserted by the caller's open transaction and the
\* object goes to the heap and to in_memory_jobs at once.
Schedule(p, j) ==
    /\ row[j] = "none"
    /\ up[p] = "up"
    /\ row' = [row EXCEPT ![j] = "pending"]
    /\ owner' = [owner EXCEPT ![j] = p]
    /\ worker' = [worker EXCEPT ![j] = "heap"]
    /\ memory' = memory \cup {j}
    /\ UNCHANGED <<capturedAt, lapsed, phase, copy, checkerVars, procVars,
                   histVars>>

\* The caller's transaction ends.  Nothing removes the job from the memory
\* when it rolls back.
EndTransaction(j, result) ==
    /\ row[j] = "pending"
    /\ row' = [row EXCEPT ![j] = result]
    /\ UNCHANGED <<capturedAt, lapsed, phase, memoryVars, checkerVars,
                   procVars, histVars>>

Commit(j)   == EndTransaction(j, "stored")
Rollback(j) == EndTransaction(j, "rolledback")

\* Fault: the "processing" filter is dropped.
HasScheduledJobsAny(p, J, processing) ==
    \/ \E j \in J \cap memory : owner[j] = p
    \/ \E j \in J : row[j] = "stored"

\* has_scheduled_jobs(key=.., processing=..) asked in process p, where J is
\* the set of jobs with that key: the memory answers before the table does.
HasScheduledJobs(p, J, processing) ==
    \/ \E j \in J \cap memory : owner[j] = p /\ (copy[j] # 0) = processing
    \/ \E j \in J : row[j] = "stored" /\ (capturedAt[j] # 0) = processing

-----------------------------------------------------------------------------
(* Time.                                                                    *)

BecomeDue(j) ==
    /\ row[j] # "none"
    /\ phase[j] = "early"
    /\ phase' = [phase EXCEPT ![j] = "due"]
    /\ UNCHANGED <<row, capturedAt, lapsed, memoryVars, checkerVars, procVars,
                   histVars>>

BecomeLate(j) ==
    /\ row[j] = "stored"
    /\ phase[j] = "due"
    /\ phase' = [phase EXCEPT ![j] = "late"]
    /\ UNCHANGED <<row, capturedAt, lapsed, memoryVars, checkerVars, procVars,
                   histVars>>

\* A pool thread or a checker that holds the current capture of j.
Held(j) ==
    \/ worker[j] \in {"captured", "running", "returned"} /\ copy[j] = capturedAt[j]
    \/ \E p \in Proc : /\ checker[p] \in {"captured", "running", "returned"}
                       /\ j \in selected[p]
                       /\ token[p][j] = capturedAt[j]

\* captured_job_timeout passes.  A holder that is still at work is "slow",
\* and MaxSlow bounds how many captures end that way.
Lapse(j) ==
    /\ row[j] = "stored"
    /\ capturedAt[j] # 0
    /\ j \notin lapsed
    /\ Held(j) => capturedAt[j] <= MaxSlow
    /\ lapsed' = lapsed \cup {j}
    /\ UNCHANGED <<row, capturedAt, phase, memoryVars, checkerVars, procVars,
                   histVars>>

-----------------------------------------------------------------------------
(* The pool of the process: _dispatcher and _process_memory_job.            *)

\* The dispatcher pops the head of the heap once it is due and submits it.
Dispatch(j) ==
    /\ worker[j] = "heap"
    /\ phase[j] # "early"
    /\ worker' = [worker EXCEPT ![j] = "taken"]
    /\ UNCHANGED <<storeVars, owner, memory, copy, checkerVars, procVars,
                   histVars>>

\* Faults: an UPDATE by id alone, and a capture in memory only.
CanCaptureById(j, seen)     == row[j] = "stored"
CanCaptureInMemory(j, seen) == capturedAt[j] = seen

\* _capture_scheduled_job(): the UPDATE matches a committed row that still
\* has the captured_at the caller read.
CanCapture(j, seen) == row[j] = "stored" /\ capturedAt[j] = seen

WorkerCapture(j) ==
    /\ worker[j] = "taken"
    /\ CanCapture(j, copy[j])
    /\ capturedAt' = [capturedAt EXCEPT ![j] = @ + 1]
    /\ lapsed' = lapsed \ {j}
    /\ copy' = [copy EXCEPT ![j] = capturedAt[j] + 1]
    /\ worker' = [worker EXCEPT ![j] = "captured"]
    /\ UNCHANGED <<row, phase, owner, memory, checkerVars, procVars, histVars>>

\* The UPDATE matched nothing (not committed yet, rolled back, captured by
\* somebody else, deleted): the job is forgotten by the memory.
WorkerLoses(j) ==
    /\ worker[j] = "taken"
    /\ ~CanCapture(j, copy[j])
    /\ worker' = [worker EXCEPT ![j] = "idle"]
    /\ memory' = memory \ {j}
    /\ UNCHANGED <<storeVars, owner, copy, checkerVars, procVars, histVars>>

WorkerCall(j) ==
    /\ worker[j] = "captured"
    /\ worker' = [worker EXCEPT ![j] = "running"]
    /\ called' = [called EXCEPT ![j] = @ \cup {copy[j]}]
    /\ UNCHANGED <<storeVars, owner, memory, copy, checkerVars, procVars,
                   returned>>

\* _prepare_job() cannot import the function or deserialize an argument: the
\* exception ends the thread, and the row stays captured until it lapses.
WorkerCannotPrepare(j) ==
    /\ worker[j] = "captured"
    /\ failures < MaxFailure
    /\ failures' = failures + 1
    /\ worker' = [worker EXCEPT ![j] = "idle"]
    /\ memory' = memory \ {j}
    /\ UNCHANGED <<storeVars, owner, copy, checkerVars, up, histVars>>

\* The function returns or raises: an exception is logged, never re-raised.
WorkerReturn(j) ==
    /\ worker[j] = "running"
    /\ worker' = [worker EXCEPT ![j] = "returned"]
    /\ returned' = [returned EXCEPT ![j] = TRUE]
    /\ UNCHANGED <<storeVars, owner, memory, copy, checkerVars, procVars,
                   called>>

\* The DELETE by id.  If the row is gone already it raises, which ends the
\* thread; the "finally" clause cleans the memory in both cases.
DeleteRow(j) == row' = [row EXCEPT ![j] = "deleted"]

WorkerDelete(j) ==
    /\ worker[j] = "returned"
    /\ DeleteRow(j)
    /\ worker' = [worker EXCEPT ![j] = "idle"]
    /\ memory' = memory \ {j}
    /\ UNCHANGED <<capturedAt, lapsed, phase, owner, copy, checkerVars,
                   procVars, histVars>>

-----------------------------------------------------------------------------
(* The job store checker: _process_store_jobs.                              *)

\* Faults: captured jobs are selected at once, or never again, or jobs that
\* were never captured are left to the memory of their process.
EligibleCaptured   == {j \in Job : row[j] = "stored" /\ phase[j] = "late"}
EligibleUncaptured == {j \in EligibleCaptured : capturedAt[j] = 0}
EligibleLapsed     == {j \in EligibleCaptured : j \in lapsed}

\* get_scheduled_jobs_to_start(): late, and not captured or lapsed.
Eligible == {j \in Job : /\ row[j] = "stored"
                         /\ phase[j] = "late"
                         /\ capturedAt[j] = 0 \/ j \in lapsed}

\* The thread sleeps before it looks, so it may look once more after stop().
CheckerSelect(p) ==
    /\ up[p] # "down"
    /\ checker[p] = "idle"
    /\ \E S \in SUBSET Eligible :
          /\ S # {}
          /\ Cardinality(S) <= BatchSize
          /\ Cardinality(S) < BatchSize => S = Eligible
          /\ selected' = [selected EXCEPT ![p] = S]
    /\ token' = [token EXCEPT ![p] = capturedAt]
    /\ checker' = [checker EXCEPT ![p] = "selected"]
    /\ UNCHANGED <<storeVars, memoryVars, current, procVars, histVars>>

\* The captures of one batch are committed together.
CheckerCapture(p) ==
    LET won == {j \in selected[p] : CanCapture(j, token[p][j])}
    IN  /\ checker[p] = "selected"
        /\ capturedAt' = [j \in Job |-> IF j \in won THEN capturedAt[j] + 1
                                                     ELSE capturedAt[j]]
        /\ lapsed' = lapsed \ won
        /\ token' = [token EXCEPT ![p] = capturedAt']
        /\ selected' = [selected EXCEPT ![p] = won]
        /\ checker' = [checker EXCEPT
                          ![p] = IF won = {} THEN "idle" ELSE "captured"]
        /\ UNCHANGED <<row, phase, memoryVars, current, procVars, histVars>>

CheckerCall(p) ==
    /\ checker[p] = "captured"
    /\ \E j \in selected[p] :
          /\ current' = [current EXCEPT ![p] = j]
          /\ called' = [called EXCEPT ![j] = @ \cup {token[p][j]}]
    /\ checker' = [checker EXCEPT ![p] = "running"]
    /\ UNCHANGED <<storeVars, memoryVars, selected, token, procVars, returned>>

\* _prepare_job() raises: the loop ends, and neither this job nor the rest of
\* the batch is called until their captures lapse.
CheckerCannotPrepare(p) ==
    /\ checker[p] = "captured"
    /\ failures < MaxFailure
    /\ failures' = failures + 1
    /\ checker' = [checker EXCEPT ![p] = "idle"]
    /\ selected' = [selected EXCEPT ![p] = {}]
    /\ UNCHANGED <<storeVars, memoryVars, token, current, up, histVars>>

CheckerReturn(p) ==
    /\ checker[p] = "running"
    /\ checker' = [checker EXCEPT ![p] = "returned"]
    /\ returned' = [returned EXCEPT ![current[p]] = TRUE]
    /\ UNCHANGED <<storeVars, memoryVars, selected, token, current, procVars,
                   called>>

\* Fault: the job that was just executed stays in the batch.
CheckerDeleteKept(p) ==
    /\ checker[p] = "returned"
    /\ DeleteRow(current[p])
    /\ current' = [current EXCEPT ![p] = NoJob]
    /\ checker' = [checker EXCEPT ![p] = "captured"]
    /\ UNCHANGED <<capturedAt, lapsed, phase, memoryVars, selected, token,
                   procVars, histVars>>

\* After the DELETE the loop goes on with the rest of the batch, unless the
\* row was gone: the exception ends the loop and the rest of the batch stays
\* captured by nobody until it lapses.
CheckerDelete(p) ==
    LET j    == current[p]
        rest == IF row[j] = "stored" THEN selected[p] \ {j} ELSE {}
    IN  /\ checker[p] = "returned"
        /\ DeleteRow(j)
        /\ selected' = [selected EXCEPT ![p] = rest]
        /\ current' = [current EXCEPT ![p] = NoJob]
        /\ checker' = [checker EXCEPT
                          ![p] = IF rest = {} THEN "idle" ELSE "captured"]
        /\ UNCHANGED <<capturedAt, lapsed, phase, memoryVars, token, procVars,
                       histVars>>

-----------------------------------------------------------------------------
(* Processes stop, crash and start again.                                   *)

\* stop(): the heap and in_memory_jobs are emptied under the lock; threads
\* that run a job go on.
Stop(p) ==
    /\ up[p] = "up"
    /\ failures < MaxFailure
    /\ failures' = failures + 1
    /\ up' = [up EXCEPT ![p] = "stopped"]
    /\ memory' = {j \in memory : owner[j] # p}
    /\ worker' = [j \in Job |-> IF owner[j] = p /\ worker[j] = "heap"
                                THEN "idle" ELSE worker[j]]
    /\ UNCHANGED <<storeVars, owner, copy, checkerVars, histVars>>

\* The process dies: its memory and its threads are gone, its open
\* transactions are rolled back by the database.
Crash(p) ==
    /\ \/ up[p] = "up" /\ failures < MaxFailure /\ failures' = failures + 1
       \/ up[p] = "stopped" /\ UNCHANGED failures
    /\ up' = [up EXCEPT ![p] = "down"]
    /\ row' = [j \in Job |-> IF owner[j] = p /\ row[j] = "pending"
                             THEN "rolledback" ELSE row[j]]
    /\ memory' = {j \in memory : owner[j] # p}
    /\ worker' = [j \in Job |-> IF owner[j] = p THEN "idle" ELSE worker[j]]
    /\ checker' = [checker EXCEPT ![p] = "idle"]
    /\ selected' = [selected EXCEPT ![p] = {}]
    /\ current' = [current EXCEPT ![p] = NoJob]
    /\ UNCHANGED <<capturedAt, lapsed, phase, owner, copy, token, histVars>>

Start(p) ==
    /\ up[p] = "down"
    /\ up' = [up EXCEPT ![p] = "up"]
    /\ UNCHANGED <<storeVars, memoryVars, checkerVars, failures, histVars>>

-----------------------------------------------------------------------------
Caller(j) == (\E p \in Proc : Schedule(p, j)) \/ Commit(j) \/ Rollback(j)

Clock(j) == BecomeDue(j) \/ BecomeLate(j) \/ Lapse(j)

Worker(j) ==
    \/ Dispatch(j)
    \/ WorkerCapture(j)
    \/ WorkerLoses(j)
    \/ WorkerCall(j)
    \/ WorkerReturn(j)
    \/ WorkerDelete(j)

Checker(p) ==
    \/ CheckerSelect(p)
    \/ CheckerCapture(p)
    \/ CheckerCall(p)
    \/ CheckerReturn(p)
    \/ CheckerDelete(p)

Next ==
    \/ \E j \in Job : Caller(j) \/ Clock(j) \/ Worker(j) \/ WorkerCannotPrepare(j)
    \/ \E p \in Proc : \/ Checker(p) \/ CheckerCannotPrepare(p)
                       \/ Stop(p) \/ Crash(p) \/ Start(p)

Spec == Init /\ [][Next]_vars

\* Time passes, an open transaction ends, threads that have something to do
\* do it, and a process that is down is started again by its supervisor.
Fairness ==
    /\ \A j \in Job : WF_vars(Clock(j)) /\ WF_vars(Worker(j))
    /\ \A j \in Job : WF_vars(Commit(j) \/ Rollback(j))
    /\ \A p \in Proc : WF_vars(Checker(p)) /\ WF_vars(Start(p))
    /\ \A p \in Proc : WF_vars(up[p] = "stopped" /\ Crash(p))

FairSpec == Spec /\ Fairness
-----------------------------------------------------------------------------
(* Properties.                                                              *)

\* The captures that a worker or a checker still has in its hands.
WorkerHolds(j)     == worker[j] \in {"captured", "running", "returned"}
CheckerHolds(p, j) == /\ checker[p] \in {"captured", "running", "returned"}
                      /\ j \in selected[p]

\* Captures c and d of a job may be held together: the older one was slow.
Overtaken(c, d) == c # d /\ (c <= MaxSlow \/ d <= MaxSlow)

\* Two threads execute the same job at the same time only if the older capture
\* lapsed in living hands (it is one of the first MaxSlow), whatever stale
\* copies of captured_at the worker and the checkers compare and set with:
\* with a captured_job_timeout that is long enough a job has one executor.
ExclusiveCapture ==
    \A j \in Job, p \in Proc :
        CheckerHolds(p, j) =>
            /\ WorkerHolds(j) => Overtaken(copy[j], token[p][j])
            /\ \A q \in Proc \ {p} :
                  CheckerHolds(q, j) => Overtaken(token[q][j], token[p][j])

\* A capture leads to at most one call of the target function, whoever made
\* it: a thread that is about to call holds a capture nobody called for.
OneCallPerCapture ==
    \A j \in Job :
        /\ worker[j] = "captured" => copy[j] \notin called[j]
        /\ \A p \in Proc :
              CheckerHolds(p, j) /\ current[p] # j
                  => token[p][j] \notin called[j]

\* A job is captured again only after captured_job_timeout, however the batch
\* selected before and the commits of other processes interleave.
RecaptureOnlyLapsed ==
    [][\A j \in Job : capturedAt'[j] # capturedAt[j]
                          => capturedAt[j] = 0 \/ j \in lapsed]_vars

\* A job whose transaction rolled back is never called, although the memory
\* of the process still has it and dispatches it.
RolledBackNeverCalled ==
    \A j \in Job : row[j] = "rolledback" => called[j] = {}

\* The row of a job leaves the store only after a call of it returned, so a
\* crash at any point leaves a row that the checker can pick up.
DeletedOnlyAfterCall ==
    \A j \in Job : row[j] = "deleted" => returned[j]

\* Every committed job is executed and removed in the end, through crashes, lost
\* captures, aborted batches and preparations that fail some times (MaxFailure);
\* one that always fails would come back for ever, and stop its batches each time.
CommittedJobRuns == \A j \in Job : row[j] = "stored" ~> row[j] = "deleted"

\* The scheduler keeps the promise of a scheduler: whatever memory, checkers,
\* crashes and slow captures do, a job is called only after its transaction has
\* committed, on attempts that differ, and its row goes only after a call.
StageOf == [none |-> "none", pending |-> "open", stored |-> "stored",
            rolledback |-> "dropped", deleted |-> "removed"]
Promise == INSTANCE DelayedCalls WITH
    Attempt <- Nat \ {0},
    stage   <- [j \in Job |-> StageOf[row[j]]],
    calls   <- called
KeepsPromise == Promise!Spec
=============================================================================
