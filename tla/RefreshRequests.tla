--------------------------- MODULE RefreshRequests ---------------------------
(***************************************************************************)
(* How the engine makes sure that a "join" task notices that an upstream   *)
(* task has completed: _check_affected_tasks registers a post-transaction  *)
(* operation, _schedule_if_needed, which in a transaction of its own asks  *)
(* the scheduler for an unprocessed refresh job of the join and schedules  *)
(* one if there is none.  The job calls _refresh_task_state, which reads   *)
(* the states of the upstream tasks.                                       *)
(*                                                                         *)
(* One join; all jobs have its key.  A request is one completed upstream   *)
(* task; a call of a job covers the requests committed before it.          *)
(***************************************************************************)
EXTENDS DefaultScheduler

CONSTANTS Request,      (* the completions of upstream tasks                 *)
          MaxRollback,  (* bound: scheduling transactions the database fails *)
          Worlds        (* the settings in which a behaviour may take place  *)

\* A setting: the processes that are deployed, whether there are faults (lapsed
\* captures, crashes, failed transactions, and calls that cannot be prepared, as on
\* an engine of another version), and whether the local pool takes its jobs in less
\* than pickup_job_after seconds.
World == [deployed : SUBSET Proc, faults : BOOLEAN, keepsUp : BOOLEAN]

ASSUME RefreshAssumption == MaxRollback \in Nat /\ Worlds \subseteq World

RequestState == {"none", "completed", "scheduling", "done", "lost"}

VARIABLES
    request,    \* [Request -> RequestState]
    engine,     \* [Request -> Proc \cup {NoProc}]: where it is handled
    job,        \* [Request -> Job \cup {NoJob}]: the job it is scheduling
    rollbacks,  \* Nat
    covered,    \* SUBSET Request: seen by a refresh
    world       \* World: the setting, which does not change

requestVars == <<request, engine, job, rollbacks, covered, world>>
refreshVars == <<vars, requestVars>>

RefreshTypeOK ==
    /\ TypeOK
    /\ request \in [Request -> RequestState]
    /\ engine \in [Request -> Proc \cup {NoProc}]
    /\ job \in [Request -> Job \cup {NoJob}]
    /\ rollbacks \in Nat
    /\ covered \in SUBSET Request /\ world \in Worlds

RefreshInit ==
    /\ Init
    /\ request = [r \in Request |-> "none"]
    /\ engine = [r \in Request |-> NoProc]
    /\ job = [r \in Request |-> NoJob]
    /\ rollbacks = 0
    /\ covered = {} /\ world \in Worlds

-----------------------------------------------------------------------------
\* An upstream task completes: its transaction is committed and the
\* operation waits in the post-transaction queue of the process.
CompleteUpstream(r, p) ==
    /\ request[r] = "none"
    /\ up[p] = "up"
    /\ request' = [request EXCEPT ![r] = "completed"]
    /\ engine' = [engine EXCEPT ![r] = p]
    /\ UNCHANGED <<vars, job, rollbacks, covered, world>>

\* _schedule_if_needed(): an unprocessed job exists, nothing to do.
SkipScheduling(r) ==
    /\ request[r] = "completed"
    /\ HasScheduledJobs(engine[r], Job, FALSE)
    /\ request' = [request EXCEPT ![r] = "done"]
    /\ UNCHANGED <<vars, engine, job, rollbacks, covered, world>>

\* _schedule_if_needed(): there is none, so one is scheduled.
ScheduleRefresh(r) ==
    /\ request[r] = "completed"
    /\ ~HasScheduledJobs(engine[r], Job, FALSE)
    /\ \E j \in Job : /\ Schedule(engine[r], j)
                      /\ job' = [job EXCEPT ![r] = j]
    /\ request' = [request EXCEPT ![r] = "scheduling"]
    /\ UNCHANGED <<engine, rollbacks, covered, world>>

CommitRefresh(r) ==
    /\ request[r] = "scheduling"
    /\ Commit(job[r])
    /\ request' = [request EXCEPT ![r] = "done"]
    /\ UNCHANGED <<engine, job, rollbacks, covered, world>>

\* The database fails the transaction and retry_on_db_error runs the queue
\* again.
RetryRefresh(r) ==
    /\ request[r] = "scheduling"
    /\ world.faults /\ rollbacks < MaxRollback
    /\ rollbacks' = rollbacks + 1
    /\ Rollback(job[r])
    /\ request' = [request EXCEPT ![r] = "completed"]
    /\ job' = [job EXCEPT ![r] = NoJob]
    /\ UNCHANGED <<engine, covered, world>>

\* _refresh_task_state reads the upstream tasks after the call began.
Refresh == covered' = covered \cup {r \in Request : request[r] # "none"}

Call(j) == WorkerCall(j) \/ \E p \in world.deployed : CheckerCall(p) /\ current'[p] = j

CallRefresh(j) ==
    /\ Call(j)
    /\ Refresh
    /\ UNCHANGED <<request, engine, job, rollbacks, world>>

\* A dying process takes its post-transaction queues with it.
EngineCrash(p) ==
    /\ world.faults
    /\ Crash(p)
    /\ request' = [r \in Request |->
                     IF engine[r] = p /\ request[r] \in {"completed", "scheduling"}
                     THEN "lost" ELSE request[r]]
    /\ UNCHANGED <<engine, job, rollbacks, covered, world>>

EngineStart(p) == Start(p) /\ UNCHANGED requestVars

CannotPrepare ==
    /\ world.faults
    /\ \/ \E j \in Job : WorkerCannotPrepare(j)
       \/ \E p \in world.deployed : CheckerCannotPrepare(p)
    /\ UNCHANGED requestVars

RefreshClock(j) ==
    /\ \/ BecomeDue(j)
       \/ BecomeLate(j) /\ (world.keepsUp => j \notin memory)
       \/ Lapse(j) /\ world.faults
    /\ UNCHANGED requestVars

RefreshWorker(j) ==
    /\ \/ Dispatch(j) \/ WorkerCapture(j) \/ WorkerLoses(j)
       \/ WorkerReturn(j) \/ WorkerDelete(j)
    /\ UNCHANGED requestVars

RefreshChecker(p) ==
    /\ \/ CheckerSelect(p) \/ CheckerCapture(p)
       \/ CheckerReturn(p) \/ CheckerDelete(p)
    /\ UNCHANGED requestVars

RequestNext(r) ==
    \/ SkipScheduling(r)
    \/ ScheduleRefresh(r)
    \/ CommitRefresh(r)
    \/ RetryRefresh(r)

RefreshNext ==
    \/ \E r \in Request : RequestNext(r) \/ \E p \in world.deployed : CompleteUpstream(r, p)
    \/ \E j \in Job : RefreshClock(j) \/ RefreshWorker(j) \/ CallRefresh(j)
    \/ CannotPrepare
    \/ \E p \in world.deployed : \/ RefreshChecker(p)
                                 \/ EngineCrash(p)
                                 \/ EngineStart(p)

RefreshSpec == RefreshInit /\ [][RefreshNext]_refreshVars

\* As in DefaultScheduler, and the operations of the queue are executed.
RefreshFairness ==
    /\ \A j \in Job : /\ WF_refreshVars(RefreshClock(j))
                      /\ WF_refreshVars(RefreshWorker(j))
                      /\ WF_refreshVars(CallRefresh(j))
    /\ \A p \in Proc : /\ WF_refreshVars(p \in world.deployed /\ RefreshChecker(p))
                       /\ WF_refreshVars(EngineStart(p))
    /\ \A r \in Request : WF_refreshVars(RequestNext(r))

RefreshFairSpec == RefreshSpec /\ RefreshFairness

-----------------------------------------------------------------------------
\* No process and no preparation failed, no scheduling transaction was retried, and
\* no job was late while it was still in memory: a stale copy in the memory of a
\* process hides that there is no job, and a rolled back one is believed to exist.
Undisturbed == world.keepsUp /\ failures = 0 /\ rollbacks = 0

\* A completed upstream task is never forgotten: as long as no refresh has
\* seen it, a job that has not finished exists, or an operation that will
\* schedule one.  Otherwise the join waits for ever.
NoLostRefresh ==
    \A r \in Request :
        Undisturbed /\ request[r] \in {"done", "lost"} /\ r \notin covered =>
            \/ \E j \in Job : row[j] \in {"pending", "stored"}
            \/ \E s \in Request : request[s] \in {"completed", "scheduling"}

RefreshInv == RefreshTypeOK /\ NoLostRefresh

\* Every completion of an upstream task is seen by a refresh in the end; when
\* processes crash and transactions are retried, what is left of it is that a
\* completion whose own refresh job was committed is seen.
EveryCompletionSeen ==
    /\ []Undisturbed =>
          \A r \in Request : request[r] = "completed" ~> r \in covered
    /\ \A r \in Request :
          request[r] = "done" /\ job[r] # NoJob ~> r \in covered
=============================================================================
