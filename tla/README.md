# TLA+ specifications of Mistral

Mistral runs workflows: a user starts a workflow execution, engine processes
decide which tasks come next, executors run their actions, and results come
back to whichever engine takes the message. No engine keeps anything in memory
between two calls that another engine could not do without: the state is in the
database, and what moves it are RPC messages, operations that run after a commit
and jobs of the scheduler. Almost everything that can go wrong is therefore an
*overlap*: two transactions that decide on what each of them read before the
other committed, a message that is on its way twice, a job that somebody else is
already running, a process that dies between two steps. That is what these
specifications are about.

Paths below are relative to the root of the repository. `PROJECT.json` maps every
definition that models code to its lines.

Contents: 1 the system · 2 the modules · 3 how the engine is modelled ·
4 how the parts around it are modelled · 5 runs · 6 fairness · 7 proofs ·
8 what the code does and its words do not say · 9 what is not modelled ·
10 plan.


## 1. The system

| component | state | operations | talks to | hard part |
|---|---|---|---|---|
| **Engine** (`engine/default_engine.py`, `workflow_handler`, `workflows`, `task_handler`, `tasks`, `action_handler`, `actions`) | rows of workflow, task and action executions: `state`, `processed`, `next_tasks`, `error_handled` | `start_workflow`, `start_task`, `on_action_complete`, `pause/resume/stop/rerun_workflow`, `_check_and_complete`, `_refresh_task_state`, `_check_and_fix_integrity` | executors and other engines by RPC, scheduler, database | transactions of several engines overlap; a decision is as old as the load it rests on |
| **Direct workflow controller** (`workflow/direct_workflow.py`, `workflow/base.py`) | none; reads task rows | next tasks of a completed task, logical state of a join, affected joins, is the workflow complete | called by the engine | joins: indirect branches, routes that became impossible |
| **Reverse workflow controller** (`workflow/reverse_workflow.py`) | none | next tasks by `requires` | called by the engine | resolution of the graph |
| **Dispatcher, commands** (`engine/dispatcher.py`, `workflow/commands.py`) | `runtime_context['backlog_commands']` | order and run commands, save and restore the rest when a command pauses the workflow | engine | order of join locks, commands kept over a pause |
| **Post-transaction queue** (`engine/post_tx_queue.py`) | two thread-local queues | register, run after the commit, retry | every handler | lost in a crash, repeated after a database error |
| **Default scheduler** (`scheduler/default_scheduler.py`) | `scheduled_jobs` rows; heap, `in_memory_jobs` and threads of each process | `schedule`, dispatcher, pool worker, job store checker, `has_scheduled_jobs`, `stop` | engine (callers and targets), database | one job, many threads that may run it |
| **Legacy scheduler** (`services/legacy_scheduler.py`) | `delayed_calls` rows | capture a batch, call, delete | as above | a crash leaves `processing` set |
| **Task policies** (`engine/policies.py`) | `runtime_context` of tasks, scheduler jobs | wait-before/after, retry, timeout, pause-before, concurrency, fail-on | engine, scheduler | a timeout against the answer, a retry against a pause |
| **With-items tasks** (`engine/tasks.py`) | capacity and count in `runtime_context` | schedule a batch, complete an item | engine, named locks | capacity is changed by concurrent completions |
| **Subworkflows, rerun, skip** | parent links of executions | recursion of stop, pause, resume, rerun; result to the parent | RPC between engines | the two executions move independently |
| **Executors** (`executors/`) | none (`safe_rerun` of a redelivered message) | `run_action`, send the result | RPC | crash after the action, redelivery |
| **Heartbeats** (`services/action_heartbeat_*.py`) | `last_heartbeat` of action executions | send, expire | database, engine | an expiry against a real result |
| **Cron triggers** (`services/periodic.py`, `triggers.py`) | `next_execution_time`, `remaining_executions` | advance, start a workflow | engine, database | several engines, one trigger |
| **Event engine** (`event_engine/`) | listeners, event queue | create/update/delete triggers, process events | messaging, engine | listeners against trigger updates |
| **Maintenance** (`services/maintenance.py`) | global mode | pause and resume everything | engine | a change of mode during the change before it |
| **Execution expiration** (`services/expiration_policy.py`) | none | delete old executions in batches | database | size and age limits |
| **RPC layer** (`rpc/`), **database layer** (`db/`) | queues; connections, sessions | calls and casts; `UPDATE ... WHERE`, named locks, retry on database errors | all | delivery, isolation |
| **Data flow** (`workflow/data_flow.py`, `context_versioning.py`) | contexts of tasks, with a version for each key | publish, merge upstream contexts | controllers | the order of rows must not decide |
| **REST API and services** (`api/`, `services/workbooks.py`, `workflows.py`) | definitions, workbooks, code sources, members; caches of specifications and modules in each process | create, update, delete, share, start, list | database, engine | several copies of one thing; answers to requests that raced or were retried |
| **Language, expressions; notifiers; actions** | – | parsing, YAQL/Jinja, calls to the world | – | data, not control |

What makes each of them correct, in one line:

* *engine*: nothing is forgotten (a RUNNING execution is always waiting for
  something that will come), nothing is done twice (a task's action, a result, a
  completion), the state of the workflow agrees with its tasks, and what is final
  stays final;
* *controller*: a join starts when, and only when, enough inbound tasks triggered
  it, and fails as soon as that became impossible;
* *scheduler*: a committed job runs at least once through any crash, and by one
  thread at a time as long as the capture timeout is long enough; a rolled back
  job never runs;
* *refresh requests* (engine and scheduler together): a completed upstream task is
  seen by some refresh of the join, although "a job exists already" is a reason
  not to schedule another;
* *dispatcher*: every command runs once, also over a pause; locks have one order;
* *policies*: one of timeout and result counts; retries stop at the count;
* *with-items*: never more actions than `concurrency`, and the capacity comes back;
* *subworkflows*: a root and its subworkflows agree on how they ended, pause
  together, and the root ends although messages are lost;
* *executors and heartbeats*: every action gets one result in the end;
* *reverse workflows*: requirements first, the target last;
* *data flow*: where branches meet, nothing older replaces something newer;
* *cron triggers*: a trigger fires once per time and at most `count` times;
* *event engine*: what it listens to is what the table of triggers says;
* *maintenance*: nothing runs while the mode is PAUSED, and everything it paused
  runs again;
* *expiration*: the newest stay, and the others do go;
* *API*: rows, members and caches of one definition agree, triggers can start what
  they name, and clients are told the truth.

The hazards behind these lines are listed in `PROJECT.json`, each at the line
where it bites and with the properties that would catch it.


## 2. The modules

| module | models | extends / instantiates |
|---|---|---|
| `DelayedCalls` | abstract: what a scheduler promises to the transaction that schedules a job | – |
| `Lifecycle` | abstract: what an execution promises to whoever started it | – |
| `DefaultScheduler` | the default scheduler: processes, their memory, pool workers and job store checkers over one table | `DelayedCalls` |
| `RefreshRequests` | composition: `_check_affected_tasks`, `_schedule_if_needed` and its retry, the refresh job, on the scheduler | `DefaultScheduler` |
| `WorkflowEngine` | one execution of a direct workflow: the handlers of the engine as overlapping transactions, the controller's algorithms, the operator | – |
| `ActionExecution` | an action from its row to its result: executors, their messages, heartbeats and the checker | `Lifecycle` |
| `TaskPolicies` | one task with policies and their jobs | – |
| `WithItems` | one with-items task: items, capacity, retry, rerun | – |
| `SubWorkflows` | a root and its subworkflows: results, pause, resume, stop, rerun, skip, integrity check | – |
| `Dispatcher` | the commands of a direct workflow, engine commands, the backlog | – |
| `DataFlow` | publishing and merging of contexts (operators only) | – |
| `ReverseWorkflow` | one execution of a reverse workflow | `DataFlow` |
| `Controllers` | an execution is continued by the controller of its type | `Dispatcher`, `ReverseWorkflow` |
| `Executions` | workflow executions as the services beside the engine see them | – |
| `CronTrigger`, `EventEngine`, `Maintenance`, `Expiration` | the services | `Executions` |
| `LegacyScheduler` | the legacy scheduler | `DelayedCalls` |
| `Services` | composition of the services on one table of executions | the six above |
| `Transactions` | transactions of API and engine processes: one per process, row locks to the end | – |
| `Workbooks`, `CodeSources`, `Sharing`, `ExecutionStart`, `Listing` | the parts of the API | `Transactions` |
| `JoinLocks` | `Task.defer` of several joins under named locks, statement by statement | `Transactions` |
| `Api` | composition of the API with `JoinLocks` | the six above |
| `WorkflowEngine_proofs`, `ActionExecution_proofs`, `TaskPolicies_proofs`, `SubWorkflows_proofs`, `Controllers_proofs`, `Services_proofs`, `Api_proofs` | theorems and proofs | the module they are about, `TLAPS` and its library of theorems |
| `ScheduledJobs_proofs` | theorems and proofs about what is scheduled as jobs | `DefaultScheduler`, `RefreshRequests`, `WithItems`, `TLAPS` and its library |
| `MC...` | model values, workflow graphs, scenarios and symmetry for TLC | the module they instantiate |

**Where they meet.** `WorkflowEngine` and `RefreshRequests` meet at the refresh
jobs: `RefreshRequests` looks at how a request becomes a job that sees it, with all
the scheduler's threads, crashes, failures and retries, and abstracts the workflow to "an
upstream task completed"; `WorkflowEngine` takes its good case as given (a set of
unprocessed refresh jobs, each of which runs) and looks at what the requests are
for. `ActionExecution`, `TaskPolicies`, `WithItems` and `SubWorkflows` each open one
step of `WorkflowEngine` ("an action ends", "a task starts and completes") and see
the rest of the engine as one or two variables. `Services` shares the rows of
`Executions`: cron and event triggers start them, maintenance pauses and resumes
them, expiration deletes them; `Api` shares transactions and processes. `JoinLocks`
opens the step of `WorkflowEngine` and `Dispatcher` that creates the joins a
transaction dispatches, down to the statements and lock waits inside it.

**Scenarios.** The composed modules have a variable `left` (in `ReverseWorkflow`
`pauses` and `reruns`): how often the outside may still do what, and how many
faults may still happen. A behaviour starts with one of the scenarios of its MC
module, so one run explores many settings, each with bounds of its own, and the
interference that a scenario is about. Where the services or the parts of the API
share no state, no scenario mixes them (`NotLegacy`, `NotBooks`, ...).


## 3. How the engine is modelled (`WorkflowEngine`)

**Transactions.** A handler is a transaction at READ COMMITTED. It loads objects,
decides on the loaded values, and writes. Rows of tasks and workflows change
state through `UPDATE ... WHERE id = ? AND state = <loaded state>`
(`update_task_execution_state`, `update_workflow_execution_state`); when that
matches no row the handler goes on without the change (`Task.set_state` and
`Workflow.set_state` return `False`). In the model

* `Begin...` takes the call and loads: the record in `txs` is what the handler
  will decide on (`wf`, and `seen` for its task executions);
* a second action is the handler itself, up to its commit, in one atomic step. It
  compares with the loaded state where the code has the conditional `UPDATE`
  (`UpdateMatches`, `WfMatches`).

Between the two any number of other transactions commit, unless `Serial`. That
makes the window of a handler as wide as it can be; values the handler queries
late (the states under the lock of a join) are read in the second step, because the
code reads them then. `ScheduleRefresh` is a single step for that reason: it loads
everything immediately before it decides. The task and the workflow of a handler are
loaded together: the code loads the workflow through the task or directly after it.

The completion check reads three times, and anything may commit in between: it loads
the workflow (`BeginCheck`, `workflow_handler.py:91`), counts the tasks that are not
complete (`CountTasks`, `workflows.py:457`), expires the session and reads workflow and
tasks again to decide (`Decide`, `:472-484`), and writes with a conditional UPDATE
(`CheckAndComplete`). `Serial` keeps other transactions out from the first step to the
last. `Dispatcher`, `ReverseWorkflow` and `SubWorkflows` keep the check as one step:
what a decision on older reads can do is the business of `WorkflowEngine`.

A handler that raises changes nothing. `_run_existing` raises `MistralError` for a
task that is already SUCCESS (`tasks.py:649`), which `run_task` does not catch (it
catches `MistralException`), so `start_task` rolls back and the message is lost:
`RunExisting` only ends its transaction then.

**Calls.** `calls` holds the RPC messages and the operations of post-transaction
queues, as an unordered set: messages between several engines and executors have
no order. Two identical calls merge; they would be two starts, or two checks, of
the same task and are handled the same way. `Start(t, n)` has the number of the
resume that sent it, so that a repeated `start_task` is a message of its own.

| definition | code |
|---|---|
| `wf`, `task`, `processed`, `next`, `handled`, `action` | columns `state`, `processed`, `next_tasks`, `error_handled` of the execution rows; states of the action executions of a task in the order of their creation |
| `calls`, `txs`, `jobs` | messages and operations on their way, open transactions, unprocessed refresh jobs |
| `StartWorkflow` | `start_workflow` with the dispatch of the start tasks |
| `BeginStart`, `RunNew`, `RunExisting` | `start_task`: `RegularTask._run_new` / `_run_existing`, which is rolled back for a task that succeeded |
| `Execute` | an executor runs an action and sends the result |
| `BeginDone`, `OnActionComplete`, `CompleteTask` | `on_action_complete`, `Task.complete`, `_check_affected_tasks` |
| `BeginCheck`, `CountTasks`, `Decide`, `CheckAndComplete` with `Incomplete`, `Decision` | `check_and_complete`, `Workflow.check_and_complete`, `_succeed/_fail/_cancel_workflow` |
| `ScheduleRefresh`, `BeginRefresh`, `RefreshTaskState` | `_schedule_if_needed`, `_refresh_task_state` with `continue_task` and `complete_task` |
| `BeginPause`, `Pause`, `BeginResume`, `Resume`, `BeginStop`, `Stop` | `pause_workflow`, `resume_workflow` with `_continue_workflow`, `stop_workflow` |
| `ReportResult` | an operator sets the result of an action by the API |
| `Triggered`, `Possible`, `Induced`, `LogicalState`, `Affected` | `_find_next_tasks`, `_possible_route`, `_get_induced_join_state`, `_get_join_logical_state`, `find_indirectly_affected_task_executions` |
| `Dispatched`, `StartNew` | `dispatch_workflow_commands` for `RunTask`: a new row, or `Task.defer` of a join |

**What is assumed of the workflow** (`EngineAssumption`). It has tasks and no cycle
(`level` orders them), a clause names a task once, and a task has one execution at
most, so that a task and its execution are the same thing: only joins have more than
one inbound task. Three conditions keep this true where the code itself would add rows
or rerun tasks: nothing follows the error or the completion of a join, nothing follows a
partial join (it can run twice, see section 8), and with a pause failures lead nowhere
and there is one pause (`MaxPause \in 0..1`), because a resume may run a finished task
again. Conditions of clauses (YAQL) are left out: a clause applies whenever the state
of the task allows it. Results an operator
reports are among those the action could have.

**What is left out on purpose.** The start message of a waiting join returns at
once in the code, so it is not sent. A second resume while one is in progress
changes no state (its conditional `UPDATE` fails) but leaves commands in the
backlog, which is modelled in `Dispatcher` (section 4). The periodic integrity
check looks at RUNNING tasks whose actions have all ended; with these handlers that
is a task whose completion was lost, and no message is lost in this model, so the
check could only repeat a completion that is on its way. It matters where messages
are lost: `SubWorkflows` has it.


## 4. How the parts around it are modelled

### The default scheduler (`DefaultScheduler`, `RefreshRequests`)

A job is a row (`row`, `capturedAt`), an object in the memory of the process that
scheduled it (`owner`, `memory`, `copy`: the `captured_at` this object believes
in), and the threads that may run it: one pool worker (`worker`) and the job
store checker of each process (`checker`, `selected`, `token`, `current`).

Clocks are reduced to the comparisons of the code. `phase` says whether
`execute_at` has passed ("due") and whether `pickup_job_after` has passed too
("late"). `captured_at` is a counter per job: the code needs it only to be
different after each capture. `lapsed` says that `captured_job_timeout` has
passed since the capture. `Lapse` may happen at any time if the holder is dead;
if it is alive and still at work, only to the first `MaxSlow` captures of a job.
So `MaxSlow = 0` is the assumption operators are told to make true (the timeout
is longer than any job), and `MaxSlow > 0` shows what is left without it.

| definition | code |
|---|---|
| `Schedule`, `Commit`, `Rollback` | `schedule` with `_persist_job`, heap and `in_memory_jobs`; end of the caller's transaction |
| `HasScheduledJobs` | `has_scheduled_jobs`: memory first, then the table |
| `Dispatch`, `WorkerCapture`, `WorkerLoses`, `WorkerCall`, `WorkerReturn`, `WorkerDelete` | `_dispatcher`, `_process_memory_job`, `_capture_scheduled_job`, `_invoke_job`, `_delete_scheduled_job` |
| `CheckerSelect`, `CheckerCapture`, `CheckerCall`, `CheckerReturn`, `CheckerDelete` | `_job_store_checker`, `_process_store_jobs`, `get_scheduled_jobs_to_start` |
| `WorkerCannotPrepare`, `CheckerCannotPrepare` | `_prepare_job` raises, outside any `try`: the worker forgets its job, the checker the rest of its batch; the rows stay captured until that lapses |
| `BecomeDue`, `BecomeLate`, `Lapse` | the passing of time |
| `Stop`, `Crash`, `Start` | `stop`, death and restart of the process |

`RefreshRequests` adds, for one join, the completions of its upstream tasks
(`request`), the engine process that handles each, and `covered`: the completions
some refresh has seen, since `_refresh_task_state` reads the upstream states after
the call began. `CompleteUpstream` is the committed completion whose operation
waits in the post-transaction queue; `SkipScheduling` and `ScheduleRefresh` are
the two branches of `_schedule_if_needed`; `RetryRefresh` is
`retry_on_db_error` running the queue again; `EngineCrash` loses queues with the
process. A behaviour takes place in one `world`: which processes are deployed,
whether there are faults, and whether pools keep up, that is, take their own due
jobs before `pickup_job_after` (60 s by default) has passed.

`DelayedCalls` is what both schedulers promise: a job is called only if the
transaction that scheduled it commits, each attempt makes at most one call, and the
job is forgotten only after a call. `KeepsPromise` says that a scheduler implements
it: `stage` is the row, `calls` are the captures whose call was made (default
scheduler) or simply the calls (legacy scheduler).

### Actions and executors (`ActionExecution`)

| definition | code |
|---|---|
| `Schedule`, `SendRun`, `Lose` | the row of the action with its first heartbeat; `run_action` sent by the post-transaction queue, at most once; a lost message |
| `Take`, `Return`, `Remove` | `DefaultExecutor.run_action` in a thread of the executor, the result, the end of its heartbeats |
| `Heartbeat`, `Silent`, `Expire` | `action_heartbeat_sender`, `process_action_heartbeats`; the time that makes `last_heartbeat` too old, late by accident (`MaxLate`) or because nobody beats |
| `CheckHeartbeats` | one pass of `handle_expired_actions`, which fails what it finds in one batch |
| `BeginDone`, `Write`, `Report` | `on_action_complete` as a transaction, with overlapping results; a result by the API |
| `StopExecutor`, `EndExecutor`, `StartExecutor` | graceful stop, death, restart |
| `CallExecutor`, `AnswerCall`, `FailCall` | `start_action` of an action that runs within the request, with or without `save_result`; otherwise an action started by hand is scheduled like any other |
| `DeleteAction` | DELETE of a completed action without a task, if the configuration allows it |

The task of an action implements `Lifecycle` (`TaskLifecycle`): it begins once, ends
once, and keeps that end, although results race; `SyncTasksEnd` is its liveness.

### Policies (`TaskPolicies`)

One task, with the policies in the order in which `build_policies` puts them. Each
state change of a policy and the job that continues it are separate actions:
`RunNew` with what comes before the start, `ContinueTask` (`_continue_task`),
`CompleteTask` (`_complete_task` of wait-after), `FailTaskIfIncomplete` (timeout),
`Complete` with `Retries`, `WaitAfter` and `Finish` inside `Task.complete`. Two
results, jobs and the operator's pause overlap as in `WorkflowEngine` (`Loads`,
`UpdateMatches`). An expression of a policy may have any value each time it is
evaluated. `Separate` leaves out timeout together with retry, wait-before or
pause-before: the job of the one does not see what the job of the other did
(section 8).

### With-items (`WithItems`)

Every handler is one action, because the named lock of the task makes it one. A
result (`Result`) changes only its action execution and schedules a job;
`OnActionComplete` is the job: `_on_action_complete`, `is_completed`, the final
state and the next batch. `IndexesToRun`, `NextIndexes`, `HasMoreIterations` and
`IsCompleted` are the pure functions of `WithItemsTask`. `Mode` is the kind of task;
`Supported` names the combinations explored, and section 8 what the others do.

### Subworkflows (`SubWorkflows`)

A root, and for each task of it a subworkflow with one task. `Launch` is the start
(by RPC or in the transaction of the root), `Work` the end of the inner workflow,
`OnActionComplete` the result at the root, which `Lose` may lose and
`CheckAndFixIntegrity` finds again. `Pause`, `PauseSub`, `Resume`, `ResumeSub`,
`Stop`, `StopSub`, `Rerun`, `RunExisting` and `Skip` are the operator at either end,
with the recursion through parents and children in the same action, since
it happens in one transaction.

### Commands and the backlog (`Dispatcher`)

A completion (`BeginCompletion`, `Completion`) and a resume (`BeginResumption`,
`Resumption`) load the execution, decide and commit later. `NextCommands` is
`_find_next_commands` for one completed task, `Rearranged` the pre-processing of the
dispatcher (noops, the first command that changes the state, the order of joins),
`Dispatched` the loop with its conditional change of state and the saving of the
rest, `Restored` what `restore_command_from_dict` makes of it. The runtime context
is a column written as a whole (`Stores`). `from` gives every command the execution,
run and place of the clause it came from, which is how `DispatchedOnce` and
`NothingLost` recognise it. `history` names the incidents of section 8: those after
which a workflow may be forgotten (`Forgotten`), which `CommandsEnd` excepts, and those
after which a task may run again (`Repeated`), which the parts of `CommandsInv` on single
commands except. A start that comes after its task succeeded is rolled back and only
its message is gone (`RunTaskAgain`). Sequences are cut and flattened by recursive functions (`Chosen`,
`Dispatched`), about which the proofs can speak.

### Reverse workflows and data flow (`ReverseWorkflow`, `DataFlow`)

`Satisfied` and `Findings` are `_find_task_specs_with_satisfied_dependencies` over
what is committed when the transaction looks; any number of completions overlap.
`RunExisting` runs a task again after a rerun or a resume, unless it has succeeded
meanwhile (`MayRunAgain`): then nothing changes, and the workflow stays RUNNING, as the
rerun left it. `late` records a rerun of a task that was not failed any more, `skipped`
the tasks that were skipped; the properties except the one or the other only where the
code gives up what they say (section 8). `Before` and `Needs` follow `requires` and the task-defaults. `DataFlow` has the
versions of `context_versioning.py`: `NextVersion`, `Outbound`, `Compared`, `Newer`,
`UpstreamContext`. The engine starts a task with `UpstreamContext` of its
requirements, in any order, which is how `NewestArrives` compares the algorithm
with its reference: no value that a task on the way has replaced.

### Services (`CronTrigger`, `EventEngine`, `Maintenance`, `Expiration`, `LegacyScheduler`)

* *Cron*: `GetNextCronTriggers` makes the copy of an engine, `AdvanceCronTrigger` is
  the conditional UPDATE or the DELETE that one engine wins, `StartByCron` the RPC
  after it; `CronFails` the failure or death in between. `gens` counts triggers
  created under one name; `TrustAfter` is `delete_trust` when an execution ends.
* *Event engine*: a request changes the table and calls the event engine before it
  commits (`CreateEventTrigger`, `DeleteEventTrigger`, `CommitRequest`,
  `RollbackRequest`); `HandleCall` replaces the listener; `ProcessEvent` is the loop.
* *Maintenance*: `ChangeMaintenanceMode` schedules a job; `SelectRunning`,
  `BeginPause`, `EndPause`, `AllPaused`, `AwaitPause`, `ReadStatus`, `SetPaused` are
  the steps of the pausing job, `ResumeExecutions` the resuming one, `JobRestarts`
  its second execution after a death. `Admit` is the hook at the API and
  `ActOnRequest` the request it let through.
* *Expiration*: `BeginPass`, `Fetch`, `Delete`, `EndBatch` of several engines, with
  `Superfluous` as the arithmetic of the query.
* *Legacy scheduler*: `Select`, `Capture`, `Prepare`, `Invoke`, `DeleteCalls`;
  `GivenUp` is the rest of a batch after an exception.

### API and joins (`Workbooks`, `CodeSources`, `Sharing`, `ExecutionStart`, `Listing`, `JoinLocks`)

`Transactions` has what they share: a process has one transaction at a time (the
process-wide lock of `db/sqlalchemy/base.py`), different processes overlap, and an
UPDATE or INSERT holds its row until the end.

* *Workbooks*: `UpdateWorkbook`, `Flush`, `LookUpMember`, `StoreMember`,
  `CommitWorkbook` for the row and each member; `EditMember` changes a member past
  its workbook.
* *Code sources*: the row with its version, dynamic actions, and the module that
  each process keeps (`EnsureLatest`, `UseModule`).
* *Sharing*: scope and memberships (`Share`, `SetStatus`, `Unshare`) against cron
  and event triggers of other projects (`CheckTriggers`, `StoreTrigger`).
* *Start*: `Post` with an id, the engine's `LoadWorkflow`, `CreateExecution`,
  `CommitStart`, `DuplicateEntry`, and both caches of `lang/parser.py`.
* *Listing*: pages with a marker, `Convert` row by row, `ListFails` the retry.
* *Joins*: `DispatchCommands` is the completion of one task, or a resume of several;
  `FastCheck`, `TakeNamedLock` and `CreateUnderLock` are the three parts of `defer`,
  `LockOrder` the sort of `_rearrange_commands`. A named lock is held from its INSERT
  to the end of the transaction. Joins are those with `all`, whose commands never find
  them started; what happens to a started one is in section 8.


## 5. Runs

Bounds are chosen as the smallest that let every hazard of the component happen;
larger ones only repeat it with more participants.

| run | bounds | states | shows |
|---|---|---|---|
| `scheduler_safety` | 2 processes, 2 jobs, batch 2, 1 slow capture, 1 crash, stop or failed preparation; symmetry of processes and jobs | 2.0 M | two threads run a job together only if the older capture was slow; a capture makes one call; the scheduler implements `DelayedCalls`: what rolled back is never called, what goes was called |
| `refresh` | 2 upstream tasks; 2 processes without faults, or 1 with a crash or a failed preparation, a slow job, a rollback and a late pool | 290 k | "a job exists, so none is needed" loses no completion; with faults, a completion that committed a job of its own is seen; every committed job runs and is removed, also when a DELETE that finds no row, or a job that cannot be prepared, aborts a batch |
| `engine_join` | `A -> J`, `B -> C -> J`, `J` joins all, `B` on-error `D`; `B` may fail, `C` be cancelled; transactions overlap, the completion check in three steps; one stop, one extra result | 184 k | no wake-up is lost, the join runs once and only after its inbound tasks, the verdict matches the tasks, a final state is final, and the workflow ends, also when the join became impossible |
| `engine_pause` | `A` -> `B` on success, `A` -> `C` on completion, `B` ends in any way; one transaction after another; one pause, one stop | 93 k | resume continues every task that completed meanwhile, once; a start that comes too late is lost and leaves the workflow with work |
| `actions` | a synchronous and an asynchronous action, or one started by hand; 1 executor; 1 crash, stop or lost message, 1 late heartbeat, 1 result by the API | 177 k | what is alive is not failed, the first result counts, every synchronous task ends |
| `policies` | all combinations in `Separate`, up to 2 retries, 1 pause | 25 k | one action at a time, next tasks dispatched once, the end the policies ask for, the task ends |
| `items` | 0 to 3 items, concurrency 0 to 3; 1 retry or 1 rerun, 1 job executed again | 175 k | no item twice, the capacity exact, the verdict covers every item, the task ends |
| `subworkflows` | 2 subworkflows; up to 2 pauses or reruns, 1 stop, 1 lost result | 67 k | root and subworkflows agree, pause together, are cancelled together, and the root ends |
| `services` | 3 executions, 2 engines, 2 projects; 12 scenarios | 111 k | cron, events, maintenance, expiration and the legacy scheduler keep what section 1 says of them, in the end too |
| `api` | 2 processes, 2 clients, 2 projects, a workbook with 2 members, 4 rows to list, 3 tasks before 2 joins; 10 scenarios | 374 k | copies agree, triggers can start, answers are true; each join gets one execution, and no transactions wait for each other in a circle |
| `controllers` | 8 reverse workflows with a pause, or two reruns or skips; 7 direct workflows with engine commands, a pause or a stop | 106 k | requirements before targets, newest values, a success stays, every command once, and the workflow ends |
| `engine_resume_join` | `A -> J`, `B -> J`; one transaction after another, one pause | 9 k | violation: section 8 |

Two processes are enough for the scheduler because a job has exactly one worker
and a checker interferes with at most one other holder at a time; the proofs cover
any number. Two jobs are needed for a batch, and for a batch that is aborted in
its middle. Two upstream tasks are the least for which one can rely on the job of
the other. The graph of `engine_join` has every kind of inbound task a join
distinguishes: a direct one, an indirect one whose route can become impossible at
a task that the join does not see, and an error that is handled elsewhere. One
stop is enough for each of pause, check and stop to meet a state that changed
under it; one extra result is a second completion of a task. Three items with two
at a time are the least for which a result frees a place while another runs and a
third waits. Two subworkflows are the least for which one is paused or rerun while
its sibling goes on. Three executions are the least for which a number to keep (1)
leaves two to delete in two batches. Two engines are enough for a stale copy, since
the row is won by one of them; four rows in pages of two are the least for a page
with a successor that loses its marker. Two processes and two joins are the least for a
circle of waits, and a third task finds what the first two left.

Some properties are conjunctions of several, each with its own comment, so that one
run states what must hold of one component: `EngineInv` (types, `VerdictMatchesTasks`,
`JoinWaitsForInbound`), `PauseInv`, `RefreshInv`, `ServicesInv`, `ServicesLive`,
`CopiesAgree`, `AnswersAreTrue`, `ReverseInv`, `CommandsInv`, and so on.

Deadlock is not checked in any run: a workflow that has ended, a scheduler whose
jobs have all run, and a scenario that is used up really stop. `RunningHasWork`,
`NoLostRefresh` and the liveness properties say that the system does not stop too
early.

Every property of a passing run is accompanied in `PROJECT.json` by a mutant: a
definition changed the way a plausible bug would change the code (an UPDATE
without its condition, an early return dropped, the second check under the lock
forgotten, a cache keyed by too little, ...), under which TLC refutes the property.
The mutated forms stand in the modules just before the definition they replace.


## 6. Fairness

* `DefaultScheduler!Fairness`: weak fairness of every job's clock and worker, of
  the end of an open transaction, of every checker and of the restart of a dead
  process. The threads loop for ever (`while not self._stopped`), the pool has a
  thread for every job of these instances, time passes, and a supervisor restarts
  an engine. A crash or a failed preparation is never owed, except that a process that was told to stop
  ends.
* `RefreshFairSpec`: the same for the processes that are deployed, and weak fairness
  of the operations of the post-transaction queue, which the process runs directly
  after its commit.
* `EngineFairSpec`, `ControllersFairSpec`: weak fairness of all steps of the system
  as a whole: messages are delivered, transactions end, captured jobs run, actions
  return. One condition is enough because a behaviour has only finitely many such
  steps: the graphs have no cycle and the operator's steps are bounded. No fairness
  on any step of the operator: nobody has to start, resume or stop anything.
* `ActionFairSpec`: messages that are not lost are delivered, executors go on beating
  and return, the checker comes round, time makes a heartbeat too old when nobody
  beats, and an executor that is down is started again. No fairness for a
  crash, a loss, an operator, or the result of an asynchronous action, so
  `SyncTasksEnd` is about synchronous actions only.
* `PolicyFairSpec`, `ItemsFairSpec`: jobs and results come. An action of a task with a
  timeout may stay silent for ever. The operator resumes what he paused: a paused
  task cannot end otherwise.
* `SubFairSpec`: the same with the integrity check, and a resume of the root.
* `ServicesFairSpec`: each loop comes round, time passes, scheduler jobs run, tasks
  end. None for users and faults.

The API promises nothing in time; `ApiSpec` has no fairness.


## 7. Proofs

`tlapm` checks every step of every theorem below. Nothing is assumed but the named
assumptions on constants (`SchedulerAssumption`, `EngineAssumption`, and so on), which
TLC evaluates on each instance, and the hypotheses that a theorem itself states:

| hypothesis | of | why it is needed |
|---|---|---|
| `MaxPause = 0` | `SteadyInvariant`, `EngineSafety`, `EveryTaskStartedOnce`, `EveryTaskIsOwed`, `NoLostWakeUp` | with a pause a join may be forgotten and a task rerun: the finding of `engine_resume_join` (section 8) |
| `Serial`, `Join = {}`: transactions of the engine come one after another, and no task is a join | `AloneInvariant`, `PauseSafety` | with a pause, a completion that overlaps the resume is forgotten, and so is a join that a resume dispatches (section 8); the run `engine_pause` has the same restrictions |
| every join waits for all its inbound tasks | `EveryTaskStartedOnce` | a partial join may run twice (section 8) |
| `TimeoutApart`: a timeout comes without retry, wait-before and pause-before | the theorems on policies | what `Separate` excludes in the run, for the same reason (section 8) |
| `Modes \subseteq Supported`: the kinds of tasks the run explores | the theorems on with-items tasks | with a limit between one and the count, a second iteration may take a running item again; the others of section 8 |
| `RerunApart`: reruns come without pauses by the operator | the theorems on subworkflows | a rerun resumes the root over the heads of paused subworkflows (section 8). It is weaker than `Separate` of the run, which also restricts losses and RPC; those matter only for `RootEnds` |

| module | theorem | states |
|---|---|---|
| `ScheduledJobs_proofs` | `TypeCorrect`, `Invariant` | `TypeOK`, the inductive invariant `IInv` |
| | `CapturesExclude` | `ExclusiveCapture` |
| | `CallsOncePerCapture` | `OneCallPerCapture` |
| | `DeletesAfterCall` | `DeletedOnlyAfterCall`: a row leaves the store only after a call returned |
| | `RolledBackNotCalled` | `RolledBackNeverCalled`: a job whose transaction rolled back is never called |
| | `RecapturesOnlyLapsed` | `RecaptureOnlyLapsed`: a capture finds `captured_at` NULL or the former one lapsed |
| | `ImplementsPromise` | `KeepsPromise`: the default scheduler implements `DelayedCalls` |
| `ScheduledJobs_proofs`, refresh jobs | `RefreshIsScheduled` | every step is a step of the scheduler, so its theorems hold of these jobs |
| | `RefreshInvariant`, `RefreshSafety` | the inductive invariant `RefreshKept`; `RefreshInv` |
| `WorkflowEngine_proofs` | `EngineInvariant`, `EngineTypeCorrect` | the inductive invariant `IInv`; `EngineTypeOK` |
| | `EndStaysFinal` | `EndIsFinal`: no overlap of handlers changes a completed workflow |
| | `SteadyInvariant`, `EngineSafety` | the inductive invariant `SteadyInv`; `EngineInv` |
| | `EveryTaskStartedOnce` | `StartedOnce` |
| | `EveryTaskIsOwed`, `NoLostWakeUp` | the inductive invariant `OwedInv`; `RunningHasWork` |
| | `AloneInvariant`, `PauseSafety` | the inductive invariant `AloneInv`; `PauseInv`: with a pause and a resume |
| `ActionExecution_proofs` | `Invariant`, `ActionSafety` | the inductive invariant; `ActionInv` |
| | `LivingAreNotFailed` | `LivingNotFailed` |
| | `ImplementsLifecycle` | `TaskLifecycle`: actions implement `Lifecycle` |
| `TaskPolicies_proofs` | `PolicyInvariant`, `PolicySafety` | the inductive invariant `PolicyKept`; `PolicyInv` |
| | `EndsAsPoliciesSay` | `EndMatchesPolicies` |
| `ScheduledJobs_proofs`, items | `ItemsInvariant`, `ItemsSafety` | the inductive invariant `ItemsKept`; `ItemsInv` |
| | `VerdictIsOfAllItems` | `VerdictCoversItems` |
| `SubWorkflows_proofs` | `SubInvariant`, `SubSafety` | the inductive invariant `SubKept`; `SubInv` |
| | `PausedWithTheRoot`, `CancelledToTheLeaves` | `PausedTogether`, `CancelReachesAll` |
| `Controllers_proofs` | `ReverseInvariant` | `ReverseInv`, also of workflows whose requirements have a cycle and of transactions that overlap |
| | `DispatcherInvariant`, `CommandsSafety` | the inductive invariant `DispatcherHeld`; `CommandsInv`, for any clauses, any number of pauses and stops, and completions that overlap a resume |
| | `ControllersSafety` | both, of the composition that the run checks |
| `Services_proofs` | `ServicesSafety` | `ServicesInv` |
| | `LegacyImplementsPromise` | `KeepsPromise` of the legacy scheduler: with the default one, any caller may rely on `DelayedCalls` |
| | `MaintenanceIsQuiet`, `NewestAreKept` | `NothingRunsInMaintenance`, `KeepsNewest` |
| `Api_proofs` | `ApiInvariant` | the inductive invariant of the six parts |
| | `CopiesAlwaysAgree`, `TriggersAlwaysStart`, `AnswersAreAlwaysTrue`, `JoinLocksSafety` | `CopiesAgree`, `TriggersCanStart`, `AnswersAreTrue`, `JoinLocksInv` |

The proofs are laid out alike: an inductive invariant in named conjuncts, a lemma per
action or per conjunct that says what a step keeps of it, then the theorems. What
follows is why each invariant is what it is.

**The default scheduler.** `ExclusiveCapture` says nothing about a checker that has
selected a job and not captured it yet, nor about copies in memories, so it is not
inductive. `IInv` adds what ties the copies to the row: held captures were really made
(`HeldInRange`), a held capture that is not the current one was slow
(`OvertakenIsSlow`), a batch that still matches the row found it empty or lapsed
(`FreshBeforeCapture`: a lapse is undone only by a capture, and that changes the
number), every capture is in one thread's hands (`DistinctCaptures`), and a row that was
never committed was never captured (`CapturedIsStored`). Then two holders of a job have
different numbers, at most one of which is current, and the other is slow.
`ImplementsPromise` maps each action to a step of `DelayedCalls` or a stutter: a call
adds the number of the capture that its thread holds, and that one was stored by
`CapturedIsStored`.

**Refresh requests.** `RefreshInvariant` takes the scheduler's invariant over through
`RefreshIsScheduled`, and adds when "a job exists" may be believed: a job that the
memory of a process holds to be free is really still to be called (`MemoryIsRight`), so
a request that relied on one is answered by the call of that one or a later one
(`CallIsToCome`).

**The engine: types and ends.** `EngineTypeOK` is not inductive: a handler uses the
fields of its call (the task of a start, the number of an action, the result), and
those are typed only if the call has the form its operation gives it (`WellFormed`).
`EndIsFinal` needs in addition what a transaction may still believe: a pause in
progress saw RUNNING, a resume PAUSED, a stop one of the two (`WellLoaded`), because the
early returns ran when it loaded. From there the argument is that of the code: each
UPDATE of the workflow names the state it was decided on, and that state is never a
final one; the completion check decides on the state it read last, and completes
only what it saw RUNNING, or cancels what it saw PAUSED.

**The engine: what tasks promise each other** (`SteadyInv`). A task that triggered
others is final (`TriggersAreFinal`), what exists was triggered or is a start task
(`TriggeredExist`), a task has no action before it runs (`NothingBeforeStart`), actions
and messages follow the state of their task (`ActionsFollowTask`), and nothing that
could still change the verdict is under way in a completed workflow
(`NothingUnderWay`). The verdict is then read from tasks that will not change, and a
join found its inbound tasks final. A completion check that has counted (`counted`,
`decided`) is a promise of its own: without pauses, once no task was incomplete none
becomes so again, because whoever completes a task creates the next ones in the same
transaction. So its three reads agree, however far apart they are.

**The engine: no wake-up is lost** (`OwedInv`). Every task that is not completed is
owed something: IDLE its start, RUNNING the result of its last action, a waiting join a
refresh unless its logical state is WAITING, and a workflow whose tasks are all done
the completion check. A transaction in progress counts as owed only if its loaded state
will pass its conditional UPDATE. The case that is hard is the join: a completion
registers a refresh for the joins that the code finds by its own recursion
(`find_indirectly_affected_task_executions`), and those must be all whose logical state
may have changed. `Possible`, `Affected` and the routes are recursive functions over the
graph. The facts about them are proved without induction, by a least counterexample on
`level`: `RouteExists` (the recursion finds every route), `PossibleFix` and
`PossibleFixNext` (`Possible` is the fixed point of its equation, before and after a
step), `AffectedClosed` (what is behind an affected join without passing another join is
affected), and from these `StillWaits`: a join that the step did not notify has the
logical state it had. `NobodyWaits` closes the argument: if nothing is owed, the
lowest task that waits has only inbound tasks that are final or impossible, so its
logical state is not WAITING, against `JoinIsRefreshed`. This needs that joins exist
with any number of inbound tasks, partial or all.

**The engine: a pause and a resume** (`AloneInv`). While the workflow is paused the
promises of `SteadyInv` and `OwedInv` are suspended: tasks end and trigger nothing, and
a resume may start again a task that a start on its way is about to start. Without
overlaps a transaction knows what the tables have (`LoadedIsCurrent`), and
without joins the graph is a forest, so that what is said of a task and of those that it
triggers is not touched by other tasks. The induction then rests on three things. A task that may still
trigger others, because it has not ended, was not processed or will be started again,
has triggered none (`ChildrenFresh`). Whatever is idle, running or done is owed a
start, a result or a check by a call on its way, taken or not (`AllIsOwed`). What has
ended was followed up, except while the workflow is paused, unless it was stopped or a
task was started again (`FollowedUp`). The assumption that failures lead nowhere in
workflows with a pause is used in one place: a task that has failed, and will be started
again by a call of the resume, has triggered nothing by failing.

**Reverse workflows.** What a task needs is computed by a function that is iterated as
often as there are tasks; `NeedsFacts` shows that this is the least set with the task
that is closed under its requirements, and `CycleExists` that there is a cycle wherever
every task of a set waits for another one of it. So if nothing can be started and the
target was not reached, then either something is still at work, or was skipped, or there
is a cycle (`NothingLeft`). This needs that a task has one execution, which began after
its requirements succeeded, and that what a transaction found is what it would find when
it commits (`Serial`, `Unskipped`). The values that arrive need no such condition on
overlaps: if the variable keeps its kind, each task has one version of it, the greatest
that its requirements hand on (`Versions`), whoever looked for the task and in whatever
order the contexts were merged (`UpstreamNewest`: the fold returns the newest). A task
before another one has a lower version (`NeededIsOlder`), so the value that arrives is
not one that was replaced. Folds and iterated functions are handled by induction over
sets of numbers (`AllNaturals`), not by the library's theorems.

**Commands** (`DispatcherHeld`). A session of the dispatcher is a loop over two cut and
sorted sequences. `Round` says what one command does to a session, and six predicates
carry that over the loop (`SessionOf`): the state moves at most once, from RUNNING;
executions are added and keep their places; every command is carried out, saved or cut,
and none is both carried out and saved; a message belongs to one of them. Neither
`DispatchedOnce` nor `NothingLost` is inductive. The first needs that the backlog does
not hold what was already carried out (`Foreign`) or one command twice (`Apart`), and that
what is there comes from the present run of a processed execution (`SourcesOf`), so that
the clause of an execution completing now cannot be there yet. The second needs that the
backlog counts (`NoneLost`), and both that a resume still knows the backlog it loaded, and
that the executions it took for unprocessed still are (`LoadedOf`, `StillOf`): a
completion that overlaps it saw PAUSED and processes nothing, and one that saw a final
state needs that the workflow has ended. `DeferredJoinsWait` needs that an
execution with a key is never started by the dispatcher (`Keyed`). Then each handler
opens a transaction, leaves the backlog alone (`Quiet`), or commits a session
(`Committed`), and `Dispatching` says for the last what the commands to dispatch must
satisfy (`Dispatchable`) so that its commit keeps all that. `ToDoSays` and
`UnprocessedSays` say what sorting, cutting and flattening keep of a sequence.

**Actions.** What the checker fails is lost to everybody (`ExpiredIsLost`: no request on
its way, no thread at work, or a late heartbeat), threads are tracked while they run
(`ThreadsAreTracked`), and the row and the task of an action move together
(`TaskFollowsRow`), so the first result that is written is the one the task takes.

**Policies.** The invariant is a disjunction of phases (`Idle`, `ToContinue`, `Acting`,
`ToComplete`, `Ended`): in each the task waits for exactly one message, job, action or
transaction, whatever old transactions are still open, and the timer only adds its own
(`TxsKept`, `TimerKept`, `DispatchKept`). Each action takes a phase to a phase.

**With-items.** The executions of a task are those of former iterations, whose results
were given up, and behind them the ones of the present iteration, in the order of their
items (`Iteration`). So the number of executions that count is the index of the next
item (`Counted`), the indexes to run are an interval from there (`NextItems`), and
starting them continues the sequence (`StartedItems`). `IsCompleted` looks at the
capacity as well as at the number of results: capacity, running executions and waiting
jobs add up to the limit (`Iterating`), so a full capacity means that no job is left
to start an item, or to end the task, of the next iteration (`AllRan`). That sum is
what makes a retry safe, and what a job that is executed twice would break.

**Subworkflows.** The task of the root ended as its subworkflow did (`Agree`), unless
somebody stopped the root under it; a stopped root without reruns stays stopped, so the
exception does not spread. What is paused in a paused root has a paused task
(`TasksArePaused`), and what ended by itself ended with its tasks (`EndedWithTasks`).

**Services.** Each service has its own invariant over its own variables, and the lemma
that steps of the others leave these alone, except where they share executions. Calls
of the legacy scheduler are in the hands of one loop (`CallsAreTaken`). The copies of
cron triggers are behind the row and a period is spent once (`CopiesAreBehind`,
`SpentOnce`), a trust is kept for what needs it (`TrustIsHeld`), requests to the event
engine hold one trigger at a time (`OneAtATime`). In maintenance, an execution that runs
while a pause is in progress is among those still to be paused (`PauseCovers`) or is
excused by a write decided on before (`LateWriteExcused`). Expiration rests on the
order of completion: what was fetched is older than what a limit keeps, also after
others have completed or were deleted (`OrderOfCompletion`, `ExpiredAreOldest`,
`BatchesAreRemovable`).

**The API.** Locks are exclusive, and a step of one part opens, changes or closes
transactions of its own kinds only (`Moves`, `Spares`, `Acquires`), so each part has an
invariant of its own over its transactions (`BookKept`, `CodeKept`, `ShareKept`,
`StartKept`, `ListKept`, `JoinKept`). A listing has seen exactly the rows before its
marker; the least row after it exists if any does (`LeastExists`). Joins are free of
circles since a transaction waits for a name greater than all it holds: among the
processes that wait, take the one that waits for the greatest (`GreatestExists`); the
holder of that name does not wait.

**Model-checked only.**

Liveness, which needs fairness and ENABLED: `CommittedJobRuns`, `EveryCompletionSeen`,
`WorkflowEnds`, `SyncTasksEnd`, `TaskEnds`, `ItemsEnd`, `RootEnds`, `ReverseEnds`,
`CommandsEnd`, `ServicesLive`, `CommittedCallIsMade`. Every safety property of a passing
run is stated by a theorem.


## 8. What the code does and its words do not say

One disagreement has a run of its own, `engine_resume_join`: both inbound tasks of a
join complete while the workflow is paused. They find the workflow PAUSED and leave
the continuation to the resume, which dispatches the join; its first run puts it to
WAITING, and `run_task` schedules a refresh only of a waiting task that is *rerun*
(`task_handler.py:119-122`). The operations that would ask for one belong to
completions that are over, so the execution stays RUNNING and the join WAITING.
`wf_lang_v2.rst:792-793` says that a paused workflow "can continue when its state is
set to RUNNING", and `:913-915` that a join runs when its upstream tasks completed.

The others below were met while modelling. Where a module meets them, its properties
except them by name, so that what is claimed is what the code does; each exception is
as narrow as the case described here.

**Engine** (outside the bounds of the runs, or with other workflows).

* A completion that loaded the workflow as PAUSED, and commits after a resume looked
  for unprocessed tasks, is continued by neither (`tasks.py:423`), against
  `workflows.py:309-311`. `Dispatcher` meets it as the incident "missed".
* A resume sends `start_task` for every IDLE task (`workflow/base.py:281`), also when
  the first message is on its way. If the second finds the task running or failed, the
  action runs twice; `Dispatcher` meets that as "restarted". If it finds the task
  succeeded, `_run_existing` raises `MistralError`, which is no `MistralException`
  (`exceptions.py:44`, `:58`) and passes by the handler of `run_task`: `start_task` is
  rolled back, not retried, and the message is gone.
* The completion check counts before it reads the workflow again (`workflows.py:457`,
  `:472`). If it loaded RUNNING, counts when a paused workflow has no incomplete task,
  and reads again after a resume has created the next ones, it completes the workflow
  as SUCCESS with a task IDLE, against "Workflow is not completed if there are any
  incomplete task executions" (`:455`). This takes a pause and an overlap, which no
  instance of `WorkflowEngine` combines; without a pause the check is right
  (`EngineInv`).
* `Task.defer` (`tasks.py:285`) puts a join in any state but WAITING back to WAITING:
  a `join: one` that ran is deferred by its second inbound task and runs again
  (`test_join.py:340`, `test_partial_join_triggers_once`). `Dispatcher` meets the same of
  other joins as "rejoined".
* `Action.complete` refuses a second result by a state its transaction loaded
  (`actions.py:223`); two overlapping results both pass, and the later commit replaces
  the state of the action. The task keeps the first (`ActionInv`).
* `start_task` is the one handler that is not retried after a database error
  (`default_engine.py:85`): the task stays IDLE until somebody pauses and resumes.
* Two overlapping resumes: the second finds the state changed and still saves its
  commands in the backlog of a RUNNING workflow. One resume is in progress at a time
  in `WorkflowEngine` and `Dispatcher`.
* `_possible_route` follows inbound tasks without marking them: a cycle of tasks that
  were not executed, upstream of a join, recurses without end.

**Refresh requests.** `has_scheduled_jobs` answers from the memory of the process
first, whose objects do not learn of a capture by a checker: with a pool that is late
by `pickup_job_after`, a completion relies on a refresh that already read the states
(`task_handler.py:344-348` means to exclude it). A rolled back `schedule` leaves its
job in `in_memory_jobs`, so the retry believes it exists. The operations in a
post-transaction queue die with the process. `Undisturbed` excepts these three, and a
job whose preparation failed, which is gone from memory but stays captured.

**Default scheduler.** `_prepare_job` is called outside any `try`
(`default_scheduler.py:165`, `:271`). A job that cannot be prepared is neither called
nor deleted; it comes back each time its capture lapses, for ever if it can never be
prepared. Each time, the jobs behind it in its batch stay captured and wait for
`captured_job_timeout` as well. `CommittedJobRuns` is about failures that are bounded
(`MaxFailure`).

**Commands.** A join that follows a `pause` is saved without its `wait`
(`restore_command_from_dict`): it is restored as an ordinary task, runs before its
other inbound tasks, and a later inbound task creates a second execution, which runs
again or waits for ever ("restoredJoin", "lateJoin"). `run_existing` and skip commands
in the backlog are restored as new executions. A resume whose only commands are noops
never checks for completion ("onlyNoops"). A `fail` or `succeed` that meets an
operator's pause is dropped without a trace, and a `pause` that does lets the commands
behind it run. A late completion of a stopped workflow drops the backlog, which
otherwise survives the stop and is dispatched by a rerun.

**Reverse workflows.** Two completions that overlap do not see each other: the task
that requires both is started by neither, and the workflow succeeds without its target
(the class promises to come to it, `reverse_workflow.py:25-38`). Two
later completions that overlap may then both start it, although "there can't be
multiple executions for one task" (`reverse_workflow.py:97-99`); that takes more tasks
than the instances have. Cyclic `requires`
are accepted: nothing starts. A skipped requirement is never satisfied, so the target
is not run although the workflow succeeds. Two reruns of one failed task that both
passed the check at the API run it twice; or the second comes when the first has
succeeded. Then it has set a workflow that had ended to RUNNING again, its start is
rolled back (`tasks.py:649`) and nothing will check the workflow: it stays RUNNING for
ever. If the task had completed while the workflow was in ERROR, a completion that
starts nothing, a check that is still to come may instead end the revived workflow as
SUCCESS without its target. The history variable `late` marks these two.

**Data flow.** Versions are kept under the key that was published: if one task
publishes a scalar and a later one a dictionary under the same name, the versions do
not meet and the older value may win; of two independent publishers the order of the
rows decides. Without versioning `evaluate_upstream_context` changes the context of a
task execution in place, although the note at `data_flow.py:248` asks for a copy.

**Policies.** `_continue_task` sets RUNNING whatever the state, and the timeout job is
scheduled once for all retries (`policies.py:555`, `wf_lang_v2.rst:440-442`); combined
with retry, wait-before or pause-before it may end a task that has not started again
or miss one that has. A join never gets the policies before a start.

**With-items.** A retry or rerun with a concurrency between one and the count starts a
running index again and skips another, and the task still succeeds (the test is
skipped: "Restore concurrency support."). A completion job that is executed twice
raises the capacity twice. `rerun(reset=False)` with a failure before a success runs
accepted items again. What a timeout or a bad item leaves running is not seen by a
second iteration. `Supported` excludes these.

**Subworkflows.** A rerun of one subworkflow resumes a PAUSED root over its paused
siblings; a lost result of a PAUSED task is not recovered; a resume of a root with
paused subworkflows resumes the root twice, and its IDLE tasks start twice; a
subworkflow that fails during a resume fails its task without `on-error`; if the last
paused one completes at once on resume, or two resumes of subworkflows overlap, the
root stays PAUSED; a parent is locked after its state was loaded. One that is started
by its message after a cancel is not cancelled.

**Executors.** `stop()` of an executor ends its heartbeats before its running actions
(`executor_server.py:64-70`), so the checker fails them. A synchronous action without
a task is never expired. The batch of the checker has no limit: the result of
`query.limit()` is dropped (`api.py:1625-1626`). An action that runs within the request
that starts it runs again if the database fails afterwards.

**Cron.** Advance before start means at most once: a failure in between loses that
execution. A stale copy with one remaining execution deletes, by name, a trigger that
was created again. The trust of a trigger that is gone is deleted when any of its
executions completes.

**Event engine.** The list of events is sent before the commit and replaces the
listener, so overlapping requests leave a wrong listener and a rollback leaves a
trigger that is not in the table (`disturbed`). An exception of `create_context`
ends the loop; the queue is lost in a restart.

**Maintenance.** `_pause_executions` reads the status and writes PAUSED without a lock;
a change of mode in between is overwritten. Its jobs may overlap. Resuming runs under
the context of one project at a time and rolls back for the second
(`maintenance.py:196-207`); it also resumes what users had paused. Triggers do not
pass the hook. Executions in `excused` are those of these overlaps.

**Expiration.** `older_than` has no default, and without one every pass raises
(`timedelta(minutes=None)`). A deletion by id takes an execution that was rerun since
the fetch. A row whose deletion always fails makes the pass go on for ever.

**Legacy scheduler.** A call is made at most once: a batch interrupted by a death or by
one call that cannot be prepared stays `processing` and is never taken again.

**API.** Two updates of a definition within a second share `updated_at`, and a process
may start with the older one (`hurried`). Two overlapping updates of a code source give
one version to two texts. After a failed start or a deletion `_WF_EX_CACHE` keeps the
specification under the id. A membership may be withdrawn under a trigger. A PUT of an
unchanged workbook locks nothing and, overlapping another, leaves members behind; a
member removed from the document keeps its row. A list request that is retried in the
middle of a page keeps the resources it had converted (`rest_utils.py`), so the page is
too long and has no link to the next; a row that vanishes meanwhile has the same effect.


## 9. What is not modelled

* *Language and expressions*: parsing, validation, YAQL and Jinja turn text into data;
  the graph of clauses and the values of policies are constants or choices here.
* *Actions and notifiers*: an action is a result that comes later; nothing depends on a
  notification.
* *Database layer*: sessions, generic queries, migrations and SQLite's own lock. What
  is left of it is the conditional UPDATE, row locks, commit and rollback, retry.
* *RPC layer*: drivers, and the timeout of a blocking call; calls are an unordered pool.
* *API*: environments, reports, validation endpoints, access policies, and the
  conversion of resources.
* *Executors*: `safe_rerun`, because the driver never sets `redelivered`.
* *Direct workflows with cycles*, and conditions of clauses.
* *Lock waits* other than those for the named locks of joins: row locks of flushed
  UPDATEs, and the locks of a refresh, of a continuation and of with-items, each of
  which a transaction takes before those of joins.
* *Subworkflows* deeper than one level, or as items; policies of a root task.


## 10. Plan

All safety properties of the passing runs are proved. What is left is in section 9; the
part that would say most is two resumes that overlap, since `Loaded` relies on there being
one: its second session would have to be shown to save only what the first one did not
dispatch, which the code does not ensure.
