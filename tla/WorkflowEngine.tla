--------------------------- MODULE WorkflowEngine ---------------------------
(***************************************************************************)
(* The engine runs one execution of a direct workflow.  Its engine         *)
(* processes keep no state between calls: every handler is a database      *)
(* transaction (READ COMMITTED) that loads objects, decides on what it     *)
(* loaded, and changes states by UPDATE ... WHERE state = <loaded state>.  *)
(* What it wants from others it registers in a queue that is executed      *)
(* after the commit: RPC calls to engines and executors, the completion    *)
(* check, and requests to refresh "join" tasks.                            *)
(*                                                                         *)
(* A call is taken by Begin, which loads what the handler decides on, and  *)
(* ends with one atomic step of the handler, its commit: transactions      *)
(* overlap freely in between.  The completion check reads more than once,  *)
(* each time in a step of its own.  The refresh jobs are those of the      *)
(* scheduler (see RefreshRequests): a set, since no second one is          *)
(* scheduled while there is an unprocessed one.  Engine commands,          *)
(* policies, with-items, subworkflows and reruns are not part of this      *)
(* module.                                                                 *)
(***************************************************************************)
EXTENDS Integers, Sequences, FiniteSets

CONSTANTS Task,        (* the tasks of the workflow                          *)
          NoTask,      (* the "task" of a call that is not about a task      *)
          OnSuccess, OnError, OnComplete,  (* [Task -> SUBSET Task]: clauses *)
          Join,        (* the tasks with "join"                              *)
          Needed,      (* [Join -> Nat]: its number; of inbound for "all"    *)
          Outcome,     (* [Task -> SUBSET ActionEnd]: how its action may end *)
          Serial,      (* BOOLEAN: transactions do not overlap               *)
          MaxPause,    (* bound: pauses by the operator                      *)
          MaxStop,     (* bound: stops by the operator                       *)
          MaxExtra     (* bound: results an operator reports                 *)

Out(t) == OnSuccess[t] \cup OnError[t] \cup OnComplete[t]
In(t)  == {u \in Task : t \in Out(u)}

ActionEnd == {"SUCCESS", "ERROR", "CANCELLED"}
Completed == {"SUCCESS", "ERROR", "CANCELLED"}

\* There are tasks, and no cycle.  A task has one execution at most (the code adds a
\* row per RunTask command): only joins have several inbound tasks, a clause
\* names a task once, nothing follows a partial join, which may run twice, or the
\* failure of a join, which may fail again, and with a pause, whose resume may
\* rerun a failed task, failures lead nowhere.
ASSUME EngineAssumption ==
    /\ IsFiniteSet(Task) /\ Task # {} /\ NoTask \notin Task
    /\ Join \subseteq Task
    /\ OnSuccess \in [Task -> SUBSET Task]
    /\ OnError \in [Task -> SUBSET Task]
    /\ OnComplete \in [Task -> SUBSET Task]
    /\ \E level \in [Task -> 1..Cardinality(Task)] :
          \A t \in Task : \A u \in Out(t) : level[t] < level[u]
    /\ \A t \in Task : (OnSuccess[t] \cup OnError[t]) \cap OnComplete[t] = {}
    /\ \A t \in Task \ Join : \A u, v \in In(t) : u = v
    /\ \A j \in Join : /\ Needed[j] \in 1..Cardinality(In(j))
                       /\ Needed[j] < Cardinality(In(j)) => Out(j) = {}
                       /\ OnError[j] \cup OnComplete[j] = {}
    /\ Outcome \in [Task -> (SUBSET ActionEnd) \ {{}}]
    /\ Serial \in BOOLEAN
    /\ MaxPause \in 0..1 /\ MaxStop \in Nat /\ MaxExtra \in Nat
    /\ MaxPause > 0 => \A t \in Task : \/ Outcome[t] = {"SUCCESS"}
                                       \/ OnError[t] \cup OnComplete[t] = {}

WfState   == {"NONE", "RUNNING", "PAUSED"} \cup Completed
TaskState == {"NONE", "IDLE", "WAITING", "RUNNING"} \cup Completed

VARIABLES
    wf,         \* the state of the workflow execution
    task,       \* [Task -> TaskState]: the task executions, NONE: no such row
    processed,  \* SUBSET Task: the "processed" flags
    next,       \* [Task -> SUBSET Task]: the names in next_tasks
    handled,    \* SUBSET Task: the "error_handled" flags
    action,     \* [Task -> Seq]: the states of the action executions
    calls,      \* SUBSET Call: RPC messages and post-transaction operations
    txs,        \* SUBSET Tx: the transactions in progress
    jobs,       \* SUBSET Join: the unprocessed refresh jobs
    again,      \* history: the tasks whose start_task resume sent once more
    pauses, stops, extras   \* how often the operator did that

taskVars == <<task, processed, next, handled>>
histVars == <<again, pauses, stops, extras>>
vars == <<wf, taskVars, action, calls, txs, jobs, histVars>>

(* Calls.  "start": run_task, arg is 0 for the first run and the number of   *)
(* the resume otherwise; "run" and "done": action number arg, on its way to  *)
(* the executor, and its result; "check": check_and_complete; "request":     *)
(* _schedule_if_needed for join task, registered by task arg.  "refresh",    *)
(* "pause", "resume" and "stop" are seen in transactions only, and so are    *)
(* the later stages of the check: "counted", and "decided" on state res.     *)
Call(op, t, arg, res) == [op |-> op, task |-> t, arg |-> arg, res |-> res]

Ops   == {"start", "run", "done", "check", "counted", "decided", "request",
          "refresh", "pause", "resume", "stop"}
Calls == [op : Ops, task : Task \cup {NoTask}, arg : Nat \cup Task,
          res : ActionEnd \cup {"NONE"}]
Txs   == [call : Calls, wf : WfState,
          seen : UNION {[S -> TaskState] : S \in SUBSET Task}]

Start(t, n)     == Call("start", t, n, "NONE")
RunAction(t, n) == Call("run", t, n, "NONE")
Done(t, n, res) == Call("done", t, n, res)
Check(t)        == Call("check", t, 0, "NONE")
Request(j, t)   == Call("request", j, t, "NONE")
Operator(op, n, res) == Call(op, NoTask, n, res)

EngineTypeOK ==
    /\ wf \in WfState
    /\ task \in [Task -> TaskState]
    /\ processed \subseteq Task
    /\ next \in [Task -> SUBSET Task]
    /\ handled \subseteq Task
    /\ action \in [Task -> Seq(ActionEnd \cup {"RUNNING"})]
    /\ calls \subseteq Calls
    /\ txs \subseteq Txs
    /\ jobs \subseteq Join
    /\ again \subseteq Task
    /\ pauses \in Nat /\ stops \in Nat /\ extras \in Nat

Init ==
    /\ wf = "NONE"
    /\ task = [t \in Task |-> "NONE"]
    /\ processed = {}
    /\ next = [t \in Task |-> {}]
    /\ handled = {}
    /\ action = [t \in Task |-> <<>>]
    /\ calls = {}
    /\ txs = {}
    /\ jobs = {}
    /\ again = {}
    /\ pauses = 0 /\ stops = 0 /\ extras = 0

-----------------------------------------------------------------------------
(* The workflow graph: what DirectWorkflowController computes.               *)

\* _find_next_tasks(): the clauses that apply to a task that ended in s.
Triggered(t, s) ==
    CASE s = "SUCCESS" -> OnSuccess[t] \cup OnComplete[t]
      [] s = "ERROR"   -> OnError[t] \cup OnComplete[t]
      [] OTHER         -> {}

\* _possible_route(): t has no execution, could it still get one?  Route[n]
\* looks n levels up.
PossibleAlways(t) == TRUE                             \* mutant: any route
Possible(t) ==
    LET Route[n \in 0..Cardinality(Task)] ==
          {u \in Task :
             \/ In(u) = {}
             \/ \E v \in In(u) :
                   IF task[v] = "NONE"
                   THEN n > 0 /\ v \in Route[n - 1]
                   ELSE task[v] \notin Completed \/ u \in next[v]}
    IN  t \in Route[Cardinality(Task)]

\* _get_induced_join_state(): what the inbound task t means for the join j.
Induced(t, j) ==
    CASE task[t] = "NONE"         -> IF Possible(t) THEN "WAITING" ELSE "ERROR"
      [] task[t] \notin Completed \cup {"NONE"} -> "WAITING"
      [] task[t] \in Completed    -> IF j \in next[t] THEN "RUNNING" ELSE "ERROR"

\* _get_join_logical_state().
LogicalState(j) ==
    LET Count(s) == Cardinality({t \in In(j) : Induced(t, j) = s})
    IN  CASE Count("RUNNING") >= Needed[j] -> "RUNNING"
          [] Count("RUNNING") < Needed[j] /\
             Count("ERROR") > Cardinality(In(j)) - Needed[j] -> "ERROR"
          [] OTHER -> "WAITING"

\* find_indirectly_affected_task_executions(): the existing joins that are
\* reached from t without passing another existing join.
AffectedDirectly(t, state) ==                         \* mutant: direct ones only
    {j \in Join \cap Out(t) : state[j] # "NONE"}
Affected(t, state) ==
    LET exists == {j \in Join : state[j] # "NONE"}
        Reach[n \in 0..Cardinality(Task)] ==
          IF n = 0 THEN Out(t)
          ELSE Reach[n - 1] \cup UNION {Out(u) : u \in Reach[n - 1] \ exists}
    IN  Reach[Cardinality(Task)] \cap exists

-----------------------------------------------------------------------------
(* Building blocks of the handlers.                                         *)

\* UPDATE ... WHERE state = <the loaded state>, of a task and of the workflow.
UpdateMatches(t, seen)    == task[t] = seen
WfMatchesAny(x) == TRUE                               \* mutant: plain UPDATE
WfMatches(x)    == wf = x.wf

\* dispatch_workflow_commands() for RunTask of the tasks in S: a new row in
\* IDLE, or Task.defer() of a join: it always ends in WAITING.  The start_task
\* of a waiting join returns at once and is left out.
Dispatched(f, S) ==
    [n \in Task |-> IF n \notin S THEN f[n]
                    ELSE IF n \in Join THEN "WAITING" ELSE "IDLE"]
StartNew(S) == {Start(n, 0) : n \in S \ Join}

\* _check_affected_tasks(t), on task states f.
Requests(t, f, seenWf) ==
    IF seenWf \in Completed THEN {} ELSE {Request(j, t) : j \in Affected(t, f)}

\* Task.complete(s) and _check_affected_tasks(): the task was loaded in state
\* seen, the workflow in seenWf.
CompleteTask(t, s, seen, seenWf) ==
    LET cmds   == IF seenWf \in Completed THEN {} ELSE Triggered(t, s)
        paused == seenWf = "PAUSED"
        run    == IF paused THEN {} ELSE cmds
    IN
    \/ /\ seen \in Completed
       /\ calls' = calls \cup Requests(t, task, seenWf)
       /\ UNCHANGED taskVars
    \/ /\ seen \notin Completed /\ ~UpdateMatches(t, seen)   \* the UPDATE matches no row
       /\ UNCHANGED <<taskVars, calls>>
    \/ /\ seen \notin Completed /\ UpdateMatches(t, seen)
       /\ task' = Dispatched([task EXCEPT ![t] = s], run)
       /\ next' = [next EXCEPT ![t] = cmds]
       /\ handled' = IF s = "ERROR" /\ cmds \cap OnError[t] # {}
                     THEN handled \cup {t} ELSE handled \ {t}
       /\ processed' = IF paused THEN processed ELSE processed \cup {t}
       /\ calls' = calls \cup StartNew(run) \cup Requests(t, task', seenWf)
                        \cup IF cmds = {} /\ ~paused THEN {Check(t)} ELSE {}

\* _schedule_actions(): a new action execution, sent to an executor.
ScheduleAction(t) ==
    /\ action' = [action EXCEPT ![t] = Append(@, "RUNNING")]
    /\ calls' = calls \cup {RunAction(t, Len(action[t]) + 1)}

\* check_and_complete() counts the incomplete tasks; if there is none, the tasks
\* decide how the workflow ends.
NotWaitingIncomplete(f) ==                            \* mutant: WAITING forgotten
    \E t \in Task : f[t] \in {"IDLE", "RUNNING"}
Incomplete(f) == \E t \in Task : f[t] \in {"IDLE", "WAITING", "RUNNING"}
Decision(f, h) ==
    IF \E t \in Task : f[t] = "CANCELLED" THEN "CANCELLED"
    ELSE IF \A t \in Task : f[t] = "ERROR" => t \in h THEN "SUCCESS"
    ELSE "ERROR"
Verdict(f, h) == IF Incomplete(f) THEN "RUNNING" ELSE Decision(f, h)

-----------------------------------------------------------------------------
(* Transactions.                                                            *)

Overlaps == Serial => txs = {}

Loads(c, S) == [call |-> c, wf |-> wf, seen |-> [t \in S |-> task[t]]]
Commits(x)  == txs' = txs \ {x}

\* start_workflow(): the execution and the start tasks, in one transaction.
StartWorkflow ==
    LET first == {t \in Task : In(t) = {}}
    IN  /\ wf = "NONE"
        /\ wf' = "RUNNING"
        /\ task' = Dispatched(task, first)
        /\ calls' = StartNew(first)
        /\ UNCHANGED <<processed, next, handled, action, txs, jobs, histVars>>

\* start_task(): loads the task execution and its workflow.
BeginStart(c) ==
    /\ c.op = "start" /\ Overlaps
    /\ calls' = calls \ {c}
    /\ txs' = txs \cup {Loads(c, {c.task})}
    /\ UNCHANGED <<wf, taskVars, action, jobs, histVars>>

\* RegularTask._run_new().
RunNew(x) ==
    LET t == x.call.task
    IN  /\ x.call.op = "start" /\ x.call.arg = 0
        /\ Commits(x)
        /\ \/ /\ x.seen[t] = "IDLE" /\ UpdateMatches(t, "IDLE")
              /\ task' = [task EXCEPT ![t] = "RUNNING"]
              /\ ScheduleAction(t)
           \/ /\ x.seen[t] = "IDLE" /\ ~UpdateMatches(t, "IDLE")
              /\ UNCHANGED <<task, action, calls>>
           \/ /\ x.seen[t] # "IDLE"
              /\ calls' = IF x.seen[t] \in Completed
                          THEN calls \cup Requests(t, task, x.wf) ELSE calls
              /\ UNCHANGED <<task, action>>
        /\ UNCHANGED <<wf, processed, next, handled, jobs, histVars>>

\* RegularTask._run_existing(), of an IDLE task that resume found: for one that
\* succeeded meanwhile it raises a MistralError, which run_task() does not catch
\* (it is no MistralException): start_task() rolls back.  Otherwise the action is
\* scheduled whether or not the state could be changed.
RunExisting(x) ==
    LET t    == x.call.task
        seen == x.seen[t]
        same == UpdateMatches(t, seen)
    IN  /\ x.call.op = "start" /\ x.call.arg # 0
        /\ Commits(x)
        /\ \/ /\ seen = "SUCCESS"
              /\ UNCHANGED <<task, processed, action, calls>>
           \/ /\ seen # "SUCCESS"
              /\ task' = IF same THEN [task EXCEPT ![t] = "RUNNING"] ELSE task
              /\ processed' = IF same /\ seen # "RUNNING"
                              THEN processed \ {t} ELSE processed
              /\ ScheduleAction(t)
        /\ UNCHANGED <<wf, next, handled, jobs, histVars>>

\* The executor runs action c.arg and sends its result.
Execute(c) ==
    /\ c.op = "run"
    /\ \E res \in Outcome[c.task] :
          calls' = (calls \ {c}) \cup {Done(c.task, c.arg, res)}
    /\ UNCHANGED <<wf, taskVars, action, txs, jobs, histVars>>

\* An operator reports a result for an action that has none.
ReportResult(t, i) ==
    /\ extras < MaxExtra
    /\ i \in DOMAIN action[t] /\ action[t][i] = "RUNNING"
    /\ extras' = extras + 1
    /\ \E res \in Outcome[t] : calls' = calls \cup {Done(t, i, res)}
    /\ UNCHANGED <<wf, taskVars, action, txs, jobs, again, pauses, stops>>

\* on_action_complete(): Action.complete() refuses a completed action.
BeginDone(c) ==
    /\ c.op = "done" /\ Overlaps
    /\ calls' = calls \ {c}
    /\ txs' = IF action[c.task][c.arg] = "RUNNING"
              THEN txs \cup {Loads(c, {c.task})} ELSE txs
    /\ UNCHANGED <<wf, taskVars, action, jobs, histVars>>

OnActionComplete(x) ==
    LET t == x.call.task
    IN  /\ x.call.op = "done"
        /\ Commits(x)
        /\ action' = [action EXCEPT ![t][x.call.arg] = x.call.res]
        /\ CompleteTask(t, x.call.res, x.seen[t], x.wf)
        /\ UNCHANGED <<wf, jobs, histVars>>

\* check_and_complete() reads three times.  It loads the workflow, ...
BeginCheck(c) ==
    /\ c.op = "check" /\ Overlaps
    /\ calls' = calls \ {c}
    /\ txs' = IF wf = "RUNNING" THEN txs \cup {Loads(c, {})} ELSE txs
    /\ UNCHANGED <<wf, taskVars, action, jobs, histVars>>

Turns(x, c) == txs' = (txs \ {x}) \cup {Loads(c, {})}
ChecksOn    == UNCHANGED <<wf, taskVars, action, calls, jobs, histVars>>

\* ... counts the tasks that are not complete, ...
CountTasks(x) ==
    /\ x.call.op = "check"
    /\ IF Incomplete(task) THEN Commits(x)
       ELSE Turns(x, Call("counted", x.call.task, 0, "NONE"))
    /\ ChecksOn

\* ... and, after expire_all(), reads workflow and tasks again to decide.
Decide(x) ==
    /\ x.call.op = "counted"
    /\ IF wf \in Completed THEN Commits(x)
       ELSE Turns(x, Call("decided", x.call.task, 0, Decision(task, handled)))
    /\ ChecksOn

\* A paused workflow can only be cancelled (_succeed_workflow and _fail_workflow).
CheckAndComplete(x) ==
    /\ x.call.op = "decided"
    /\ Commits(x)
    /\ wf' = IF WfMatches(x) /\ (x.wf = "RUNNING" \/ x.call.res = "CANCELLED")
             THEN x.call.res ELSE wf
    /\ UNCHANGED <<taskVars, action, calls, jobs, histVars>>

\* _schedule_if_needed().
ScheduleRefresh(c) ==
    /\ c.op = "request" /\ Overlaps
    /\ calls' = calls \ {c}
    /\ jobs' = jobs \cup {c.task}
    /\ UNCHANGED <<wf, taskVars, action, txs, histVars>>

\* _refresh_task_state(): the checks before the lock.  Refreshes of one join
\* overlap; a number tells them apart.
BeginRefresh(j) ==
    LET used == {x.call.arg : x \in {y \in txs : y.call.op = "refresh"}}
    IN  /\ j \in jobs /\ Overlaps
        /\ jobs' = jobs \ {j}
        /\ \E n \in 0..Cardinality(txs) :
              /\ n \notin used /\ \A k \in 0..(n - 1) : k \in used
              /\ txs' = IF task[j] \in Completed \cup {"RUNNING"} \/ wf \in Completed
                        THEN txs
                        ELSE txs \cup {Loads(Call("refresh", j, n, "NONE"), {})}
        /\ UNCHANGED <<wf, taskVars, action, calls, histVars>>

\* Under the lock the state is read again.
StillWaitingAny(j) == TRUE                            \* mutant: it is not
StillWaiting(j)    == task[j] = "WAITING"

\* Under the lock: continue_task(), complete_task(), or it keeps waiting.
RefreshTaskState(x) ==
    LET j == x.call.task
        s == LogicalState(j)
    IN  /\ x.call.op = "refresh"
        /\ Commits(x)
        /\ \/ /\ StillWaiting(j) /\ s = "RUNNING"
              /\ task' = [task EXCEPT ![j] = "RUNNING"]
              /\ ScheduleAction(j)
              /\ UNCHANGED <<processed, next, handled>>
           \/ /\ StillWaiting(j) /\ s = "ERROR"
              /\ CompleteTask(j, "ERROR", task[j], x.wf)
              /\ UNCHANGED action
           \/ /\ ~StillWaiting(j) \/ s = "WAITING"
              /\ UNCHANGED <<taskVars, action, calls>>
        /\ UNCHANGED <<wf, jobs, histVars>>

-----------------------------------------------------------------------------
(* The operator.                                                            *)

BeginPause ==
    /\ wf = "RUNNING" /\ pauses < MaxPause /\ Overlaps
    /\ pauses' = pauses + 1
    /\ txs' = txs \cup {Loads(Operator("pause", pauses, "NONE"), {})}
    /\ UNCHANGED <<wf, taskVars, action, calls, jobs, again, stops, extras>>

Pause(x) ==
    /\ x.call.op = "pause"
    /\ Commits(x)
    /\ wf' = IF WfMatches(x) THEN "PAUSED" ELSE wf
    /\ UNCHANGED <<taskVars, action, calls, jobs, histVars>>

\* The completed tasks that resume has to continue from.
UnprocessedNone == {}                                 \* mutant: none
Unprocessed     == {t \in Task : task[t] \in Completed /\ t \notin processed}

\* resume_workflow() loads the task executions on its way to subworkflows.
\* (Of concurrent resumes only the first changes the state; there is one here.)
BeginResume ==
    /\ wf = "PAUSED" /\ Overlaps
    /\ \A x \in txs : x.call.op # "resume"
    /\ txs' = txs \cup {Loads(Operator("resume", pauses, "NONE"), Unprocessed)}
    /\ UNCHANGED <<wf, taskVars, action, calls, jobs, histVars>>

\* _continue_workflow(): without commands it checks completion at once, in the same
\* transaction; once no task is incomplete only this resume could dispatch more.
AfterResume(cmds) == IF cmds = {} THEN Verdict(task, handled) ELSE "RUNNING"

Resume(x) ==
    LET backlog == DOMAIN x.seen
        run     == UNION {Triggered(t, x.seen[t]) : t \in backlog}
        idle    == {t \in Task : task[t] = "IDLE"}
    IN  /\ x.call.op = "resume"
        /\ Commits(x)
        /\ processed' = processed \cup backlog
        /\ \/ /\ ~WfMatches(x)   \* the commands stay in the backlog of the execution
              /\ UNCHANGED <<wf, task, calls, again>>
           \/ /\ WfMatches(x)
              /\ wf' = AfterResume(run \cup idle)
              /\ task' = Dispatched(task, run)
              /\ calls' = calls \cup StartNew(run)
                               \cup {Start(t, x.call.arg) : t \in idle}
              /\ again' = again \cup idle
        /\ UNCHANGED <<next, handled, action, jobs, pauses, stops, extras>>

BeginStop(s) ==
    /\ wf \in {"RUNNING", "PAUSED"} /\ stops < MaxStop /\ Overlaps
    /\ stops' = stops + 1
    /\ txs' = txs \cup {Loads(Operator("stop", stops, s), {})}
    /\ UNCHANGED <<wf, taskVars, action, calls, jobs, again, pauses, extras>>

\* A paused workflow can only be cancelled.
Stop(x) ==
    /\ x.call.op = "stop"
    /\ Commits(x)
    /\ wf' = IF WfMatches(x) /\ (x.wf = "RUNNING" \/ x.call.res = "CANCELLED")
             THEN x.call.res ELSE wf
    /\ UNCHANGED <<taskVars, action, calls, jobs, histVars>>

-----------------------------------------------------------------------------
Commit(x) ==
    \/ RunNew(x) \/ RunExisting(x) \/ OnActionComplete(x)
    \/ CountTasks(x) \/ Decide(x) \/ CheckAndComplete(x)
    \/ RefreshTaskState(x) \/ Pause(x) \/ Resume(x) \/ Stop(x)

Handle(c) ==
    \/ BeginStart(c) \/ Execute(c) \/ BeginDone(c)
    \/ BeginCheck(c) \/ ScheduleRefresh(c)

\* What the engines, the executors and the scheduler do by themselves.
SystemStep ==
    \/ \E c \in calls : Handle(c)
    \/ \E x \in txs : Commit(x)
    \/ \E j \in Join : BeginRefresh(j)

OperatorStep ==
    \/ StartWorkflow
    \/ BeginPause \/ BeginResume
    \/ \E s \in ActionEnd : BeginStop(s)
    \/ \E t \in Task : \E i \in DOMAIN action[t] : ReportResult(t, i)

Next == SystemStep \/ OperatorStep

EngineSpec == Init /\ [][Next]_vars

\* Messages are delivered, transactions end, captured jobs are executed.  One
\* condition for all is enough: a behaviour has finitely many of these steps.
EngineFairSpec == EngineSpec /\ WF_vars(SystemStep)

-----------------------------------------------------------------------------
(* Properties.                                                              *)

\* The engine is not polled by anything: a RUNNING workflow advances only if
\* somebody still owes it a step.  A lost wake-up (a command not dispatched, a
\* check or a refresh not registered) leaves it RUNNING for ever.
RunningHasWork == wf = "RUNNING" => calls \cup txs \cup jobs # {}

\* The state a workflow gets from its tasks, unless an operator stops it or a
\* task is started again while its first start is in flight: SUCCESS only if
\* every error is handled and every task that the clauses triggered was executed
\* to its end, ERROR only with an unhandled error, CANCELLED only with a
\* cancelled task.
VerdictMatchesTasks ==
    stops = 0 /\ again = {} =>
      /\ wf = "SUCCESS" =>
           \A t \in Task :
             /\ task[t] \in Completed \cup {"NONE"}
             /\ task[t] = "ERROR" => t \in handled
             /\ \A n \in Triggered(t, task[t]) : task[n] \in Completed
      /\ wf = "ERROR" => \E t \in Task : task[t] = "ERROR" /\ t \notin handled
      /\ wf = "CANCELLED" => \E t \in Task : task[t] = "CANCELLED"

\* Without reruns and retries a task runs its action once, however many
\* commands and refresh jobs ask for it; resume may start an IDLE task again.
StartedOnce == \A t \in Task \ again : Len(action[t]) <= 1

\* A join runs its action only after Needed[j] of its inbound tasks completed
\* and triggered it.
JoinWaitsForInbound ==
    \A j \in Join : action[j] # <<>> =>
        Cardinality({t \in In(j) : task[t] \in Completed /\ j \in next[t]})
            >= Needed[j]

EngineInv == EngineTypeOK /\ VerdictMatchesTasks /\ JoinWaitsForInbound
PauseInv  == RunningHasWork /\ VerdictMatchesTasks /\ StartedOnce

\* The state of a completed workflow is final: a pause, a stop, a resume or a
\* late check that decided on an older state does not change it.
EndIsFinal == [][(wf \in Completed) => (wf' = wf)]_vars

\* A started workflow ends, unless an operator keeps it paused.
WorkflowEnds == wf = "RUNNING" ~> wf \in Completed \cup {"PAUSED"}

\* The documentation of "pause" says that the workflow can continue when it is set
\* to RUNNING again: then it ends, or is paused once more (_continue_workflow).
ResumedGoesOn ==
    pauses > 0 /\ wf = "RUNNING" ~> wf \in Completed \cup {"PAUSED"}
=============================================================================
