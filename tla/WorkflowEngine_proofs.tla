----------------------- MODULE WorkflowEngine_proofs -----------------------
(***************************************************************************)
(* For every workflow graph and any bounds: type correctness of            *)
(* WorkflowEngine, and that a completed workflow stays completed.  For     *)
(* workflows that nobody pauses: the state of the workflow agrees with its *)
(* tasks, joins wait for their inbound tasks, a task runs its action once, *)
(* and a workflow that is RUNNING is always waiting for something that     *)
(* will come.  The last part allows a pause where transactions come one    *)
(* after another and no task is a join.                                    *)
(***************************************************************************)
EXTENDS WorkflowEngine, FiniteSetTheorems, SequenceTheorems,
        WellFoundedInduction, TLAPS

\* What the fields of a call mean for its operation.
WellFormed(c) ==
    /\ c.op \in {"start", "run", "done"} => c.task \in Task /\ c.arg \in Nat
    /\ c.op \in {"request", "refresh"}   => c.task \in Join
    /\ c.op = "resume"                   => c.arg \in Nat
    /\ c.op \in {"done", "stop", "decided"} => c.res \in ActionEnd

\* What a transaction loaded: a task it is about, and a workflow that its
\* early returns let pass.
WellLoaded(x) ==
    /\ x.call.op \in {"start", "done"} => x.call.task \in DOMAIN x.seen
    /\ x.call.op = "pause"  => x.wf = "RUNNING"
    /\ x.call.op = "resume" => x.wf = "PAUSED"
    /\ x.call.op = "stop"   => x.wf \in {"RUNNING", "PAUSED"}
    /\ x.call.op = "decided" => x.wf \notin Completed

GoodCalls == {c \in Calls : WellFormed(c)}
GoodTxs   == {x \in Txs : WellFormed(x.call) /\ WellLoaded(x)}

\* The inductive invariant.
IInv ==
    /\ EngineTypeOK
    /\ calls \subseteq GoodCalls
    /\ txs \subseteq GoodTxs
    /\ IsFiniteSet(txs)

-----------------------------------------------------------------------------
(* The operators that the handlers are built from.                          *)

\* The clauses of a task name tasks.
LEMMA TriggeredTasks ==
    ASSUME NEW t \in Task, NEW s
    PROVE  Triggered(t, s) \subseteq Task
BY EngineAssumption DEF Triggered

\* Dispatching gives task states to tasks.
LEMMA DispatchedType ==
    ASSUME NEW f \in [Task -> TaskState], NEW S
    PROVE  Dispatched(f, S) \in [Task -> TaskState]
BY DEF Dispatched, TaskState, Completed

\* A call is what its fields make it.
LEMMA CallGood ==
    ASSUME NEW op \in Ops, NEW t \in Task \cup {NoTask}, NEW arg \in Nat \cup Task,
           NEW res \in ActionEnd \cup {"NONE"},
           WellFormed(Call(op, t, arg, res))
    PROVE  Call(op, t, arg, res) \in GoodCalls
BY DEF Call, GoodCalls, Calls

\* The calls that handlers register.
LEMMA RegisteredGood ==
    ASSUME NEW t \in Task, NEW n \in Nat
    PROVE  /\ Start(t, n) \in GoodCalls
           /\ RunAction(t, n) \in GoodCalls
           /\ Check(t) \in GoodCalls
           /\ \A res \in ActionEnd : Done(t, n, res) \in GoodCalls
           /\ \A j \in Join : Request(j, t) \in GoodCalls
<1>1. Start(t, n) \in GoodCalls
  BY CallGood DEF Start, Ops, WellFormed, Call
<1>2. RunAction(t, n) \in GoodCalls
  BY CallGood DEF RunAction, Ops, WellFormed, Call
<1>3. Check(t) \in GoodCalls
  BY CallGood DEF Check, Ops, WellFormed, Call
<1>4. ASSUME NEW res \in ActionEnd PROVE Done(t, n, res) \in GoodCalls
  BY CallGood DEF Done, Ops, WellFormed, Call
<1>5. ASSUME NEW j \in Join PROVE Request(j, t) \in GoodCalls
  <2>1. j \in Task
    BY EngineAssumption
  <2> QED
    BY <2>1, CallGood DEF Request, Ops, WellFormed, Call
<1> QED
  BY <1>1, <1>2, <1>3, <1>4, <1>5

\* What dispatching and _check_affected_tasks() register.
LEMMA BatchesGood ==
    ASSUME NEW t \in Task, NEW f, NEW seenWf, NEW S \in SUBSET Task
    PROVE  /\ StartNew(S) \subseteq GoodCalls
           /\ Requests(t, f, seenWf) \subseteq GoodCalls
<1>1. StartNew(S) \subseteq GoodCalls
  BY RegisteredGood DEF StartNew
<1>2. Affected(t, f) \subseteq Join
  BY DEF Affected
<1>3. Requests(t, f, seenWf) \subseteq GoodCalls
  BY <1>2, RegisteredGood DEF Requests
<1> QED
  BY <1>1, <1>3

\* A verdict is a state of a workflow.
LEMMA VerdictState ==
    /\ Verdict(task, handled) \in {"RUNNING"} \cup Completed
    /\ Decision(task, handled) \in Completed
BY DEF Verdict, Decision, Completed

\* A loaded transaction.
LEMMA LoadsGood ==
    ASSUME IInv, NEW c \in GoodCalls, NEW S \in SUBSET Task,
           WellLoaded(Loads(c, S))
    PROVE  Loads(c, S) \in GoodTxs
<1>1. [t \in S |-> task[t]] \in [S -> TaskState]
  BY DEF IInv, EngineTypeOK
<1>2. [t \in S |-> task[t]] \in UNION {[U -> TaskState] : U \in SUBSET Task}
  BY <1>1
<1>3. Loads(c, S) \in Txs
  BY <1>2 DEF Loads, Txs, IInv, EngineTypeOK, GoodCalls
<1>4. Loads(c, S).call = c
  BY DEF Loads
<1> QED
  BY <1>3, <1>4 DEF GoodTxs, GoodCalls

\* What a transaction loaded of a task is a task state.
LEMMA SeenType ==
    ASSUME NEW x \in GoodTxs
    PROVE  /\ DOMAIN x.seen \subseteq Task
           /\ \A t \in DOMAIN x.seen : x.seen[t] \in TaskState
BY DEF GoodTxs, Txs

\* Beginning a transaction, or not, and ending one.
LEMMA TxsGood ==
    ASSUME IInv, NEW x
    PROVE  /\ txs' = txs => txs' \subseteq GoodTxs /\ IsFiniteSet(txs')
           /\ Commits(x) => txs' \subseteq GoodTxs /\ IsFiniteSet(txs')
           /\ x \in GoodTxs /\ txs' = txs \cup {x}
                => txs' \subseteq GoodTxs /\ IsFiniteSet(txs')
<1>1. IsFiniteSet(txs) /\ txs \subseteq GoodTxs
  BY DEF IInv
<1>2. IsFiniteSet(txs \ {x}) /\ IsFiniteSet(txs \cup {x})
  BY <1>1, FS_RemoveElement, FS_AddElement
<1> QED
  BY <1>1, <1>2 DEF Commits

-----------------------------------------------------------------------------
(* The states of the actions.                                               *)

ActionState == ActionEnd \cup {"RUNNING"}

\* A new action execution, and the result of one, keep the lists well typed.
LEMMA ActionType ==
    ASSUME NEW a \in [Task -> Seq(ActionState)], NEW t \in Task,
           NEW i, NEW s \in ActionState
    PROVE  /\ [a EXCEPT ![t] = Append(@, s)] \in [Task -> Seq(ActionState)]
           /\ [a EXCEPT ![t][i] = s] \in [Task -> Seq(ActionState)]
           /\ Len(a[t]) + 1 \in Nat
<1>1. a[t] \in Seq(ActionState)
  OBVIOUS
<1>2. Append(a[t], s) \in Seq(ActionState) /\ Len(a[t]) \in Nat
  BY <1>1
<1>3. [a[t] EXCEPT ![i] = s] \in Seq(ActionState)
  <2>1. a[t] \in [1..Len(a[t]) -> ActionState]
    BY <1>1
  <2>2. [a[t] EXCEPT ![i] = s] \in [1..Len(a[t]) -> ActionState]
    BY <2>1
  <2> QED
    BY <1>2, <2>2
<1> QED
  BY <1>2, <1>3

\* Scheduling an action execution.
LEMMA ScheduleActionGood ==
    ASSUME IInv, NEW t \in Task, ScheduleAction(t)
    PROVE  /\ action' \in [Task -> Seq(ActionState)]
           /\ calls' \subseteq GoodCalls
<1>1. action \in [Task -> Seq(ActionState)] /\ "RUNNING" \in ActionState
  BY DEF IInv, EngineTypeOK, ActionState
<1>2. Len(action[t]) + 1 \in Nat /\ action' \in [Task -> Seq(ActionState)]
  BY <1>1, ActionType DEF ScheduleAction
<1>3. RunAction(t, Len(action[t]) + 1) \in GoodCalls
  BY <1>2, RegisteredGood
<1> QED
  BY <1>2, <1>3 DEF ScheduleAction, IInv

\* The completion of a task.
LEMMA CompleteTaskGood ==
    ASSUME IInv, NEW t \in Task, NEW s \in ActionEnd, NEW seen, NEW seenWf,
           CompleteTask(t, s, seen, seenWf)
    PROVE  /\ task' \in [Task -> TaskState]
           /\ processed' \subseteq Task
           /\ next' \in [Task -> SUBSET Task]
           /\ handled' \subseteq Task
           /\ calls' \subseteq GoodCalls
<1> DEFINE cmds   == IF seenWf \in Completed THEN {} ELSE Triggered(t, s)
           paused == seenWf = "PAUSED"
           run    == IF paused THEN {} ELSE cmds
           done   == [task EXCEPT ![t] = s]
           check  == IF cmds = {} /\ ~paused THEN {Check(t)} ELSE {}
<1>1. cmds \in SUBSET Task /\ run \in SUBSET Task
  BY TriggeredTasks
<1>2. done \in [Task -> TaskState]
  BY DEF IInv, EngineTypeOK, TaskState, Completed, ActionEnd
<1>3. Dispatched(done, run) \in [Task -> TaskState]
  BY <1>2, DispatchedType
<1>4. check \subseteq GoodCalls
  BY RegisteredGood
<1>5. CASE task' = Dispatched(done, run)
           /\ next' = [next EXCEPT ![t] = cmds]
           /\ handled' = (IF s = "ERROR" /\ cmds \cap OnError[t] # {}
                          THEN handled \cup {t} ELSE handled \ {t})
           /\ processed' = (IF paused THEN processed ELSE processed \cup {t})
           /\ calls' = calls \cup StartNew(run) \cup Requests(t, task', seenWf)
                            \cup check
  <2>1. StartNew(run) \subseteq GoodCalls
    BY <1>1, BatchesGood
  <2>2. Requests(t, task', seenWf) \subseteq GoodCalls
    BY <1>1, BatchesGood
  <2>3. calls' \subseteq GoodCalls
    <3> HIDE DEF check, run
    <3> QED
      BY <1>4, <1>5, <2>1, <2>2 DEF IInv
  <2>4. next' \in [Task -> SUBSET Task]
    <3> HIDE DEF cmds
    <3> QED
      BY <1>1, <1>5 DEF IInv, EngineTypeOK
  <2>5. handled' \subseteq Task /\ processed' \subseteq Task
    BY <1>5 DEF IInv, EngineTypeOK
  <2> QED
    BY <1>3, <1>5, <2>3, <2>4, <2>5
<1>6. CASE UNCHANGED taskVars
           /\ calls' \in {calls, calls \cup Requests(t, task, seenWf)}
  <2>1. Requests(t, task, seenWf) \subseteq GoodCalls
    BY BatchesGood
  <2> QED
    BY <1>6, <2>1 DEF IInv, EngineTypeOK, taskVars
<1> QED
  BY <1>5, <1>6 DEF CompleteTask

-----------------------------------------------------------------------------
(* Every action preserves the invariant.                                    *)

\* What the actions leave to prove.
Kept ==
    /\ wf' \in WfState
    /\ task' \in [Task -> TaskState]
    /\ processed' \subseteq Task
    /\ next' \in [Task -> SUBSET Task]
    /\ handled' \subseteq Task
    /\ action' \in [Task -> Seq(ActionState)]
    /\ calls' \subseteq GoodCalls
    /\ txs' \subseteq GoodTxs /\ IsFiniteSet(txs')
    /\ jobs' \subseteq Join
    /\ again' \subseteq Task
    /\ pauses' \in Nat /\ stops' \in Nat /\ extras' \in Nat

\* What is kept by a step is the inductive invariant.
LEMMA KeptIsInvariant == Kept => IInv'
BY DEF Kept, IInv, EngineTypeOK, ActionState, GoodCalls, GoodTxs

\* What is left unchanged is kept.
LEMMA UnchangedKept ==
    ASSUME IInv
    PROVE  /\ wf' = wf => wf' \in WfState
           /\ task' = task => task' \in [Task -> TaskState]
           /\ processed' = processed => processed' \subseteq Task
           /\ next' = next => next' \in [Task -> SUBSET Task]
           /\ handled' = handled => handled' \subseteq Task
           /\ action' = action => action' \in [Task -> Seq(ActionState)]
           /\ calls' = calls => calls' \subseteq GoodCalls
           /\ \A c : calls' = calls \ {c} => calls' \subseteq GoodCalls
           /\ jobs' = jobs => jobs' \subseteq Join
           /\ UNCHANGED histVars =>
                /\ again' \subseteq Task
                /\ pauses' \in Nat /\ stops' \in Nat /\ extras' \in Nat
BY DEF IInv, EngineTypeOK, ActionState, histVars

\* A client starts the workflow.
LEMMA StartWorkflowKept == IInv /\ StartWorkflow => Kept
<1> SUFFICES ASSUME IInv, StartWorkflow PROVE Kept
  OBVIOUS
<1> DEFINE first == {t \in Task : In(t) = {}}
<1>1. task' \in [Task -> TaskState]
  BY DispatchedType DEF StartWorkflow, IInv, EngineTypeOK
<1>2. calls' \subseteq GoodCalls
  <2>1. \A t \in first : Start(t, 0) \in GoodCalls
    BY RegisteredGood
  <2> QED
    BY <2>1 DEF StartWorkflow, StartNew
<1>3. wf' \in WfState
  BY DEF StartWorkflow, WfState
<1> QED
  BY <1>1, <1>2, <1>3, UnchangedKept, TxsGood DEF StartWorkflow, Kept

\* The engine begins to start a workflow or a task.
LEMMA BeginStartKept ==
    ASSUME IInv, NEW c \in calls, BeginStart(c) PROVE Kept
<1>1. c \in GoodCalls /\ c.task \in Task
  BY DEF IInv, GoodCalls, WellFormed, BeginStart
<1>2. WellLoaded(Loads(c, {c.task}))
  BY DEF WellLoaded, Loads, BeginStart
<1>3. Loads(c, {c.task}) \in GoodTxs
  BY <1>1, <1>2, LoadsGood
<1>4. txs' \subseteq GoodTxs /\ IsFiniteSet(txs')
  BY <1>3, TxsGood DEF BeginStart
<1> QED
  BY <1>4, UnchangedKept DEF BeginStart, Kept, taskVars

\* A task is run for the first time: its action is created.
LEMMA RunNewKept ==
    ASSUME IInv, NEW x \in txs, RunNew(x) PROVE Kept
<1> DEFINE t == x.call.task
<1>1. t \in Task
  BY DEF IInv, GoodTxs, WellFormed, RunNew
<1>2. txs' \subseteq GoodTxs /\ IsFiniteSet(txs')
  BY TxsGood DEF RunNew
<1>3. CASE task' = [task EXCEPT ![t] = "RUNNING"] /\ ScheduleAction(t)
  <2>1. task' \in [Task -> TaskState]
    BY <1>3 DEF IInv, EngineTypeOK, TaskState
  <2> QED
    BY <1>1, <1>2, <1>3, <2>1, ScheduleActionGood, UnchangedKept
    DEF RunNew, Kept
<1>4. CASE UNCHANGED <<task, action, calls>>
  BY <1>2, <1>4, UnchangedKept DEF RunNew, Kept
<1>5. CASE UNCHANGED <<task, action>>
           /\ calls' = IF x.seen[t] \in Completed
                       THEN calls \cup Requests(t, task, x.wf) ELSE calls
  <2>1. Requests(t, task, x.wf) \subseteq GoodCalls
    BY <1>1, BatchesGood
  <2>2. calls' \subseteq GoodCalls
    BY <1>5, <2>1 DEF IInv
  <2> QED
    BY <1>2, <1>5, <2>2, UnchangedKept DEF RunNew, Kept
<1> QED
  BY <1>3, <1>4, <1>5 DEF RunNew

\* A task that exists is run: a join that waits, or one that is run again.
LEMMA RunExistingKept ==
    ASSUME IInv, NEW x \in txs, RunExisting(x) PROVE Kept
<1> DEFINE t    == x.call.task
           same == UpdateMatches(t, x.seen[t])
<1>1. t \in Task
  BY DEF IInv, GoodTxs, WellFormed, RunExisting
<1>2. txs' \subseteq GoodTxs /\ IsFiniteSet(txs')
  BY TxsGood DEF RunExisting
<1>3. CASE UNCHANGED <<task, processed, action, calls>>
  BY <1>2, <1>3, UnchangedKept DEF RunExisting, Kept
<1>4. CASE /\ task' = IF same THEN [task EXCEPT ![t] = "RUNNING"] ELSE task
           /\ processed' = IF same /\ x.seen[t] # "RUNNING"
                           THEN processed \ {t} ELSE processed
           /\ ScheduleAction(t)
  <2>1. task' \in [Task -> TaskState]
    BY <1>4 DEF IInv, EngineTypeOK, TaskState
  <2>2. processed' \subseteq Task
    BY <1>4 DEF IInv, EngineTypeOK
  <2> QED
    BY <1>1, <1>2, <1>4, <2>1, <2>2, ScheduleActionGood, UnchangedKept
    DEF RunExisting, Kept
<1> QED
  BY <1>3, <1>4 DEF RunExisting

\* An action is sent to an executor.
LEMMA ExecuteKept ==
    ASSUME IInv, NEW c \in calls, Execute(c) PROVE Kept
<1>1. c.task \in Task /\ c.arg \in Nat
  BY DEF IInv, GoodCalls, WellFormed, Execute
<1>2. Outcome[c.task] \subseteq ActionEnd
  BY <1>1, EngineAssumption
<1>3. \A res \in Outcome[c.task] : Done(c.task, c.arg, res) \in GoodCalls
  BY <1>1, <1>2, RegisteredGood
<1>4. calls' \subseteq GoodCalls
  BY <1>3 DEF Execute, IInv
<1> QED
  BY <1>4, UnchangedKept, TxsGood DEF Execute, Kept, taskVars

\* An executor reports a result.
LEMMA ReportResultKept ==
    ASSUME IInv, NEW t \in Task, NEW i \in DOMAIN action[t], ReportResult(t, i)
    PROVE  Kept
<1>1. action[t] \in Seq(ActionState) /\ extras \in Nat
  BY DEF IInv, EngineTypeOK, ActionState
<1>2. i \in Nat
  BY <1>1
<1>3. Outcome[t] \subseteq ActionEnd
  BY EngineAssumption
<1>4. \A res \in Outcome[t] : Done(t, i, res) \in GoodCalls
  BY <1>2, <1>3, RegisteredGood
<1>5. calls' \subseteq GoodCalls /\ extras' \in Nat
  BY <1>1, <1>4 DEF ReportResult, IInv
<1>6. again' \subseteq Task /\ pauses' \in Nat /\ stops' \in Nat
  BY DEF ReportResult, IInv, EngineTypeOK
<1> QED
  BY <1>5, <1>6, UnchangedKept, TxsGood DEF ReportResult, Kept, taskVars

\* The engine begins to handle a result.
LEMMA BeginDoneKept ==
    ASSUME IInv, NEW c \in calls, BeginDone(c) PROVE Kept
<1>1. c \in GoodCalls /\ c.task \in Task
  BY DEF IInv, GoodCalls, WellFormed, BeginDone
<1>2. WellLoaded(Loads(c, {c.task}))
  BY DEF WellLoaded, Loads, BeginDone
<1>3. Loads(c, {c.task}) \in GoodTxs
  BY <1>1, <1>2, LoadsGood
<1>4. txs' \subseteq GoodTxs /\ IsFiniteSet(txs')
  BY <1>3, TxsGood DEF BeginDone
<1> QED
  BY <1>4, UnchangedKept DEF BeginDone, Kept, taskVars

\* The result completes the action and its task.
LEMMA OnActionCompleteKept ==
    ASSUME IInv, NEW x \in txs, OnActionComplete(x) PROVE Kept
<1> DEFINE t == x.call.task
<1>1. t \in Task /\ x.call.res \in ActionEnd
  BY DEF IInv, GoodTxs, WellFormed, OnActionComplete
<1>2. action' \in [Task -> Seq(ActionState)]
  <2>1. action \in [Task -> Seq(ActionState)] /\ x.call.res \in ActionState
    BY <1>1 DEF IInv, EngineTypeOK, ActionState
  <2> QED
    BY <1>1, <2>1, ActionType DEF OnActionComplete
<1>3. CompleteTask(t, x.call.res, x.seen[t], x.wf)
  BY DEF OnActionComplete
<1>4. /\ task' \in [Task -> TaskState] /\ processed' \subseteq Task
      /\ next' \in [Task -> SUBSET Task] /\ handled' \subseteq Task
      /\ calls' \subseteq GoodCalls
  BY <1>1, <1>3, CompleteTaskGood
<1>5. txs' \subseteq GoodTxs /\ IsFiniteSet(txs')
  BY TxsGood DEF OnActionComplete
<1> QED
  BY <1>2, <1>4, <1>5, UnchangedKept DEF OnActionComplete, Kept

\* The engine begins to check whether the workflow has completed.
LEMMA BeginCheckKept ==
    ASSUME IInv, NEW c \in calls, BeginCheck(c) PROVE Kept
<1>1. c \in GoodCalls
  BY DEF IInv
<1>2. WellLoaded(Loads(c, {}))
  BY DEF WellLoaded, Loads, BeginCheck
<1>3. Loads(c, {}) \in GoodTxs
  BY <1>1, <1>2, LoadsGood
<1>4. txs' \subseteq GoodTxs /\ IsFiniteSet(txs')
  BY <1>3, TxsGood DEF BeginCheck
<1> QED
  BY <1>4, UnchangedKept DEF BeginCheck, Kept, taskVars

\* The stages of the check read and decide; the last one alone changes something, the
\* state of a workflow that has not ended.
CheckStage(x) == CountTasks(x) \/ Decide(x) \/ CheckAndComplete(x)
CheckEffect(x) ==
    /\ UNCHANGED <<taskVars, action, calls, jobs, histVars>>
    /\ x.call.op \in {"check", "counted", "decided"}
    /\ \/ /\ txs' = txs \ {x}
          /\ wf' = wf \/ (x.call.op = "decided" /\ wf' = x.call.res
                         /\ wf = x.wf /\ wf \notin Completed
                         /\ wf' \in Completed)
       \/ /\ wf' = wf
          /\ \E y \in GoodTxs : /\ txs' = (txs \ {x}) \cup {y}
                               /\ y.call.op \in {"counted", "decided"}
                               /\ y.wf = wf

LEMMA CheckStep ==
    ASSUME IInv, NEW x \in txs, CountTasks(x) \/ Decide(x) \/ CheckAndComplete(x)
    PROVE  CheckEffect(x)
<1>0. /\ x \in GoodTxs /\ x.call \in GoodCalls
      /\ wf \in WfState /\ x.call.task \in Task \cup {NoTask}
  BY DEF IInv, EngineTypeOK, GoodTxs, GoodCalls, Txs, Calls
<1>1. CASE CheckAndComplete(x)
  <2>1. x.call.res \in Completed /\ x.wf \notin Completed
    BY <1>0, <1>1
    DEF CheckAndComplete, GoodTxs, GoodCalls, WellFormed, WellLoaded, ActionEnd, Completed
  <2> QED
    BY <1>1, <2>1 DEF CheckAndComplete, CheckEffect, Commits, WfMatches
<1>2. ASSUME NEW op \in {"counted", "decided"}, NEW res \in ActionEnd \cup {"NONE"},
             op = "decided" => res \in ActionEnd /\ wf \notin Completed,
             Turns(x, Call(op, x.call.task, 0, res)), ChecksOn,
             x.call.op \in {"check", "counted", "decided"}
      PROVE  CheckEffect(x)
  <2> DEFINE c == Call(op, x.call.task, 0, res)
             y == Loads(c, {})
  <2>1. c.op = op /\ c \in GoodCalls
    <3>1. c.op = op
      BY DEF Call
    <3>2. WellFormed(c)
      BY <1>2 DEF WellFormed, Call
    <3> HIDE DEF c
    <3> QED
      BY <1>0, <3>1, <3>2, <1>2, CallGood DEF c, Ops
  <2>2. y.call = c /\ y.wf = wf
    BY DEF Loads
  <2>3. WellLoaded(y)
    <3> HIDE DEF c, y
    <3> QED
      BY <1>0, <1>2, <2>1, <2>2 DEF WellLoaded, WfState, Completed
  <2>4. y \in GoodTxs
    <3> HIDE DEF c
    <3> QED
      BY <2>1, <2>3, LoadsGood
  <2>5. txs' = (txs \ {x}) \cup {y}
    BY <1>2 DEF Turns
  <2> HIDE DEF c, y
  <2> QED
    BY <1>2, <2>1, <2>2, <2>4, <2>5 DEF CheckEffect, ChecksOn
<1>3. CASE CountTasks(x)
  <2>1. CASE Commits(x)
    BY <1>3, <2>1 DEF CountTasks, ChecksOn, CheckEffect, Commits
  <2>2. CASE Turns(x, Call("counted", x.call.task, 0, "NONE"))
    BY <1>2, <1>3, <2>2 DEF CountTasks
  <2> QED
    BY <1>3, <2>1, <2>2 DEF CountTasks
<1>4. CASE Decide(x)
  <2>1. CASE Commits(x)
    BY <1>4, <2>1 DEF Decide, ChecksOn, CheckEffect, Commits
  <2>2. CASE wf \notin Completed
            /\ Turns(x, Call("decided", x.call.task, 0, Decision(task, handled)))
    <3>1. Decision(task, handled) \in ActionEnd
      BY VerdictState DEF ActionEnd, Completed
    <3> QED
      BY <1>2, <1>4, <2>2, <3>1 DEF Decide
  <2> QED
    BY <1>4, <2>1, <2>2 DEF Decide
<1> QED
  BY <1>1, <1>3, <1>4

\* What they leave is kept.
LEMMA CheckStageKept ==
    ASSUME IInv, NEW x \in txs, CheckStage(x) PROVE Kept
<1>1. CheckEffect(x)
  BY CheckStep DEF CheckStage
<1>2. wf' \in WfState
  BY <1>1 DEF CheckEffect, WfState, IInv, EngineTypeOK
<1>3. txs' \subseteq GoodTxs /\ IsFiniteSet(txs')
  <2>1. txs \subseteq GoodTxs /\ IsFiniteSet(txs) /\ IsFiniteSet(txs \ {x})
    BY FS_RemoveElement DEF IInv
  <2>2. \A y : IsFiniteSet((txs \ {x}) \cup {y})
    BY <2>1, FS_AddElement
  <2> QED
    BY <1>1, <2>1, <2>2 DEF CheckEffect
<1> QED
  BY <1>1, <1>2, <1>3, UnchangedKept DEF CheckEffect, Kept, taskVars

\* The refresh of a join is asked for.
LEMMA ScheduleRefreshKept ==
    ASSUME IInv, NEW c \in calls, ScheduleRefresh(c) PROVE Kept
<1>1. c.task \in Join
  BY DEF IInv, GoodCalls, WellFormed, ScheduleRefresh
<1>2. jobs' \subseteq Join
  BY <1>1 DEF ScheduleRefresh, IInv, EngineTypeOK
<1> QED
  BY <1>2, UnchangedKept, TxsGood DEF ScheduleRefresh, Kept, taskVars

\* The engine begins to refresh a join.
LEMMA BeginRefreshKept ==
    ASSUME IInv, NEW j \in Join, BeginRefresh(j) PROVE Kept
<1>1. txs' \subseteq GoodTxs /\ IsFiniteSet(txs')
  <2>1. CASE txs' = txs
    BY <2>1, TxsGood
  <2>2. ASSUME NEW n \in 0..Cardinality(txs),
               txs' = txs \cup {Loads(Call("refresh", j, n, "NONE"), {})}
        PROVE  txs' \subseteq GoodTxs /\ IsFiniteSet(txs')
    <3> DEFINE c == Call("refresh", j, n, "NONE")
    <3>1. n \in Nat
      BY FS_CardinalityType DEF IInv
    <3>2. WellFormed(c)
      BY DEF WellFormed, Call
    <3>3. c \in GoodCalls
      BY <3>1, <3>2, CallGood, EngineAssumption DEF Ops
    <3>4. WellLoaded(Loads(c, {}))
      BY DEF WellLoaded, Loads, Call
    <3> QED
      BY <2>2, <3>3, <3>4, LoadsGood, TxsGood
  <2> QED
    BY <2>1, <2>2 DEF BeginRefresh
<1>2. jobs' \subseteq Join
  BY DEF BeginRefresh, IInv, EngineTypeOK
<1> QED
  BY <1>1, <1>2, UnchangedKept DEF BeginRefresh, Kept, taskVars

\* The refresh starts the join, fails it or asks again.
LEMMA RefreshTaskStateKept ==
    ASSUME IInv, NEW x \in txs, RefreshTaskState(x) PROVE Kept
<1> DEFINE j == x.call.task
<1>1. j \in Join /\ j \in Task
  BY EngineAssumption DEF IInv, GoodTxs, WellFormed, RefreshTaskState
<1>2. txs' \subseteq GoodTxs /\ IsFiniteSet(txs')
  BY TxsGood DEF RefreshTaskState
<1>3. CASE /\ task' = [task EXCEPT ![j] = "RUNNING"]
           /\ ScheduleAction(j)
           /\ UNCHANGED <<processed, next, handled>>
  <2>1. task' \in [Task -> TaskState]
    BY <1>3 DEF IInv, EngineTypeOK, TaskState
  <2> QED
    BY <1>1, <1>2, <1>3, <2>1, ScheduleActionGood, UnchangedKept
    DEF RefreshTaskState, Kept
<1>4. CASE CompleteTask(j, "ERROR", task[j], x.wf) /\ UNCHANGED action
  <2>1. /\ task' \in [Task -> TaskState] /\ processed' \subseteq Task
        /\ next' \in [Task -> SUBSET Task] /\ handled' \subseteq Task
        /\ calls' \subseteq GoodCalls
    BY <1>1, <1>4, CompleteTaskGood DEF ActionEnd
  <2> QED
    BY <1>2, <1>4, <2>1, UnchangedKept DEF RefreshTaskState, Kept
<1>5. CASE UNCHANGED <<taskVars, action, calls>>
  BY <1>2, <1>5, UnchangedKept DEF RefreshTaskState, Kept, taskVars
<1> QED
  BY <1>3, <1>4, <1>5 DEF RefreshTaskState

\* What an operator begins.
LEMMA OperatorGood ==
    ASSUME IInv, NEW op \in {"pause", "resume", "stop"}, NEW n \in Nat,
           NEW res \in ActionEnd \cup {"NONE"}, NEW S \in SUBSET Task,
           op = "stop" => res \in ActionEnd /\ wf \in {"RUNNING", "PAUSED"},
           op = "pause" => wf = "RUNNING", op = "resume" => wf = "PAUSED",
           txs' = txs \cup {Loads(Operator(op, n, res), S)}
    PROVE  txs' \subseteq GoodTxs /\ IsFiniteSet(txs')
<1> DEFINE c == Call(op, NoTask, n, res)
<1>1. WellFormed(c)
  BY DEF WellFormed, Call
<1>2. c \in GoodCalls
  BY <1>1, CallGood DEF Ops
<1>3. WellLoaded(Loads(c, S))
  BY DEF WellLoaded, Loads, Call
<1> QED
  BY <1>2, <1>3, LoadsGood, TxsGood DEF Operator

\* A user pauses the workflow.
LEMMA BeginPauseKept == ASSUME IInv, BeginPause PROVE Kept
<1>1. pauses \in Nat /\ stops \in Nat /\ extras \in Nat /\ again \subseteq Task
  BY DEF IInv, EngineTypeOK
<1>2. txs' \subseteq GoodTxs /\ IsFiniteSet(txs')
  BY <1>1, OperatorGood DEF BeginPause
<1> QED
  BY <1>1, <1>2, UnchangedKept DEF BeginPause, Kept, taskVars

\* The transaction of the pause.
LEMMA PauseKept == ASSUME IInv, NEW x \in txs, Pause(x) PROVE Kept
<1>1. wf' \in WfState
  BY DEF Pause, WfState, IInv, EngineTypeOK
<1> QED
  BY <1>1, UnchangedKept, TxsGood DEF Pause, Kept, taskVars

\* A user resumes the workflow.
LEMMA BeginResumeKept == ASSUME IInv, BeginResume PROVE Kept
<1>1. pauses \in Nat /\ Unprocessed \in SUBSET Task
  BY DEF IInv, EngineTypeOK, Unprocessed
<1>2. txs' \subseteq GoodTxs /\ IsFiniteSet(txs')
  BY <1>1, OperatorGood DEF BeginResume
<1> QED
  BY <1>2, UnchangedKept DEF BeginResume, Kept, taskVars

\* The transaction of the resume: tasks that completed in the pause go on.
LEMMA ResumeKept == ASSUME IInv, NEW x \in txs, Resume(x) PROVE Kept
<1> DEFINE backlog == DOMAIN x.seen
           run     == UNION {Triggered(t, x.seen[t]) : t \in backlog}
           idle    == {t \in Task : task[t] = "IDLE"}
           starts  == {Start(t, x.call.arg) : t \in idle}
<1>1. x \in GoodTxs /\ x.call.op = "resume"
  BY DEF IInv, Resume
<1>2. backlog \in SUBSET Task /\ run \in SUBSET Task
  BY <1>1, SeenType, TriggeredTasks
<1>3. txs' \subseteq GoodTxs /\ IsFiniteSet(txs')
  BY TxsGood DEF Resume
<1>4. processed' \subseteq Task
  BY <1>2 DEF Resume, IInv, EngineTypeOK
<1>5. pauses' \in Nat /\ stops' \in Nat /\ extras' \in Nat
  BY DEF Resume, IInv, EngineTypeOK
<1>6. CASE UNCHANGED <<wf, task, calls, again>>
  <2>1. again' \subseteq Task
    BY <1>6 DEF IInv, EngineTypeOK
  <2> QED
    BY <1>3, <1>4, <1>5, <1>6, <2>1, UnchangedKept DEF Resume, Kept
<1>7. CASE /\ wf' = AfterResume(run \cup idle)
           /\ task' = Dispatched(task, run)
           /\ calls' = calls \cup StartNew(run) \cup starts
           /\ again' = again \cup idle
  <2>1. wf' \in WfState
    BY <1>7, VerdictState DEF AfterResume, WfState
  <2>2. task' \in [Task -> TaskState]
    BY <1>7, DispatchedType DEF IInv, EngineTypeOK
  <2>3. x.call.arg \in Nat
    BY <1>1 DEF GoodTxs, WellFormed
  <2>4. starts \subseteq GoodCalls
    BY <1>1, <2>3, RegisteredGood
  <2>5. StartNew(run) \subseteq GoodCalls
    BY <1>2, RegisteredGood DEF StartNew
  <2>6. calls' \subseteq GoodCalls
    <3> HIDE DEF starts, run
    <3> QED
      BY <1>7, <2>4, <2>5 DEF IInv
  <2>7. again' \subseteq Task
    BY <1>7 DEF IInv, EngineTypeOK
  <2> QED
    BY <1>3, <1>4, <1>5, <2>1, <2>2, <2>6, <2>7, UnchangedKept DEF Resume, Kept
<1> QED
  BY <1>6, <1>7 DEF Resume

\* A user stops the workflow.
LEMMA BeginStopKept ==
    ASSUME IInv, NEW s \in ActionEnd, BeginStop(s) PROVE Kept
<1>1. pauses \in Nat /\ stops \in Nat /\ extras \in Nat /\ again \subseteq Task
  BY DEF IInv, EngineTypeOK
<1>2. txs' \subseteq GoodTxs /\ IsFiniteSet(txs')
  BY <1>1, OperatorGood DEF BeginStop
<1> QED
  BY <1>1, <1>2, UnchangedKept DEF BeginStop, Kept, taskVars

\* The transaction of the stop.
LEMMA StopKept == ASSUME IInv, NEW x \in txs, Stop(x) PROVE Kept
<1>1. x.call.res \in ActionEnd
  BY DEF IInv, GoodTxs, WellFormed, Stop
<1>2. wf' \in WfState
  BY <1>1 DEF Stop, WfState, ActionEnd, Completed, IInv, EngineTypeOK
<1> QED
  BY <1>2, UnchangedKept, TxsGood DEF Stop, Kept, taskVars

\* Nothing happens.
LEMMA StutterKept == ASSUME IInv, UNCHANGED vars PROVE Kept
BY UnchangedKept, TxsGood DEF vars, Kept, taskVars, histVars

-----------------------------------------------------------------------------
(* The theorems.                                                            *)

\* Nothing has happened before start_workflow(): no calls, no transactions.
LEMMA InitEstablishes == Init => IInv
<1>1. SUFFICES ASSUME Init PROVE IInv
  OBVIOUS
<1>2. EngineTypeOK
  BY <1>1 DEF Init, EngineTypeOK, WfState, TaskState
<1>3. calls \subseteq GoodCalls /\ txs \subseteq GoodTxs /\ IsFiniteSet(txs)
  BY <1>1, FS_EmptySet DEF Init
<1> QED
  BY <1>2, <1>3 DEF IInv

\* Every handler leaves the database, the messages and the transactions in
\* progress as the next handler expects them.
LEMMA StepPreserves == IInv /\ [Next]_vars => IInv'
<1>1. SUFFICES ASSUME IInv, [Next]_vars PROVE Kept
  BY KeptIsInvariant
<1>2. ASSUME NEW c \in calls, Handle(c) PROVE Kept
  <2>1. CASE BeginStart(c)
    BY <1>1, <2>1, BeginStartKept
  <2>2. CASE Execute(c)
    BY <1>1, <2>2, ExecuteKept
  <2>3. CASE BeginDone(c)
    BY <1>1, <2>3, BeginDoneKept
  <2>4. CASE BeginCheck(c)
    BY <1>1, <2>4, BeginCheckKept
  <2>5. CASE ScheduleRefresh(c)
    BY <1>1, <2>5, ScheduleRefreshKept
  <2> QED
    BY <1>2, <2>1, <2>2, <2>3, <2>4, <2>5 DEF Handle
<1>3. ASSUME NEW x \in txs, Commit(x) PROVE Kept
  <2>1. CASE RunNew(x)
    BY <1>1, <2>1, RunNewKept
  <2>2. CASE RunExisting(x)
    BY <1>1, <2>2, RunExistingKept
  <2>3. CASE OnActionComplete(x)
    BY <1>1, <2>3, OnActionCompleteKept
  <2>4. CASE RefreshTaskState(x)
    BY <1>1, <2>4, RefreshTaskStateKept
  <2>5. CASE Pause(x)
    BY <1>1, <2>5, PauseKept
  <2>6. CASE Resume(x)
    BY <1>1, <2>6, ResumeKept
  <2>7. CASE Stop(x)
    BY <1>1, <2>7, StopKept
  <2>8. CASE CheckStage(x)
    BY <1>1, <2>8, CheckStageKept
  <2> QED
    BY <1>3, <2>1, <2>2, <2>3, <2>4, <2>5, <2>6, <2>7, <2>8 DEF Commit, CheckStage
<1>4. ASSUME NEW j \in Join, BeginRefresh(j) PROVE Kept
  BY <1>1, <1>4, BeginRefreshKept
<1>5. CASE OperatorStep
  BY <1>1, <1>5, StartWorkflowKept, BeginPauseKept, BeginResumeKept,
     BeginStopKept, ReportResultKept DEF OperatorStep
<1>6. CASE UNCHANGED vars
  BY <1>1, <1>6, StutterKept
<1> QED
  BY <1>1, <1>2, <1>3, <1>4, <1>5, <1>6 DEF Next, SystemStep

\* Whatever transactions overlap, messages and transactions keep the form that
\* their handlers rely on: a start, a result or a request names an existing
\* task, and a pause, a resume or a stop in progress has passed the early
\* returns of its handler.
THEOREM EngineInvariant == EngineSpec => []IInv
BY InitEstablishes, StepPreserves, PTL DEF EngineSpec

\* The states of the workflow, its tasks and actions, and the messages have
\* their types for every workflow graph.
THEOREM EngineTypeCorrect == EngineSpec => []EngineTypeOK
<1>1. IInv => EngineTypeOK
  BY DEF IInv
<1> QED
  BY <1>1, EngineInvariant, PTL

\* No step changes the state of a completed workflow.
LEMMA EndStays ==
    ASSUME IInv, [Next]_vars, wf \in Completed
    PROVE  wf' = wf
<1> USE DEF Completed
<1>0. CASE UNCHANGED vars
  BY <1>0 DEF vars
<1>1. ASSUME NEW c \in calls, Handle(c) PROVE wf' = wf
  BY <1>1
  DEF Handle, BeginStart, Execute, BeginDone, BeginCheck, ScheduleRefresh
<1>2. ASSUME NEW x \in txs, Commit(x) PROVE wf' = wf
  <2>1. /\ x.call.op = "pause"  => x.wf = "RUNNING"
        /\ x.call.op = "resume" => x.wf = "PAUSED"
        /\ x.call.op = "stop"   => x.wf \in {"RUNNING", "PAUSED"}
    BY DEF IInv, GoodTxs, WellLoaded
  <2>2. CASE RunNew(x) \/ OnActionComplete(x) \/ RefreshTaskState(x)
    BY <2>2 DEF RunNew, OnActionComplete, RefreshTaskState
  <2>3. CASE RunExisting(x)
    BY <2>3 DEF RunExisting
  <2>4. CASE Pause(x)
    BY <2>1, <2>4 DEF Pause, WfMatches
  <2>5. CASE Resume(x)
    BY <2>1, <2>5 DEF Resume, WfMatches
  <2>6. CASE Stop(x)
    BY <2>1, <2>6 DEF Stop, WfMatches
  <2>7. CASE CheckStage(x)
    BY <2>7, CheckStep DEF CheckStage, CheckEffect
  <2> QED
    BY <1>2, <2>2, <2>3, <2>4, <2>5, <2>6, <2>7 DEF Commit, CheckStage
<1>3. ASSUME NEW j \in Join, BeginRefresh(j) PROVE wf' = wf
  BY <1>3 DEF BeginRefresh
<1>4. CASE OperatorStep
  BY <1>4
  DEF OperatorStep, StartWorkflow, BeginPause, BeginResume, BeginStop,
      ReportResult
<1> QED
  BY <1>0, <1>1, <1>2, <1>3, <1>4 DEF Next, SystemStep

\* A completed workflow execution keeps its state: pause_workflow(),
\* resume_workflow() and stop_workflow() that decided on an older state and a late
\* check_and_complete(), whatever it counted before, change nothing, because each
\* UPDATE names the state it was decided on, and that state is not a final one.
THEOREM EndStaysFinal == EngineSpec => EndIsFinal
<1>1. IInv /\ [Next]_vars => [(wf \in Completed) => (wf' = wf)]_vars
  BY EndStays
<1> QED
  BY <1>1, EngineInvariant, PTL DEF EngineSpec, EndIsFinal

-----------------------------------------------------------------------------
(* Without a pause: what the tasks and their actions promise each other.     *)

\* Nobody pauses: no handler loads a paused workflow, no task is started again,
\* and a transaction that has seen the end of the workflow has not been deceived.
NeverPaused ==
    /\ pauses = 0 /\ again = {} /\ wf # "PAUSED"
    /\ \A c \in calls : c.op = "start" => c.arg = 0
    /\ \A x \in txs : /\ x.call.op = "start" => x.call.arg = 0
                      /\ x.call.op \notin {"pause", "resume"}
                      /\ x.call.op = "stop" => stops > 0
                      /\ x.wf # "PAUSED"
                      /\ x.wf \in Completed => wf \in Completed

\* Before start_workflow() there is nothing.
NothingBeforeStart ==
    wf = "NONE" => /\ task = [t \in Task |-> "NONE"]
                   /\ calls = {} /\ txs = {} /\ jobs = {}

\* The joins that may run twice.
Partial == {j \in Join : Needed[j] < Cardinality(In(j))}

\* A task has no action before it runs, and results are of actions that exist.
ActionsFollowTask ==
    /\ \A t \in Task : action[t] # <<>> =>
          task[t] \notin (IF t \in Partial THEN {"NONE"} ELSE {"NONE", "IDLE", "WAITING"})
    /\ \A j \in Join : task[j] # "IDLE"
    /\ \A c \in calls : c.op \in {"run", "done"} => action[c.task] # <<>>
    /\ \A x \in txs : x.call.op = "done" =>
          action[x.call.task] # <<>> /\ x.seen[x.call.task] # "NONE"

\* A task that triggered others is completed for good, and what exists was
\* triggered: a task by its inbound task, an action of a join by those needed.
TriggersAreFinal ==
    /\ \A u \in Task : next[u] \subseteq Out(u)
    /\ \A u \in Task : next[u] # {} => /\ task[u] \in Completed
                                       /\ u \in Join => action[u] # <<>>
    /\ \A t \in Task \ Join : task[t] # "NONE" => \A u \in In(t) : t \in next[u]
    /\ \A j \in Join \ Partial : action[j] # <<>> => \A u \in In(j) : j \in next[u]

JoinHadItsInbound ==
    \A j \in Join : action[j] # <<>> => Cardinality({u \in In(j) : j \in next[u]}) >= Needed[j]

\* A task that is no partial join runs its action once.
OneAction == \A t \in Task \ Partial : Len(action[t]) <= 1

\* While the workflow goes on every task that was triggered exists, and when it is
\* completed nothing is under way.
TriggeredExist ==
    wf \notin Completed =>
        \A t \in Task : task[t] \in Completed =>
            \A n \in Triggered(t, task[t]) : task[n] # "NONE"

NothingUnderWay ==
    stops = 0 /\ wf \in Completed => \A t \in Task : task[t] \in Completed \cup {"NONE"}

\* What a completion check has counted or decided still stands when it goes on: nothing
\* begins any more once every task is completed.
ChecksStand ==
    \A x \in txs : x.call.op \in {"counted", "decided"} =>
        /\ \A t \in Task : task[t] \in Completed \cup {"NONE"}
        /\ x.call.op = "decided" => x.call.res = Decision(task, handled)

\* The inductive invariant of a workflow that nobody pauses.
SteadyInv ==
    /\ IInv /\ NeverPaused /\ NothingBeforeStart /\ ActionsFollowTask
    /\ TriggersAreFinal /\ JoinHadItsInbound /\ OneAction
    /\ TriggeredExist /\ NothingUnderWay /\ VerdictMatchesTasks /\ ChecksStand

-----------------------------------------------------------------------------
(* What a step does to the tasks, the triggers and the actions.              *)

\* A task runs, after those it joins.
Runs(t) ==
    /\ task[t] \in {"IDLE", "WAITING"}
    /\ t \in Join => Cardinality({u \in In(t) : t \in next[u]}) >= Needed[t]
    /\ task' = [task EXCEPT ![t] = "RUNNING"]
    /\ ScheduleAction(t)
    /\ UNCHANGED <<wf, next, handled>>

\* What the end of a task asks for: the start of the tasks it triggers, the refresh of
\* joins that it affects, and the completion check if it triggers none.
AsksFor(t, cmds) ==
    /\ StartNew(cmds) \subseteq calls'
    /\ wf \notin Completed => \A j \in Affected(t, task') : Request(j, t) \in calls'
    /\ cmds = {} => Check(t) \in calls'

\* A task is completed and triggers the tasks in cmds: by the result of its action,
\* or as a join that cannot be triggered any more.
Completes(t, s, cmds) ==
    /\ task[t] \notin Completed \cup {"NONE"} /\ s \in ActionEnd
    /\ cmds \subseteq Triggered(t, s)
    /\ wf \notin Completed => cmds = Triggered(t, s)
    /\ task' = Dispatched([task EXCEPT ![t] = s], cmds)
    /\ next' = [next EXCEPT ![t] = cmds]
    /\ \/ t \in Join /\ s = "ERROR" /\ action' = action
       \/ action[t] # <<>> /\ \E i : action' = [action EXCEPT ![t][i] = s]
    /\ UNCHANGED wf
    /\ AsksFor(t, cmds)

\* The tasks stay as they are.
Stays ==
    /\ UNCHANGED <<task, next, handled>>
    /\ \/ action' = action
       \/ /\ UNCHANGED wf
          /\ \E t \in Task, s \in ActionEnd :
                action[t] # <<>> /\ \E i : action' = [action EXCEPT ![t][i] = s]

\* Which of it the completion of a task is.
LEMMA CompleteTaskCases ==
    ASSUME NEW t \in Task, NEW s \in ActionEnd, NEW seen, NEW seenWf,
           CompleteTask(t, s, seen, seenWf), seenWf # "PAUSED",
           seenWf \in Completed => wf \in Completed
    PROVE  \/ UNCHANGED <<task, next, handled>>
           \/ \E cmds : /\ seen \notin Completed /\ task[t] = seen
                        /\ cmds \subseteq Triggered(t, s)
                        /\ wf \notin Completed => cmds = Triggered(t, s)
                        /\ task' = Dispatched([task EXCEPT ![t] = s], cmds)
                        /\ next' = [next EXCEPT ![t] = cmds]
                        /\ AsksFor(t, cmds)
<1> DEFINE cmds == IF seenWf \in Completed THEN {} ELSE Triggered(t, s)
<1>1. cmds \subseteq Triggered(t, s) /\ (wf \notin Completed => cmds = Triggered(t, s))
  OBVIOUS
<1>2. CASE UNCHANGED taskVars
  BY <1>2 DEF taskVars
<1>3. CASE ~UNCHANGED taskVars
  <2>1. /\ seen \notin Completed /\ UpdateMatches(t, seen)
        /\ task' = Dispatched([task EXCEPT ![t] = s],
                              IF seenWf = "PAUSED" THEN {} ELSE cmds)
        /\ next' = [next EXCEPT ![t] = cmds]
        /\ calls' = calls \cup StartNew(IF seenWf = "PAUSED" THEN {} ELSE cmds)
                         \cup Requests(t, task', seenWf)
                         \cup IF cmds = {} /\ ~(seenWf = "PAUSED") THEN {Check(t)} ELSE {}
    BY <1>3 DEF CompleteTask
  <2>2. AsksFor(t, cmds)
    BY <2>1 DEF AsksFor, Requests
  <2> QED
    BY <1>1, <2>1, <2>2 DEF UpdateMatches
<1> QED
  BY <1>2, <1>3

\* Without pauses a step starts the workflow, runs a task, completes one, or leaves
\* the states of the tasks as they are.
LEMMA StepCases ==
    ASSUME IInv, NeverPaused, ActionsFollowTask, TriggersAreFinal, [Next]_vars
    PROVE  \/ StartWorkflow
           \/ \E t \in Task : Runs(t)
           \/ \E t \in Task, s \in ActionEnd : \E cmds : Completes(t, s, cmds)
           \/ Stays
<1> DEFINE Goal == \/ StartWorkflow
                   \/ \E t \in Task : Runs(t)
                   \/ \E t \in Task, s \in ActionEnd : \E cmds : Completes(t, s, cmds)
                   \/ Stays
<1>1. ASSUME NEW c \in calls, Handle(c) PROVE Goal
  BY <1>1 DEF Handle, BeginStart, Execute, BeginDone, BeginCheck, ScheduleRefresh,
     taskVars, Stays
<1>2. ASSUME NEW x \in txs, Commit(x) PROVE Goal
  <2>1. /\ x.call.op = "start" => x.call.arg = 0
        /\ x.call.op \notin {"pause", "resume"} /\ x.wf # "PAUSED"
        /\ x.wf \in Completed => wf \in Completed
    BY DEF NeverPaused
  <2>2. x \in GoodTxs
    BY DEF IInv
  <2>3. CASE RunNew(x)
    <3> DEFINE t == x.call.task
    <3>1. t \in Task
      BY <2>2, <2>3 DEF GoodTxs, WellFormed, RunNew
    <3>2. CASE task[t] = "IDLE" /\ task' = [task EXCEPT ![t] = "RUNNING"]
               /\ ScheduleAction(t)
      BY <2>3, <3>1, <3>2 DEF RunNew, Runs, ActionsFollowTask, ScheduleAction
    <3>3. CASE UNCHANGED <<task, action>>
      BY <2>3, <3>3 DEF RunNew, Stays
    <3> QED
      BY <2>3, <3>2, <3>3 DEF RunNew, UpdateMatches
  <2>4. CASE RunExisting(x)
    BY <2>1, <2>4 DEF RunExisting
  <2>5. CASE OnActionComplete(x)
    <3> DEFINE t == x.call.task
               s == x.call.res
    <3>1. /\ t \in Task /\ s \in ActionEnd
          /\ action[t] # <<>> /\ x.seen[t] # "NONE"
      BY <2>2, <2>5 DEF GoodTxs, WellFormed, OnActionComplete, ActionsFollowTask
    <3>2. /\ action' = [action EXCEPT ![t][x.call.arg] = s] /\ wf' = wf
          /\ CompleteTask(t, s, x.seen[t], x.wf)
      BY <2>5 DEF OnActionComplete
    <3>3. CASE UNCHANGED <<task, next, handled>>
      BY <3>1, <3>2, <3>3 DEF Stays
    <3>4. ASSUME NEW cmds,
                 x.seen[t] \notin Completed, task[t] = x.seen[t],
                 cmds \subseteq Triggered(t, s),
                 wf \notin Completed => cmds = Triggered(t, s),
                 task' = Dispatched([task EXCEPT ![t] = s], cmds),
                 next' = [next EXCEPT ![t] = cmds],
                 AsksFor(t, cmds)
          PROVE  Completes(t, s, cmds)
      BY <3>1, <3>2, <3>4 DEF Completes
    <3> HIDE DEF t, s
    <3> QED
      BY <2>1, <3>1, <3>2, <3>3, <3>4, CompleteTaskCases
  <2>6. CASE RefreshTaskState(x)
    <3> DEFINE j == x.call.task
    <3>1. j \in Join /\ j \in Task /\ "ERROR" \in ActionEnd
      BY <2>2, <2>6, EngineAssumption
      DEF GoodTxs, WellFormed, RefreshTaskState, ActionEnd
    <3>2. CASE StillWaiting(j) /\ LogicalState(j) = "RUNNING"
               /\ task' = [task EXCEPT ![j] = "RUNNING"]
               /\ ScheduleAction(j) /\ UNCHANGED <<processed, next, handled>>
      <4>1. Needed[j] \in Nat
        BY <3>1, EngineAssumption, FS_CardinalityType
      <4>2. Cardinality({u \in In(j) : Induced(u, j) = "RUNNING"}) >= Needed[j]
        BY <3>2, <4>1 DEF LogicalState
      <4>3. {u \in In(j) : Induced(u, j) = "RUNNING"} = {u \in In(j) : j \in next[u]}
        <5>1. ASSUME NEW u \in In(j)
              PROVE  Induced(u, j) = "RUNNING" <=> j \in next[u]
          <6>1. u \in Task /\ (next[u] # {} => task[u] \in Completed)
            BY DEF In, TriggersAreFinal
          <6> QED
            BY <6>1 DEF Induced, Completed
        <5> QED
          BY <5>1
      <4> QED
        BY <2>6, <3>1, <3>2, <4>2, <4>3
        DEF RefreshTaskState, Runs, StillWaiting, ScheduleAction
    <3>3. CASE StillWaiting(j) /\ CompleteTask(j, "ERROR", task[j], x.wf)
               /\ UNCHANGED action
      <4>1. CASE UNCHANGED <<task, next, handled>>
        BY <3>3, <4>1 DEF Stays
      <4>2. ASSUME NEW cmds,
                   cmds \subseteq Triggered(j, "ERROR"),
                   wf \notin Completed => cmds = Triggered(j, "ERROR"),
                   task' = Dispatched([task EXCEPT ![j] = "ERROR"], cmds),
                   next' = [next EXCEPT ![j] = cmds],
                   AsksFor(j, cmds)
            PROVE  Completes(j, "ERROR", cmds)
        BY <2>6, <3>1, <3>3, <4>2 DEF Completes, StillWaiting, Completed, RefreshTaskState
      <4> HIDE DEF j
      <4> QED
        BY <2>1, <3>1, <3>3, <4>1, <4>2, CompleteTaskCases
    <3>4. CASE UNCHANGED <<taskVars, action, calls>>
      BY <3>4 DEF Stays, taskVars
    <3> QED
      BY <2>6, <3>2, <3>3, <3>4 DEF RefreshTaskState
  <2>7. CASE Pause(x) \/ Resume(x)
    BY <2>1, <2>7 DEF Pause, Resume
  <2>8. CASE Stop(x)
    BY <2>8 DEF Stop, Stays, taskVars
  <2>9. CASE CheckStage(x)
    BY <2>9, CheckStep DEF CheckStage, CheckEffect, Stays, taskVars
  <2> QED
    BY <1>2, <2>3, <2>4, <2>5, <2>6, <2>7, <2>8, <2>9 DEF Commit, CheckStage
<1>3. ASSUME NEW j \in Join, BeginRefresh(j) PROVE Goal
  BY <1>3 DEF BeginRefresh, Stays, taskVars
<1>4. CASE OperatorStep
  BY <1>4 DEF OperatorStep, BeginPause, BeginResume, BeginStop, ReportResult, Stays,
     taskVars
<1>5. CASE UNCHANGED vars
  BY <1>5 DEF vars, taskVars, Stays
<1> QED
  BY <1>1, <1>2, <1>3, <1>4, <1>5 DEF Next, SystemStep

-----------------------------------------------------------------------------
(* The conjuncts of the invariant, case by case.                             *)

\* The lists of action states: the first action is not removed by a result.
LEMMA ActionsKept ==
    ASSUME IInv, NEW t \in Task, NEW s \in ActionState, NEW i
    PROVE  /\ \A u \in Task : [action EXCEPT ![t] = Append(@, s)][u] # <<>>
                                 <=> (action[u] # <<>> \/ u = t)
           /\ \A u \in Task : [action EXCEPT ![t][i] = s][u] # <<>> <=> action[u] # <<>>
           /\ \A u \in Task : Len([action EXCEPT ![t][i] = s][u]) = Len(action[u])
           /\ action[t] = <<>> => Len([action EXCEPT ![t] = Append(@, s)][t]) = 1
<1>1. action \in [Task -> Seq(ActionState)] /\ action[t] \in Seq(ActionState)
  BY DEF IInv, EngineTypeOK, ActionState
<1>2. Len(Append(action[t], s)) = Len(action[t]) + 1 /\ Append(action[t], s) # <<>>
  BY <1>1, AppendProperties
<1>3. \A q \in Seq(ActionState) : Len(q) \in Nat /\ (q # <<>> <=> Len(q) # 0)
  BY EmptySeq
<1>4. [action[t] EXCEPT ![i] = s] \in Seq(ActionState)
      /\ Len([action[t] EXCEPT ![i] = s]) = Len(action[t])
  <2>1. CASE i \in 1..Len(action[t])
    BY <1>1, <2>1, ExceptSeq
  <2>2. CASE i \notin 1..Len(action[t])
    <3>1. [action[t] EXCEPT ![i] = s] = action[t]
      BY <1>1, <2>2, LenProperties
    <3> QED
      BY <1>1, <3>1
  <2> QED
    BY <2>1, <2>2
<1>5. [action[t] EXCEPT ![i] = s] # <<>> <=> action[t] # <<>>
  BY <1>1, <1>3, <1>4
<1>6. Len(<<>>) = 0
  OBVIOUS
<1> QED
  BY <1>1, <1>2, <1>3, <1>4, <1>5, <1>6

\* The tasks that a completed task triggers have not begun, unless they are partial
\* joins, and it triggers them only once.
LEMMA TriggeredAreFresh ==
    ASSUME SteadyInv, NEW t \in Task, NEW s, NEW cmds, Completes(t, s, cmds), NEW n \in cmds
    PROVE  /\ n \in Task /\ t \in In(n) /\ n # t
           /\ next[t] = {}
           /\ n \notin Join => task[n] = "NONE"
           /\ n \in Join \ Partial => action[n] = <<>>
<1>1. n \in Out(t)
  BY DEF Completes, Triggered, Out
<1>2. n \in Task /\ t \in In(n)
  BY <1>1, EngineAssumption DEF Out, In
<1>3. n # t
  <2>1. PICK level \in [Task -> 1..Cardinality(Task)] :
            \A u \in Task : \A v \in Out(u) : level[u] < level[v]
    BY EngineAssumption
  <2>2. level[t] < level[n] /\ Cardinality(Task) \in Nat
    BY <1>1, <2>1, EngineAssumption, FS_CardinalityType
  <2>3. level[t] \in 1..Cardinality(Task)
    BY <2>1
  <2>4. level[t] \in Int
    BY <2>2, <2>3
  <2> QED
    BY <2>2, <2>4
<1>4. next[t] = {}
  BY DEF SteadyInv, TriggersAreFinal, Completes
<1> QED
  BY <1>2, <1>3, <1>4 DEF SteadyInv, TriggersAreFinal

\* What dispatching gives to a task.
LEMMA DispatchedState ==
    ASSUME IInv, NEW t \in Task, NEW s, NEW S, NEW u \in Task
    PROVE  Dispatched([task EXCEPT ![t] = s], S)[u] =
              IF u \in S THEN IF u \in Join THEN "WAITING" ELSE "IDLE"
                         ELSE IF u = t THEN s ELSE task[u]
BY DEF Dispatched, IInv, EngineTypeOK

\* What each kind of step does to the actions and the tasks.
LEMMA RunsEffect ==
    ASSUME IInv, NEW t \in Task, Runs(t)
    PROVE  /\ \A u \in Task : action'[u] # <<>> <=> (action[u] # <<>> \/ u = t)
           /\ \A u \in Task : u # t => action'[u] = action[u]
           /\ action[t] = <<>> => Len(action'[t]) = 1
           /\ \A u \in Task : task'[u] = IF u = t THEN "RUNNING" ELSE task[u]
<1>1. action' = [action EXCEPT ![t] = Append(@, "RUNNING")]
      /\ task' = [task EXCEPT ![t] = "RUNNING"]
  BY DEF Runs, ScheduleAction
<1>2. "RUNNING" \in ActionState
  BY DEF ActionState
<1>3. action \in [Task -> Seq(ActionState)] /\ task \in [Task -> TaskState]
  BY DEF IInv, EngineTypeOK, ActionState
<1> QED
  BY <1>1, <1>2, <1>3, ActionsKept

\* The end of a task completes it and creates the tasks that follow.
LEMMA EndsEffect ==
    ASSUME IInv, NEW t \in Task, NEW s \in ActionEnd, NEW cmds, Completes(t, s, cmds)
    PROVE  /\ \A u \in Task : action'[u] # <<>> <=> action[u] # <<>>
           /\ \A u \in Task : Len(action'[u]) = Len(action[u])
           /\ \A u \in Task : task'[u] = IF u \in cmds
                                         THEN IF u \in Join THEN "WAITING" ELSE "IDLE"
                                         ELSE IF u = t THEN s ELSE task[u]
<1>1. s \in ActionState
  BY DEF ActionEnd, ActionState
<1>2. task' = Dispatched([task EXCEPT ![t] = s], cmds)
  BY DEF Completes
<1>3. action' = action \/ \E i : action' = [action EXCEPT ![t][i] = s]
  BY DEF Completes
<1>4. \A u \in Task : task'[u] = IF u \in cmds
                              THEN IF u \in Join THEN "WAITING" ELSE "IDLE"
                              ELSE IF u = t THEN s ELSE task[u]
  BY <1>2, DispatchedState
<1>5. ASSUME NEW i, action' = [action EXCEPT ![t][i] = s]
      PROVE  /\ \A u \in Task : action'[u] # <<>> <=> action[u] # <<>>
             /\ \A u \in Task : Len(action'[u]) = Len(action[u])
  BY <1>1, <1>5, ActionsKept
<1>6. CASE action' = action
  BY <1>4, <1>6
<1>7. CASE \E i : action' = [action EXCEPT ![t][i] = s]
  BY <1>4, <1>5, <1>7
<1> QED
  BY <1>3, <1>6, <1>7

\* The other steps create no action.
LEMMA StaysEffect ==
    ASSUME IInv, Stays
    PROVE  /\ \A u \in Task : action'[u] # <<>> <=> action[u] # <<>>
           /\ \A u \in Task : Len(action'[u]) = Len(action[u])
<1>1. CASE action' = action
  BY <1>1
<1>2. ASSUME NEW t \in Task, NEW s \in ActionEnd, NEW i,
             action' = [action EXCEPT ![t][i] = s]
      PROVE  /\ \A u \in Task : action'[u] # <<>> <=> action[u] # <<>>
             /\ \A u \in Task : Len(action'[u]) = Len(action[u])
  <2>1. s \in ActionState
    BY DEF ActionEnd, ActionState
  <2> QED
    BY <1>2, <2>1, ActionsKept
<1> QED
  BY <1>1, <1>2 DEF Stays

\* A task that triggered others stays as it is, whatever comes in late.
LEMMA TriggersFinalNext == SteadyInv /\ [Next]_vars => TriggersAreFinal'
<1> SUFFICES ASSUME SteadyInv, [Next]_vars PROVE TriggersAreFinal'
  OBVIOUS
<1> USE DEF SteadyInv
<1>0. /\ action \in [Task -> Seq(ActionState)] /\ next \in [Task -> SUBSET Task]
      /\ task \in [Task -> TaskState] /\ Join \subseteq Task
      /\ \A u \in Task : In(u) \subseteq Task
  BY EngineAssumption DEF IInv, EngineTypeOK, ActionState, In
<1>1. CASE StartWorkflow
  <2>1. /\ \A u \in Task : task[u] = "NONE" /\ next[u] = {} /\ action[u] = <<>>
        /\ UNCHANGED <<next, action>>
    BY <1>1 DEF StartWorkflow, NothingBeforeStart, TriggersAreFinal, ActionsFollowTask,
       Completed
  <2>2. \A t \in Task : task'[t] # "NONE" => In(t) = {}
    BY <1>1, <2>1 DEF StartWorkflow, Dispatched
  <2> QED
    BY <1>0, <2>1, <2>2 DEF TriggersAreFinal
<1>2. ASSUME NEW t \in Task, Runs(t) PROVE TriggersAreFinal'
  <2>1. /\ next' = next /\ task[t] \notin Completed /\ task[t] # "NONE"
        /\ task' = [task EXCEPT ![t] = "RUNNING"]
    BY <1>2 DEF Runs, Completed
  <2>2. \A u \in Task : action'[u] # <<>> <=> (action[u] # <<>> \/ u = t)
    BY <1>2, RunsEffect
  <2>3. ASSUME t \in Join \ Partial, NEW u \in In(t) PROVE t \in next[u]
    <3> DEFINE S == {v \in In(t) : t \in next[v]}
    <3>1. Cardinality(S) >= Cardinality(In(t)) /\ S \subseteq In(t)
      <4>1. Cardinality(S) >= Needed[t]
        BY <1>2, <2>3 DEF Runs
      <4>2. Needed[t] \in 1..Cardinality(In(t)) /\ ~(Needed[t] < Cardinality(In(t)))
        BY <2>3, EngineAssumption DEF Partial
      <4>3. IsFiniteSet(In(t))
        BY <1>0, EngineAssumption, FS_Subset
      <4>4. Cardinality(In(t)) \in Nat
        BY <4>3, FS_CardinalityType
      <4> QED
        BY <4>1, <4>2, <4>4
    <3>2. IsFiniteSet(In(t))
      BY <1>0, EngineAssumption, FS_Subset
    <3>3. S = In(t)
      <4>1. Cardinality(S) \in Nat /\ Cardinality(In(t)) \in Nat
            /\ Cardinality(S) <= Cardinality(In(t))
            /\ (Cardinality(S) = Cardinality(In(t)) => S = In(t))
        BY <3>1, <3>2, FS_Subset, FS_CardinalityType
      <4> HIDE DEF S
      <4> QED
        BY <3>1, <4>1
    <3> QED
      BY <3>3
  <2> QED
    BY <1>0, <2>1, <2>2, <2>3 DEF TriggersAreFinal
<1>3. ASSUME NEW t \in Task, NEW s \in ActionEnd, NEW cmds, Completes(t, s, cmds)
      PROVE  TriggersAreFinal'
  <2>1. /\ next' = [next EXCEPT ![t] = cmds] /\ next[t] = {}
        /\ task[t] \notin Completed \cup {"NONE"}
    BY <1>3 DEF Completes, TriggersAreFinal
  <2>2. \A u \in Task : action'[u] # <<>> <=> action[u] # <<>>
    BY <1>3, EndsEffect
  <2>3. \A n \in cmds : /\ n \in Task /\ t \in In(n) /\ n # t
                        /\ n \notin Join => task[n] = "NONE"
                        /\ n \in Join \ Partial => action[n] = <<>>
    BY <1>3, TriggeredAreFresh
  <2>4. \A u \in Task : task'[u] = IF u \in cmds
                                   THEN IF u \in Join THEN "WAITING" ELSE "IDLE"
                                   ELSE IF u = t THEN s ELSE task[u]
    BY <1>3, EndsEffect
  <2>5. cmds \subseteq Out(t) /\ s \in Completed
    BY <1>3 DEF Completes, Triggered, Out, ActionEnd, Completed
  <2>6. ASSUME NEW u \in Task PROVE next'[u] \subseteq Out(u)
    BY <1>0, <2>1, <2>5 DEF TriggersAreFinal
  <2>7. ASSUME NEW u \in Task, next'[u] # {}
        PROVE  task'[u] \in Completed /\ (u \in Join => action'[u] # <<>>)
    <3>1. CASE u = t
      <4>1. task'[t] = s /\ next'[t] = cmds
        BY <1>0, <2>1, <2>3, <2>4
      <4>2. CASE t \in Join /\ s = "ERROR"
        BY <1>3, <2>7, <3>1, <4>1, <4>2, EngineAssumption DEF Completes, Triggered
      <4>3. CASE ~(t \in Join /\ s = "ERROR")
        BY <1>3, <2>2, <2>5, <3>1, <4>1, <4>3 DEF Completes
      <4> QED
        BY <4>2, <4>3
    <3>2. CASE u # t
      <4>1. next[u] # {} /\ task[u] \in Completed /\ (u \in Join => action[u] # <<>>)
        BY <1>0, <2>1, <2>7, <3>2 DEF TriggersAreFinal
      <4>2. u \notin Partial
        BY <4>1, EngineAssumption DEF TriggersAreFinal, Partial
      <4>3. u \notin cmds
        BY <2>3, <4>1, <4>2 DEF Completed
      <4> QED
        BY <2>2, <2>4, <3>2, <4>1, <4>3
    <3> QED
      BY <3>1, <3>2
  <2>8. ASSUME NEW n \in Task \ Join, task'[n] # "NONE", NEW u \in In(n)
        PROVE  n \in next'[u]
    <3>1. CASE task[n] # "NONE"
      BY <1>0, <2>1, <2>8, <3>1 DEF TriggersAreFinal
    <3>2. CASE task[n] = "NONE"
      <4>1. n \in cmds
        BY <2>1, <2>4, <2>8, <3>2
      <4>2. u = t
        BY <2>3, <4>1, EngineAssumption
      <4> QED
        BY <1>0, <2>1, <4>1, <4>2
    <3> QED
      BY <3>1, <3>2
  <2>9. ASSUME NEW j \in Join \ Partial, action'[j] # <<>>, NEW u \in In(j)
        PROVE  j \in next'[u]
    BY <1>0, <2>1, <2>2, <2>9 DEF TriggersAreFinal
  <2> QED
    BY <2>6, <2>7, <2>8, <2>9 DEF TriggersAreFinal
<1>4. CASE Stays
  <2>1. \A u \in Task : action'[u] # <<>> <=> action[u] # <<>>
    BY <1>4, StaysEffect
  <2> QED
    BY <1>0, <1>4, <2>1 DEF Stays, TriggersAreFinal
<1> QED
  BY <1>1, <1>2, <1>3, <1>4, StepCases

\* The operator's stops are counted.
LEMMA StopsGrow ==
    ASSUME IInv, [Next]_vars, stops' = 0
    PROVE  stops = 0
<1>0. stops \in Nat
  BY DEF IInv, EngineTypeOK
<1>1. ASSUME NEW c \in calls, Handle(c) PROVE stops' = stops
  BY <1>1 DEF Handle, BeginStart, Execute, BeginDone, BeginCheck, ScheduleRefresh,
     histVars
<1>2. ASSUME NEW x \in txs, Commit(x) PROVE stops' = stops
  BY <1>2 DEF Commit, RunNew, RunExisting, OnActionComplete, RefreshTaskState,
     CountTasks, Decide, CheckAndComplete, ChecksOn, Pause, Resume, Stop, histVars
<1>3. ASSUME NEW j \in Join, BeginRefresh(j) PROVE stops' = stops
  BY <1>3 DEF BeginRefresh, histVars
<1>4. CASE OperatorStep
  BY <1>0, <1>4 DEF OperatorStep, StartWorkflow, BeginPause, BeginResume, BeginStop,
     ReportResult, histVars
<1>5. CASE UNCHANGED vars
  BY <1>5 DEF vars, histVars
<1> QED
  BY <1>1, <1>2, <1>3, <1>4, <1>5 DEF Next, SystemStep

\* Of a workflow that is completed, and not by a stop, nothing changes.
LEMMA LateSteps ==
    ASSUME SteadyInv, [Next]_vars, wf \in Completed, stops = 0
    PROVE  UNCHANGED <<wf, task, handled>>
<1>1. \A t \in Task : task[t] \in Completed \cup {"NONE"}
  BY DEF SteadyInv, NothingUnderWay
<1>2. ~StartWorkflow
  BY DEF StartWorkflow, Completed
<1>3. \A t \in Task : ~Runs(t)
  BY <1>1 DEF Runs, Completed
<1>4. \A t \in Task, s \in ActionEnd : \A cmds : ~Completes(t, s, cmds)
  BY <1>1 DEF Completes
<1>5. Stays
  BY <1>2, <1>3, <1>4, StepCases DEF SteadyInv
<1> QED
  BY <1>5, EndStays DEF SteadyInv, Stays

\* A workflow that goes on completes by check_and_complete() only.
LEMMA EndsByVerdict ==
    ASSUME SteadyInv, [Next]_vars, wf \notin Completed, wf' \in Completed, stops = 0
    PROVE  wf' = Verdict(task, handled) /\ UNCHANGED <<task, handled>>
<1> DEFINE Goal == wf' = Verdict(task, handled) /\ UNCHANGED <<task, handled>>
<1>0. \A x \in txs : /\ x.call.op = "start" => x.call.arg = 0
                     /\ x.call.op \notin {"pause", "resume"}
                     /\ x.call.op = "stop" => stops > 0
  BY DEF SteadyInv, NeverPaused
<1>1. ASSUME NEW c \in calls, Handle(c) PROVE Goal
  BY <1>1 DEF Handle, BeginStart, Execute, BeginDone, BeginCheck, ScheduleRefresh,
     taskVars
<1>2. ASSUME NEW x \in txs, Commit(x) PROVE Goal
  <2>1. CASE CheckStage(x)
    <3>1. CheckEffect(x)
      BY <2>1, CheckStep DEF CheckStage, SteadyInv
    <3>2. x.call.op = "decided" /\ wf' = x.call.res
      BY <3>1 DEF CheckEffect
    <3>3. ~Incomplete(task) /\ x.call.res = Decision(task, handled)
      BY <3>2 DEF SteadyInv, ChecksStand, Incomplete, Completed
    <3> QED
      BY <3>1, <3>2, <3>3 DEF CheckEffect, Verdict, taskVars
  <2> QED
    BY <1>0, <1>2, <2>1 DEF Commit, RunNew, RunExisting, OnActionComplete, RefreshTaskState,
       CheckStage, Pause, Resume, Stop
<1>3. ASSUME NEW j \in Join, BeginRefresh(j) PROVE Goal
  BY <1>3 DEF BeginRefresh
<1>4. CASE OperatorStep
  BY <1>4 DEF OperatorStep, StartWorkflow, BeginPause, BeginResume, BeginStop,
     ReportResult, Completed
<1>5. CASE UNCHANGED vars
  BY <1>5 DEF vars
<1> QED
  BY <1>1, <1>2, <1>3, <1>4, <1>5 DEF Next, SystemStep

\* A join keeps the inbound tasks that triggered it.
LEMMA JoinInboundNext == SteadyInv /\ [Next]_vars => JoinHadItsInbound'
<1> DEFINE From(j) == {u \in In(j) : j \in next[u]}
<1> SUFFICES ASSUME SteadyInv, [Next]_vars PROVE JoinHadItsInbound'
  OBVIOUS
<1>0. /\ IInv /\ JoinHadItsInbound /\ TriggersAreFinal
      /\ next \in [Task -> SUBSET Task] /\ Join \subseteq Task
      /\ \A u \in Task : In(u) \subseteq Task
  BY EngineAssumption DEF SteadyInv, IInv, EngineTypeOK, In
<1>1. CASE StartWorkflow
  BY <1>0, <1>1 DEF StartWorkflow, JoinHadItsInbound
<1>2. ASSUME NEW t \in Task, Runs(t) PROVE JoinHadItsInbound'
  <2>1. next' = next /\ (t \in Join => Cardinality(From(t)) >= Needed[t])
    BY <1>2 DEF Runs
  <2>2. \A u \in Task : action'[u] # <<>> <=> (action[u] # <<>> \/ u = t)
    BY <1>0, <1>2, RunsEffect
  <2> QED
    BY <1>0, <2>1, <2>2 DEF JoinHadItsInbound
<1>3. ASSUME NEW t \in Task, NEW s \in ActionEnd, NEW cmds, Completes(t, s, cmds)
      PROVE  JoinHadItsInbound'
  <2>1. next' = [next EXCEPT ![t] = cmds] /\ next[t] = {}
    BY <1>0, <1>3 DEF Completes, TriggersAreFinal
  <2>2. \A u \in Task : action'[u] # <<>> <=> action[u] # <<>>
    BY <1>0, <1>3, EndsEffect
  <2>3. ASSUME NEW j \in Join, action'[j] # <<>>
        PROVE  Cardinality(From(j)') >= Needed[j]
    <3>1. From(j) \subseteq From(j)'
      BY <1>0, <2>1
    <3>2. IsFiniteSet(From(j)') /\ Needed[j] \in Nat
      <4>1. IsFiniteSet(In(j))
        BY <1>0, EngineAssumption, FS_Subset
      <4> QED
        BY <4>1, EngineAssumption, FS_Subset, FS_CardinalityType
    <3>3. Cardinality(From(j)) >= Needed[j]
      BY <1>0, <2>2, <2>3 DEF JoinHadItsInbound
    <3>4. /\ Cardinality(From(j)) <= Cardinality(From(j)')
          /\ Cardinality(From(j)) \in Nat /\ Cardinality(From(j)') \in Nat
      BY <3>1, <3>2, FS_Subset, FS_CardinalityType
    <3> HIDE DEF From
    <3> QED
      BY <3>2, <3>3, <3>4
  <2> QED
    BY <2>3 DEF JoinHadItsInbound
<1>4. CASE Stays
  <2>1. next' = next /\ \A u \in Task : action'[u] # <<>> <=> action[u] # <<>>
    BY <1>0, <1>4, StaysEffect DEF Stays
  <2> QED
    BY <1>0, <2>1 DEF JoinHadItsInbound
<1> QED
  BY <1>1, <1>2, <1>3, <1>4, StepCases DEF SteadyInv

\* A task that runs has not run before, unless it is a partial join.
LEMMA OneActionNext == SteadyInv /\ [Next]_vars => OneAction'
<1> SUFFICES ASSUME SteadyInv, [Next]_vars PROVE OneAction'
  OBVIOUS
<1>0. IInv /\ OneAction /\ ActionsFollowTask
  BY DEF SteadyInv
<1>1. CASE StartWorkflow
  BY <1>0, <1>1 DEF StartWorkflow, OneAction
<1>2. ASSUME NEW t \in Task, Runs(t) PROVE OneAction'
  <2>1. t \notin Partial => action[t] = <<>>
    BY <1>0, <1>2 DEF Runs, ActionsFollowTask
  <2>2. /\ \A u \in Task : u # t => action'[u] = action[u]
        /\ action[t] = <<>> => Len(action'[t]) = 1
    BY <1>0, <1>2, RunsEffect
  <2>3. ASSUME NEW u \in Task \ Partial PROVE Len(action'[u]) <= 1
    <3>1. CASE u = t
      <4>1. Len(action'[u]) = 1
        BY <2>1, <2>2, <2>3, <3>1
      <4> QED
        BY <4>1
    <3>2. CASE u # t
      BY <1>0, <2>2, <2>3, <3>2 DEF OneAction
    <3> QED
      BY <3>1, <3>2
  <2> QED
    BY <2>3 DEF OneAction
<1>3. ASSUME NEW t \in Task, NEW s \in ActionEnd, NEW cmds, Completes(t, s, cmds)
      PROVE  OneAction'
  BY <1>0, <1>3, EndsEffect DEF OneAction
<1>4. CASE Stays
  BY <1>0, <1>4, StaysEffect DEF OneAction
<1> QED
  BY <1>1, <1>2, <1>3, <1>4, StepCases DEF SteadyInv

\* A task is completed together with the dispatch of what it triggers.
LEMMA TriggeredExistNext == SteadyInv /\ [Next]_vars => TriggeredExist'
<1> SUFFICES ASSUME SteadyInv, [Next]_vars, wf' \notin Completed,
                    NEW u \in Task, task'[u] \in Completed,
                    NEW n \in Triggered(u, task'[u])
             PROVE  task'[n] # "NONE"
  BY DEF TriggeredExist
<1>0. /\ IInv /\ TriggeredExist /\ wf \notin Completed /\ n \in Task
      /\ task \in [Task -> TaskState]
  BY EndStays, TriggeredTasks DEF SteadyInv, IInv, EngineTypeOK
<1>1. CASE StartWorkflow
  <2>1. \A t \in Task : task[t] = "NONE"
    BY <1>1 DEF StartWorkflow, SteadyInv, NothingBeforeStart
  <2> QED
    BY <1>1, <2>1 DEF StartWorkflow, Dispatched, Completed
<1>2. ASSUME NEW t \in Task, Runs(t) PROVE task'[n] # "NONE"
  <2>1. \A v \in Task : task'[v] = IF v = t THEN "RUNNING" ELSE task[v]
    BY <1>0, <1>2, RunsEffect
  <2> QED
    BY <1>0, <2>1 DEF TriggeredExist, Completed
<1>3. ASSUME NEW t \in Task, NEW s \in ActionEnd, NEW cmds, Completes(t, s, cmds)
      PROVE  task'[n] # "NONE"
  <2>1. \A v \in Task : task'[v] = IF v \in cmds
                                   THEN IF v \in Join THEN "WAITING" ELSE "IDLE"
                                   ELSE IF v = t THEN s ELSE task[v]
    BY <1>0, <1>3, EndsEffect
  <2>2. cmds = Triggered(t, s) /\ s # "NONE"
    BY <1>0, <1>3 DEF Completes, ActionEnd
  <2>3. t \notin cmds
    BY <1>3, TriggeredAreFresh
  <2>4. u \notin cmds
    BY <2>1 DEF Completed
  <2>5. CASE u = t
    BY <1>0, <2>1, <2>2, <2>3, <2>5
  <2>6. CASE u # t
    BY <1>0, <2>1, <2>2, <2>4, <2>6 DEF TriggeredExist
  <2> QED
    BY <2>5, <2>6
<1>4. CASE Stays
  BY <1>0, <1>4 DEF Stays, TriggeredExist
<1> QED
  BY <1>1, <1>2, <1>3, <1>4, StepCases DEF SteadyInv

\* Once the workflow is completed only late results come in.
LEMMA NothingUnderWayNext == SteadyInv /\ [Next]_vars => NothingUnderWay'
<1> SUFFICES ASSUME SteadyInv, [Next]_vars, stops' = 0, wf' \in Completed, NEW t \in Task
             PROVE  task'[t] \in Completed \cup {"NONE"}
  BY DEF NothingUnderWay
<1>1. stops = 0
  BY StopsGrow DEF SteadyInv
<1>2. CASE wf \notin Completed
  <2>1. wf' = Verdict(task, handled) /\ task' = task
    BY <1>1, <1>2, EndsByVerdict
  <2>2. ~\E u \in Task : task[u] \in {"IDLE", "WAITING", "RUNNING"}
    BY <2>1 DEF Verdict, Incomplete, Completed
  <2> QED
    BY <2>1, <2>2 DEF SteadyInv, IInv, EngineTypeOK, TaskState
<1>3. CASE wf \in Completed
  BY <1>1, <1>3, LateSteps DEF SteadyInv, NothingUnderWay
<1> QED
  BY <1>2, <1>3

\* Where the stages of a check come from.
LEMMA NewStages ==
    ASSUME SteadyInv, [Next]_vars, NEW x \in txs', x \notin txs,
           x.call.op \in {"counted", "decided"}
    PROVE  /\ UNCHANGED <<wf, task, handled>>
           /\ x.wf = wf
           /\ \/ x.call.op = "counted" /\ ~Incomplete(task)
              \/ /\ x.call.op = "decided" /\ x.call.res = Decision(task, handled)
                 /\ \E y \in txs : y.call.op = "counted"
<1> DEFINE Goal == /\ UNCHANGED <<wf, task, handled>>
                   /\ x.wf = wf
                   /\ \/ x.call.op = "counted" /\ ~Incomplete(task)
                      \/ /\ x.call.op = "decided" /\ x.call.res = Decision(task, handled)
                         /\ \E y \in txs : y.call.op = "counted"
<1>0. /\ \A c, S : Loads(c, S).call = c /\ Loads(c, S).wf = wf
      /\ \A op, t, n, res : /\ Call(op, t, n, res).op = op
                            /\ Call(op, t, n, res).res = res
  BY DEF Loads, Call
<1>1. ASSUME NEW c \in calls, Handle(c) PROVE FALSE
  BY <1>0, <1>1 DEF Handle, BeginStart, Execute, BeginDone, BeginCheck, ScheduleRefresh
<1>2. ASSUME NEW y \in txs, Commit(y) PROVE Goal
  <2>1. CASE CountTasks(y)
    <3>1. Turns(y, Call("counted", y.call.task, 0, "NONE")) /\ ~Incomplete(task) /\ ChecksOn
      BY <2>1 DEF CountTasks, Commits
    <3>2. x = Loads(Call("counted", y.call.task, 0, "NONE"), {})
      BY <3>1 DEF Turns
    <3> QED
      BY <1>0, <3>1, <3>2 DEF ChecksOn, taskVars
  <2>2. CASE Decide(y)
    <3>1. /\ Turns(y, Call("decided", y.call.task, 0, Decision(task, handled)))
          /\ y.call.op = "counted" /\ ChecksOn
      BY <2>2 DEF Decide, Commits
    <3>2. x = Loads(Call("decided", y.call.task, 0, Decision(task, handled)), {})
      BY <3>1 DEF Turns
    <3> QED
      BY <1>0, <3>1, <3>2 DEF ChecksOn, taskVars
  <2>3. CASE ~CountTasks(y) /\ ~Decide(y)
    BY <1>2, <2>3 DEF Commit, RunNew, RunExisting, OnActionComplete, RefreshTaskState,
       CheckAndComplete, Pause, Resume, Stop, Commits
  <2> QED
    BY <2>1, <2>2, <2>3
<1>3. ASSUME NEW j \in Join, BeginRefresh(j) PROVE FALSE
  BY <1>0, <1>3 DEF BeginRefresh
<1>4. ASSUME OperatorStep PROVE FALSE
  BY <1>0, <1>4 DEF OperatorStep, StartWorkflow, BeginPause, BeginResume, BeginStop,
     ReportResult, Operator
<1>5. ASSUME UNCHANGED vars PROVE FALSE
  BY <1>5 DEF vars
<1> QED
  BY <1>1, <1>2, <1>3, <1>4, <1>5 DEF Next, SystemStep

\* Nothing moves any more when every task is completed, unless the workflow begins.
LEMMA AllDoneStays ==
    ASSUME SteadyInv, [Next]_vars, txs # {},
           \A t \in Task : task[t] \in Completed \cup {"NONE"}
    PROVE  UNCHANGED <<task, handled>>
<1>1. ~StartWorkflow
  BY DEF StartWorkflow, SteadyInv, NothingBeforeStart
<1>2. \A t \in Task : ~Runs(t)
  BY DEF Runs, Completed
<1>3. \A t \in Task, s \in ActionEnd : \A cmds : ~Completes(t, s, cmds)
  BY DEF Completes
<1>4. Stays
  BY <1>1, <1>2, <1>3, StepCases DEF SteadyInv
<1> QED
  BY <1>4 DEF Stays

\* What a check counted and decided stands.
LEMMA ChecksStandNext == SteadyInv /\ [Next]_vars => ChecksStand'
<1> SUFFICES ASSUME SteadyInv, [Next]_vars, NEW x \in txs',
                    x.call.op \in {"counted", "decided"}
             PROVE  /\ \A t \in Task : task'[t] \in Completed \cup {"NONE"}
                    /\ x.call.op = "decided" => x.call.res = Decision(task', handled')
  BY DEF ChecksStand, Decision
<1>1. CASE x \in txs
  <2>1. /\ \A t \in Task : task[t] \in Completed \cup {"NONE"}
        /\ x.call.op = "decided" => x.call.res = Decision(task, handled)
    BY <1>1 DEF SteadyInv, ChecksStand
  <2>2. UNCHANGED <<task, handled>>
    BY <1>1, <2>1, AllDoneStays
  <2> QED
    BY <2>1, <2>2
<1>2. CASE x \notin txs
  <2>1. /\ UNCHANGED <<wf, task, handled>>
        /\ \/ x.call.op = "counted" /\ ~Incomplete(task)
           \/ /\ x.call.op = "decided" /\ x.call.res = Decision(task, handled)
              /\ \E y \in txs : y.call.op = "counted"
    BY <1>2, NewStages
  <2>2. ~Incomplete(task) => \A t \in Task : task[t] \in Completed \cup {"NONE"}
    BY DEF Incomplete, SteadyInv, IInv, EngineTypeOK, TaskState
  <2>3. (\E y \in txs : y.call.op = "counted")
           => \A t \in Task : task[t] \in Completed \cup {"NONE"}
    BY DEF SteadyInv, ChecksStand
  <2> QED
    BY <2>1, <2>2, <2>3
<1> QED
  BY <1>1, <1>2

\* The verdict is right when it is given, and nothing it rests on changes.
LEMMA VerdictNext == SteadyInv /\ [Next]_vars => VerdictMatchesTasks'
<1> SUFFICES ASSUME SteadyInv, [Next]_vars, stops' = 0 PROVE VerdictMatchesTasks'
  BY DEF VerdictMatchesTasks
<1>1. stops = 0 /\ again = {}
  BY StopsGrow DEF SteadyInv, NeverPaused
<1>2. CASE wf' \notin Completed
  BY <1>2 DEF VerdictMatchesTasks, Completed
<1>3. CASE wf \notin Completed /\ wf' \in Completed
  <2>1. wf' = Verdict(task, handled) /\ task' = task /\ handled' = handled
    BY <1>1, <1>3, EndsByVerdict
  <2>2. \A t \in Task : task[t] \notin {"IDLE", "WAITING", "RUNNING"}
    BY <1>3, <2>1 DEF Verdict, Incomplete, Completed
  <2>3. \A t \in Task : task[t] \in Completed \cup {"NONE"}
    BY <2>2 DEF SteadyInv, IInv, EngineTypeOK, TaskState
  <2>4. ASSUME NEW t \in Task, NEW n \in Triggered(t, task[t])
        PROVE  task[n] \in Completed
    <3>1. n \in Task /\ task[t] \in Completed
      BY <2>4, TriggeredTasks DEF Triggered, Completed
    <3> QED
      BY <1>3, <2>3, <2>4, <3>1 DEF SteadyInv, TriggeredExist
  <2> QED
    BY <2>1, <2>2, <2>3, <2>4 DEF Verdict, Incomplete, Decision, VerdictMatchesTasks
<1>4. CASE wf \in Completed
  <2>1. task' = task /\ handled' = handled /\ wf' = wf
    BY <1>1, <1>4, LateSteps
  <2> QED
    BY <1>1, <2>1 DEF SteadyInv, VerdictMatchesTasks
<1> QED
  BY <1>2, <1>3, <1>4

\* Without pauses nothing loads a paused workflow and nothing is started again.
LEMMA NeverPausedNext ==
    ASSUME MaxPause = 0, SteadyInv, [Next]_vars
    PROVE  NeverPaused'
<1> DEFINE TxOK(x, w, n) == /\ x.call.op = "start" => x.call.arg = 0
                            /\ x.call.op \notin {"pause", "resume"}
                            /\ x.call.op = "stop" => n > 0
                            /\ x.wf # "PAUSED"
                            /\ x.wf \in Completed => w \in Completed
<1>0. /\ IInv /\ pauses = 0 /\ again = {} /\ wf # "PAUSED" /\ stops \in Nat
      /\ \A c \in calls : c.op = "start" => c.arg = 0
      /\ \A x \in txs : TxOK(x, wf, stops)
  BY DEF SteadyInv, NeverPaused, IInv, EngineTypeOK
<1>1. wf \in Completed => wf' \in Completed
  BY <1>0, EndStays
<1>2. SUFFICES /\ pauses' = pauses /\ again' = again /\ wf' # "PAUSED" /\ stops' >= stops
               /\ \A c \in calls' \ calls : c.op = "start" => c.arg = 0
               /\ \A x \in txs' \ txs : TxOK(x, wf, stops')
  <2>1. stops' >= stops /\ stops' \in Int => (stops > 0 => stops' > 0)
    BY <1>0
  <2>2. stops' \in Int
    BY <1>0, StepPreserves DEF IInv, EngineTypeOK
  <2> QED
    BY <1>0, <1>1, <2>1, <2>2 DEF NeverPaused
<1> DEFINE Goal == /\ pauses' = pauses /\ again' = again /\ wf' # "PAUSED" /\ stops' >= stops
                   /\ \A c \in calls' \ calls : c.op = "start" => c.arg = 0
                   /\ \A x \in txs' \ txs : TxOK(x, wf, stops')
<1>3. /\ \A t, n, res : RunAction(t, n).op = "run" /\ Done(t, n, res).op = "done"
      /\ \A t, u : Check(t).op = "check" /\ Request(t, u).op = "request"
      /\ \A t, n : Start(t, n).arg = n
      /\ \A S : \A c \in StartNew(S) : c.arg = 0
      /\ \A t, f, w : \A c \in Requests(t, f, w) : c.op = "request"
      /\ \A c, S : Loads(c, S).call = c /\ Loads(c, S).wf = wf
      /\ \A op, n, res : Operator(op, n, res).op = op
  BY DEF RunAction, Done, Check, Request, Start, StartNew, Requests, Loads, Operator, Call
<1>4. ASSUME NEW c \in calls, Handle(c) PROVE Goal
  <2>1. wf' # "PAUSED"
    BY <1>0, <1>4, VerdictState DEF Handle, BeginStart, Execute, BeginDone,
       BeginCheck, ScheduleRefresh, Completed
  <2>2. UNCHANGED histVars
    BY <1>4 DEF Handle, BeginStart, Execute, BeginDone, BeginCheck, ScheduleRefresh
  <2>3. \A d \in calls' \ calls : d.op = "start" => d.arg = 0
    BY <1>3, <1>4 DEF Handle, BeginStart, Execute, BeginDone, BeginCheck,
       ScheduleRefresh
  <2>4. \A x \in txs' \ txs : TxOK(x, wf, stops')
    BY <1>0, <1>3, <1>4 DEF Handle, BeginStart, Execute, BeginDone, BeginCheck,
       ScheduleRefresh
  <2> HIDE DEF TxOK
  <2> QED
    BY <1>0, <2>1, <2>2, <2>3, <2>4 DEF histVars
<1>5. ASSUME NEW x \in txs, Commit(x) PROVE Goal
  <2>0. TxOK(x, wf, stops) /\ x \in GoodTxs
    BY <1>0 DEF IInv
  <2>1. \/ RunNew(x) \/ OnActionComplete(x)
        \/ RefreshTaskState(x) \/ Stop(x) \/ CheckStage(x)
    BY <1>5, <2>0 DEF Commit, RunExisting, CheckStage, Pause, Resume
  <2>9. ASSUME CheckStage(x) PROVE Goal
    <3>1. CheckEffect(x)
      BY <1>0, <2>9, CheckStep DEF CheckStage
    <3>2. \A y \in txs' \ txs : TxOK(y, wf, stops')
      <4>1. ASSUME NEW y \in GoodTxs, y.call.op \in {"counted", "decided"}, y.wf = wf
            PROVE  TxOK(y, wf, stops')
        BY <1>0, <4>1
      <4> HIDE DEF TxOK
      <4> QED
        BY <3>1, <4>1 DEF CheckEffect
    <3> HIDE DEF TxOK
    <3> QED
      BY <1>0, <3>1, <3>2 DEF CheckEffect, histVars, Completed
  <2> SUFFICES ASSUME ~CheckStage(x) PROVE Goal
    BY <2>9
  <2>2. txs' = txs \ {x} /\ UNCHANGED histVars
    BY <2>1 DEF RunNew, OnActionComplete, RefreshTaskState, Stop, Commits
  <2>3. wf' # "PAUSED"
    <3>1. x.call.op = "stop" => x.call.res # "PAUSED"
      BY <2>0 DEF GoodTxs, WellFormed, ActionEnd
    <3> QED
      BY <1>0, <2>1, <3>1 DEF RunNew, OnActionComplete, RefreshTaskState, Stop
  <2>4. \A t, s, seen, w : CompleteTask(t, s, seen, w) =>
           \A d \in calls' \ calls : d.op = "start" => d.arg = 0
    BY <1>3 DEF CompleteTask
  <2>5. \A t : ScheduleAction(t) => \A d \in calls' \ calls : d.op = "start" => d.arg = 0
    BY <1>3 DEF ScheduleAction
  <2>6. \A d \in calls' \ calls : d.op = "start" => d.arg = 0
    BY <1>3, <2>1, <2>4, <2>5 DEF RunNew, OnActionComplete, RefreshTaskState, Stop
  <2> HIDE DEF TxOK
  <2> QED
    BY <1>0, <2>2, <2>3, <2>6 DEF histVars
<1>6. ASSUME NEW j \in Join, BeginRefresh(j) PROVE Goal
  <2>1. \A n : Call("refresh", j, n, "NONE").op = "refresh"
    BY DEF Call
  <2>2. \A x \in txs' \ txs : TxOK(x, wf, stops')
    BY <1>0, <1>3, <1>6, <2>1 DEF BeginRefresh
  <2>3. UNCHANGED <<wf, calls, histVars>>
    BY <1>6 DEF BeginRefresh
  <2> HIDE DEF TxOK
  <2> QED
    BY <1>0, <2>2, <2>3 DEF histVars
<1>7. CASE OperatorStep
  <2>1. CASE StartWorkflow
    BY <1>0, <1>3, <2>1 DEF StartWorkflow, histVars
  <2>2. CASE BeginPause \/ BeginResume
    BY <1>0, <2>2 DEF BeginPause, BeginResume
  <2>3. ASSUME NEW s \in ActionEnd, BeginStop(s) PROVE Goal
    <3>1. stops' = stops + 1 /\ UNCHANGED <<wf, calls, pauses, again>>
          /\ txs' = txs \cup {Loads(Operator("stop", stops, s), {})}
          /\ wf \in {"RUNNING", "PAUSED"}
      BY <2>3 DEF BeginStop
    <3>2. TxOK(Loads(Operator("stop", stops, s), {}), wf, stops')
      BY <1>0, <1>3, <3>1 DEF Completed
    <3> HIDE DEF TxOK
    <3> QED
      BY <1>0, <3>1, <3>2
  <2>4. ASSUME NEW t \in Task, NEW i, ReportResult(t, i) PROVE Goal
    BY <1>0, <1>3, <2>4 DEF ReportResult
  <2> QED
    BY <1>7, <2>1, <2>2, <2>3, <2>4 DEF OperatorStep
<1>8. CASE UNCHANGED vars
  BY <1>0, <1>8 DEF vars, histVars
<1> QED
  BY <1>4, <1>5, <1>6, <1>7, <1>8 DEF Next, SystemStep

\* Nothing but start_workflow() begins.
LEMMA NothingBeforeNext == SteadyInv /\ [Next]_vars => NothingBeforeStart'
<1> SUFFICES ASSUME SteadyInv, [Next]_vars, wf' = "NONE"
             PROVE  UNCHANGED <<wf, task, calls, txs, jobs>>
  BY DEF NothingBeforeStart, SteadyInv
<1>1. CASE wf = "NONE"
  <2>1. /\ calls = {} /\ txs = {} /\ jobs = {}
        /\ \A t \in Task : task[t] = "NONE" /\ action[t] = <<>>
    BY <1>1 DEF SteadyInv, NothingBeforeStart, ActionsFollowTask
  <2> QED
    BY <1>1, <2>1 DEF Next, SystemStep, OperatorStep, BeginRefresh, StartWorkflow,
       BeginPause, BeginResume, BeginStop, ReportResult, vars, taskVars
<1>2. CASE wf # "NONE"
  <2>1. ASSUME NEW c \in calls, Handle(c) PROVE FALSE
    BY <1>2, <2>1, VerdictState DEF Handle, BeginStart, Execute, BeginDone,
       BeginCheck, ScheduleRefresh, Completed
  <2>2. ASSUME NEW x \in txs, Commit(x) PROVE FALSE
    <3>1. x.call.op = "stop" => x.call.res # "NONE"
      BY DEF SteadyInv, IInv, GoodTxs, WellFormed, ActionEnd
    <3>2. x.call.op # "resume"
      BY DEF SteadyInv, NeverPaused
    <3>3. CASE CheckStage(x)
      <4>1. CheckEffect(x)
        BY <3>3, CheckStep DEF CheckStage, SteadyInv
      <4> QED
        BY <1>2, <4>1 DEF CheckEffect, Completed
    <3> QED
      BY <1>2, <2>2, <3>1, <3>2, <3>3 DEF Commit, RunNew, RunExisting, OnActionComplete,
         RefreshTaskState, CheckStage, Pause, Resume, Stop
  <2>3. ASSUME NEW j \in Join, BeginRefresh(j) PROVE FALSE
    BY <1>2, <2>3 DEF BeginRefresh
  <2>4. CASE OperatorStep
    BY <1>2, <2>4 DEF OperatorStep, StartWorkflow, BeginPause, BeginResume, BeginStop,
       ReportResult
  <2>5. CASE UNCHANGED vars
    BY <1>2, <2>5 DEF vars
  <2> QED
    BY <2>1, <2>2, <2>3, <2>4, <2>5 DEF Next, SystemStep
<1> QED
  BY <1>1, <1>2

\* Actions are sent, and results come in, of tasks that have an action.
LEMMA MessagesFollowActions ==
    ASSUME SteadyInv, [Next]_vars
    PROVE  /\ \A c \in calls' : c.op \in {"run", "done"} => action'[c.task] # <<>>
           /\ \A x \in txs' : x.call.op = "done" =>
                 action'[x.call.task] # <<>> /\ x.seen[x.call.task] # "NONE"
<1>0. /\ IInv /\ ActionsFollowTask
      /\ calls \subseteq GoodCalls /\ txs \subseteq GoodTxs
      /\ action \in [Task -> Seq(ActionState)] /\ Join \subseteq Task
  BY EngineAssumption DEF SteadyInv, IInv, EngineTypeOK, ActionState
<1>1. \A u \in Task : action[u] # <<>> => action'[u] # <<>>
  <2>1. CASE StartWorkflow
    BY <2>1 DEF StartWorkflow
  <2>2. ASSUME NEW t \in Task, Runs(t)
        PROVE  \A u \in Task : action[u] # <<>> => action'[u] # <<>>
    BY <1>0, <2>2, RunsEffect
  <2>3. ASSUME NEW t \in Task, NEW s \in ActionEnd, NEW cmds, Completes(t, s, cmds)
        PROVE  \A u \in Task : action[u] # <<>> => action'[u] # <<>>
    BY <1>0, <2>3, EndsEffect
  <2>4. CASE Stays
    BY <1>0, <2>4, StaysEffect
  <2> QED
    BY <2>1, <2>2, <2>3, <2>4, StepCases DEF SteadyInv
<1> DEFINE CallOK(c) == c.op \in {"run", "done"} => action'[c.task] # <<>>
           TxOK(x) == x.call.op = "done" =>
                         action'[x.call.task] # <<>> /\ x.seen[x.call.task] # "NONE"
           Goal == (\A c \in calls' \ calls : CallOK(c)) /\ (\A x \in txs' \ txs : TxOK(x))
<1>2. /\ \A c \in calls : CallOK(c)
      /\ \A x \in txs : TxOK(x)
  <2>1. ASSUME NEW c \in calls PROVE CallOK(c)
    BY <1>0, <1>1 DEF ActionsFollowTask, GoodCalls, WellFormed
  <2>2. ASSUME NEW x \in txs PROVE TxOK(x)
    BY <1>0, <1>1 DEF ActionsFollowTask, GoodTxs, WellFormed
  <2> QED
    BY <2>1, <2>2
<1>3. /\ \A t, u : Check(t).op = "check" /\ Request(t, u).op = "request"
      /\ \A t, n : Start(t, n).op = "start"
      /\ \A t, n : RunAction(t, n).task = t
      /\ \A t, n, res : Done(t, n, res).task = t
      /\ \A S : \A c \in StartNew(S) : c.op = "start"
      /\ \A t, f, w : \A c \in Requests(t, f, w) : c.op = "request"
      /\ \A c, S : Loads(c, S).call = c
      /\ \A op, n, res : Operator(op, n, res).op = op
  BY DEF RunAction, Done, Check, Request, Start, StartNew, Requests, Loads, Operator, Call
<1>4. ASSUME NEW t \in Task, ScheduleAction(t) PROVE \A c \in calls' \ calls : CallOK(c)
  <2>1. action'[t] = Append(action[t], "RUNNING")
    BY <1>0, <1>4 DEF ScheduleAction
  <2>2. action'[t] # <<>>
    BY <1>0, <2>1, AppendProperties DEF ActionState
  <2> QED
    BY <1>3, <1>4, <2>2 DEF ScheduleAction
<1>5. ASSUME NEW t, NEW s, NEW seen, NEW w, CompleteTask(t, s, seen, w)
      PROVE  \A c \in calls' \ calls : CallOK(c)
  BY <1>3, <1>5 DEF CompleteTask
<1>6. ASSUME NEW c \in calls, Handle(c) PROVE Goal
  <2>0. /\ c \in GoodCalls
        /\ c.op \in {"run", "done"} => c.task \in Task /\ action[c.task] # <<>>
    BY <1>0 DEF GoodCalls, WellFormed, ActionsFollowTask
  <2>1. CASE BeginStart(c)
    BY <1>3, <2>1 DEF BeginStart
  <2>2. CASE Execute(c)
    BY <1>1, <1>3, <2>0, <2>2 DEF Execute
  <2>3. CASE BeginDone(c)
    <3>1. c.task \in Task /\ action'[c.task] # <<>> /\ task[c.task] # "NONE"
      BY <1>0, <1>1, <2>0, <2>3 DEF BeginDone, ActionsFollowTask
    <3>2. Loads(c, {c.task}).seen[c.task] = task[c.task]
      BY DEF Loads
    <3>3. TxOK(Loads(c, {c.task}))
      <4>1. Loads(c, {c.task}).call = c
        BY DEF Loads
      <4> QED
        BY <3>1, <3>2, <4>1
    <3> HIDE DEF TxOK
    <3> QED
      BY <2>3, <3>3 DEF BeginDone
  <2>4. CASE BeginCheck(c) \/ ScheduleRefresh(c)
    BY <1>3, <2>4 DEF BeginCheck, ScheduleRefresh
  <2> QED
    BY <1>6, <2>1, <2>2, <2>3, <2>4 DEF Handle
<1>7. ASSUME NEW x \in txs, Commit(x) PROVE Goal
  <2>1. x.call.op # "resume" /\ (x.call.op = "start" => x.call.arg = 0)
    BY DEF SteadyInv, NeverPaused
  <2>2. x.call.op \in {"start", "done", "refresh"} => x.call.task \in Task
    BY <1>0 DEF GoodTxs, WellFormed
  <2>3. \A y \in txs' \ txs : TxOK(y)
    <3>1. CASE CheckStage(x)
      BY <1>0, <3>1, CheckStep DEF CheckStage, CheckEffect
    <3>2. CASE ~CheckStage(x)
      BY <1>7, <3>2 DEF Commit, RunNew, RunExisting, OnActionComplete, RefreshTaskState,
         CheckStage, Pause, Resume, Stop, Commits
    <3> QED
      BY <3>1, <3>2
  <2>4. \A c \in calls' \ calls : CallOK(c)
    <3>1. CASE RunNew(x)
      <4>1. \A c \in Requests(x.call.task, task, x.wf) : CallOK(c)
        BY <1>3
      <4> HIDE DEF CallOK
      <4> QED
        BY <1>4, <2>2, <3>1, <4>1 DEF RunNew
    <3>2. CASE OnActionComplete(x)
      BY <1>5, <3>2 DEF OnActionComplete
    <3>3. CASE RefreshTaskState(x)
      <4> HIDE DEF CallOK
      <4> QED
        BY <1>4, <1>5, <2>2, <3>3 DEF RefreshTaskState
    <3>4. CASE Pause(x) \/ Stop(x)
      BY <3>4 DEF Pause, Stop
    <3>5. CASE CheckStage(x)
      BY <1>0, <3>5, CheckStep DEF CheckStage, CheckEffect
    <3> QED
      BY <1>7, <2>1, <3>1, <3>2, <3>3, <3>4, <3>5 DEF Commit, CheckStage, RunExisting, Resume
  <2> QED
    BY <2>3, <2>4
<1>8. ASSUME NEW j \in Join, BeginRefresh(j) PROVE Goal
  <2>1. \A n : Call("refresh", j, n, "NONE").op = "refresh"
    BY DEF Call
  <2> QED
    BY <1>3, <1>8, <2>1 DEF BeginRefresh
<1>9. ASSUME OperatorStep PROVE Goal
  <2>1. ASSUME StartWorkflow PROVE Goal
    BY <1>3, <2>1 DEF StartWorkflow
  <2>2. ASSUME BeginPause PROVE Goal
    BY <1>3, <2>2 DEF BeginPause
  <2>3. ASSUME BeginResume PROVE Goal
    BY <1>3, <2>3 DEF BeginResume
  <2>4. ASSUME NEW s \in ActionEnd, BeginStop(s) PROVE Goal
    BY <1>3, <2>4 DEF BeginStop
  <2>5. ASSUME NEW t \in Task, NEW i, ReportResult(t, i) PROVE Goal
    <3>1. action[t] # <<>>
      BY <1>0, <2>5 DEF ReportResult
    <3> QED
      BY <1>1, <1>3, <2>5, <3>1 DEF ReportResult
  <2> QED
    BY <1>9, <2>1, <2>2, <2>3, <2>4, <2>5 DEF OperatorStep
<1>10. ASSUME UNCHANGED vars PROVE Goal
  BY <1>10 DEF vars
<1>11. Goal
  BY <1>6, <1>7, <1>8, <1>9, <1>10 DEF Next, SystemStep
<1> QED
  <2> HIDE DEF CallOK, TxOK
  <2>1. (\A c \in calls' : CallOK(c)) /\ (\A x \in txs' : TxOK(x))
    BY <1>2, <1>11
  <2> QED
    BY <2>1 DEF CallOK, TxOK

\* A task has an action only when it runs or has run.
LEMMA ActionsFollowNext == SteadyInv /\ [Next]_vars => ActionsFollowTask'
<1> SUFFICES ASSUME SteadyInv, [Next]_vars PROVE ActionsFollowTask'
  OBVIOUS
<1> DEFINE Early(t) == IF t \in Partial THEN {"NONE"} ELSE {"NONE", "IDLE", "WAITING"}
           Goal == /\ \A t \in Task : action'[t] # <<>> => task'[t] \notin Early(t)
                   /\ \A j \in Join : task'[j] # "IDLE"
<1>0. /\ IInv /\ ActionsFollowTask /\ Join \subseteq Task
      /\ \A t \in Task : action[t] # <<>> => task[t] \notin Early(t)
      /\ \A j \in Join : task[j] # "IDLE"
  BY EngineAssumption DEF SteadyInv, ActionsFollowTask
<1>1. ASSUME StartWorkflow PROVE Goal
  <2>1. /\ \A t \in Task : task[t] = "NONE" /\ action[t] = <<>>
        /\ action' = action
    BY <1>1 DEF StartWorkflow, SteadyInv, NothingBeforeStart, ActionsFollowTask
  <2>2. \A j \in Join : task'[j] # "IDLE"
    BY <1>0, <1>1, <2>1 DEF StartWorkflow, Dispatched
  <2> QED
    BY <2>1, <2>2
<1>2. ASSUME NEW t \in Task, Runs(t) PROVE Goal
  <2>1. /\ \A u \in Task : task'[u] = IF u = t THEN "RUNNING" ELSE task[u]
        /\ \A u \in Task : action'[u] # <<>> <=> (action[u] # <<>> \/ u = t)
    BY <1>0, <1>2, RunsEffect
  <2> QED
    BY <1>0, <2>1
<1>3. ASSUME NEW t \in Task, NEW s \in ActionEnd, NEW cmds, Completes(t, s, cmds) PROVE Goal
  <2>1. /\ \A u \in Task : action'[u] # <<>> <=> action[u] # <<>>
        /\ \A u \in Task : task'[u] = IF u \in cmds
                                      THEN IF u \in Join THEN "WAITING" ELSE "IDLE"
                                      ELSE IF u = t THEN s ELSE task[u]
    BY <1>0, <1>3, EndsEffect
  <2>2. s \notin {"NONE", "IDLE", "WAITING"}
    BY DEF ActionEnd
  <2>3. ASSUME NEW u \in Task, action[u] # <<>> PROVE task'[u] \notin Early(u)
    <3>1. CASE u \in cmds
      <4>1. u \in Partial /\ u \in Join
        BY <1>0, <1>3, <2>3, <3>1, TriggeredAreFresh
      <4> QED
        BY <2>1, <3>1, <4>1
    <3>2. CASE u \notin cmds
      BY <1>0, <2>1, <2>2, <2>3, <3>2
    <3> QED
      BY <3>1, <3>2
  <2>4. \A j \in Join : task'[j] # "IDLE"
    BY <1>0, <2>1, <2>2
  <2> QED
    BY <2>1, <2>3, <2>4
<1>4. ASSUME Stays PROVE Goal
  BY <1>0, <1>4, StaysEffect DEF Stays
<1>5. Goal
  BY <1>1, <1>2, <1>3, <1>4, StepCases DEF SteadyInv
<1> QED
  BY <1>5, MessagesFollowActions DEF ActionsFollowTask

-----------------------------------------------------------------------------
(* The theorems on a workflow that nobody pauses.                            *)

\* Before start_workflow() nothing has been promised.
LEMMA SteadyInit == Init => SteadyInv
<1> SUFFICES ASSUME Init PROVE SteadyInv
  OBVIOUS
<1>1. IInv
  BY InitEstablishes
<1>2. NeverPaused /\ NothingBeforeStart
  BY DEF Init, NeverPaused, NothingBeforeStart
<1>3. \A t \in Task : task[t] = "NONE" /\ next[t] = {} /\ action[t] = <<>>
  BY DEF Init
<1>4. ActionsFollowTask /\ TriggersAreFinal /\ JoinHadItsInbound /\ OneAction
  <2>1. Join \subseteq Task /\ Len(<<>>) = 0
    BY EngineAssumption
  <2>2. calls = {} /\ txs = {}
    BY DEF Init
  <2>3. OneAction
    BY <1>3, <2>1 DEF OneAction
  <2> QED
    BY <1>3, <2>1, <2>2, <2>3
    DEF ActionsFollowTask, TriggersAreFinal, JoinHadItsInbound
<1>5. TriggeredExist /\ NothingUnderWay /\ VerdictMatchesTasks /\ ChecksStand
  BY <1>3
  DEF Init, TriggeredExist, NothingUnderWay, VerdictMatchesTasks, ChecksStand, Completed
<1> QED
  BY <1>1, <1>2, <1>4, <1>5 DEF SteadyInv

\* Every step keeps every promise.
LEMMA SteadyNext ==
    ASSUME MaxPause = 0
    PROVE  SteadyInv /\ [Next]_vars => SteadyInv'
<1> SUFFICES ASSUME SteadyInv, [Next]_vars PROVE SteadyInv'
  OBVIOUS
<1>1. IInv'
  BY StepPreserves DEF SteadyInv
<1> QED
  BY <1>1, NeverPausedNext, NothingBeforeNext, ActionsFollowNext, TriggersFinalNext,
     JoinInboundNext, OneActionNext, TriggeredExistNext, NothingUnderWayNext, VerdictNext,
     ChecksStandNext
  DEF SteadyInv

\* Without pauses and whatever transactions overlap: tasks, actions and messages
\* keep their promises to each other.
THEOREM SteadyInvariant ==
    ASSUME MaxPause = 0
    PROVE  EngineSpec => []SteadyInv
BY SteadyInit, SteadyNext, PTL DEF EngineSpec

\* The workflow gets the state that its tasks deserve: SUCCESS with every triggered
\* task executed to its end and every error handled, ERROR only with an unhandled
\* error; and a join runs its action only after the inbound tasks that it needs.
THEOREM EngineSafety ==
    ASSUME MaxPause = 0
    PROVE  EngineSpec => []EngineInv
<1>1. SteadyInv => EngineInv
  <2> SUFFICES ASSUME SteadyInv PROVE EngineInv
    OBVIOUS
  <2>1. ASSUME NEW j \in Join, action[j] # <<>>
        PROVE  Cardinality({t \in In(j) : task[t] \in Completed /\ j \in next[t]})
                  >= Needed[j]
    <3>1. {t \in In(j) : task[t] \in Completed /\ j \in next[t]}
             = {t \in In(j) : j \in next[t]}
      BY DEF SteadyInv, TriggersAreFinal, In
    <3> QED
      BY <2>1, <3>1 DEF SteadyInv, JoinHadItsInbound
  <2> QED
    BY <2>1 DEF SteadyInv, IInv, EngineInv, JoinWaitsForInbound
<1> QED
  BY <1>1, SteadyInvariant, PTL

\* Where every join waits for all its inbound tasks, a task runs its action once,
\* however many commands, refresh jobs and late results come in.
THEOREM EveryTaskStartedOnce ==
    ASSUME MaxPause = 0, \A j \in Join : Needed[j] = Cardinality(In(j))
    PROVE  EngineSpec => []StartedOnce
<1>1. Partial = {}
  <2>1. \A j \in Join : Cardinality(In(j)) \in Nat
    BY EngineAssumption, FS_Subset, FS_CardinalityType DEF In
  <2> QED
    BY <2>1 DEF Partial
<1>2. SteadyInv => StartedOnce
  BY <1>1 DEF SteadyInv, OneAction, StartedOnce
<1> QED
  BY <1>2, SteadyInvariant, PTL

-----------------------------------------------------------------------------
(* The graph: routes and affected joins, which the code finds by recursion.  A    *)
(* task is behind those of a lower level, and what is wrong for some task is wrong *)
(* for one of the lowest level.                                                   *)

\* A set of naturals has a least element, which stands in for induction.
LEMMA LeastExists ==
    ASSUME NEW T \in SUBSET Nat, T # {}
    PROVE  \E x \in T : \A y \in T : x <= y
<1> DEFINE R == OpToRel(<, Nat)
<1>1. IsWellFoundedOn(R, Nat)
  BY NatLessThanWellFounded
<1>2. PICK x \in T : \A y \in T : ~(<<y, x>> \in R)
  <2> HIDE DEF R
  <2> QED BY <1>1, WFMin
<1>3. \A y \in T : ~(y < x)
  BY <1>2 DEF OpToRel
<1> QED BY <1>3

\* The level of a task in the graph.
IsLevel(level) ==
    /\ level \in [Task -> 1..Cardinality(Task)]
    /\ \A t \in Task : \A u \in Out(t) : level[t] < level[u]

\* A non-empty set of tasks has one that is not behind another of them.
LEMMA LowestTask ==
    ASSUME NEW level, IsLevel(level), NEW S \in SUBSET Task, S # {}
    PROVE  \E u \in S : \A v \in S : level[u] <= level[v]
<1> DEFINE T == {level[u] : u \in S}
<1>1. T \in SUBSET Nat /\ T # {}
  BY EngineAssumption, FS_CardinalityType DEF IsLevel
<1>2. PICK x \in T : \A y \in T : x <= y
  <2> HIDE DEF T
  <2> QED BY <1>1, LeastExists
<1> QED BY <1>2

\* The recursive function of Possible() has a value.
LEMMA RouteExists ==
    \E Route : Route = [n \in 0..Cardinality(Task) |->
          {u \in Task :
             \/ In(u) = {}
             \/ \E v \in In(u) :
                   IF task[v] = "NONE"
                   THEN n > 0 /\ v \in Route[n - 1]
                   ELSE task[v] \notin Completed \/ u \in next[v]}]
<1> DEFINE Level(n, R) ==
              {u \in Task :
                 \/ In(u) = {}
                 \/ \E v \in In(u) :
                       IF task[v] = "NONE"
                       THEN n > 0 /\ v \in R
                       ELSE task[v] \notin Completed \/ u \in next[v]}
           Fits(n) == \E f : f = [k \in 0..n |-> Level(k, f[k - 1])]
<1>1. Fits(0)
  <2> DEFINE f == [k \in 0..0 |-> Level(0, {})]
  <2>1. \A R, Q : Level(0, R) = Level(0, Q)
    OBVIOUS
  <2> HIDE DEF Level
  <2>2. \A k \in 0..0 : k = 0
    OBVIOUS
  <2>3. f = [k \in 0..0 |-> Level(k, f[k - 1])]
    BY <2>1, <2>2
  <2> QED BY <2>3
<1>2. ASSUME NEW n \in Nat, Fits(n) PROVE Fits(n + 1)
  <2> HIDE DEF Level
  <2>1. PICK f : f = [k \in 0..n |-> Level(k, f[k - 1])]
    BY <1>2
  <2> DEFINE g == [k \in 0..(n + 1) |-> IF k = n + 1 THEN Level(n + 1, f[n]) ELSE f[k]]
  <2>2. ASSUME NEW k \in 0..(n + 1) PROVE g[k] = Level(k, g[k - 1])
    <3>1. CASE k = n + 1
      BY <3>1
    <3>2. CASE k = 0
      <4>1. \A R, Q : Level(0, R) = Level(0, Q)
        BY DEF Level
      <4> QED BY <2>1, <3>2, <4>1
    <3>3. CASE k \in 1..n
      BY <2>1, <3>3
    <3> QED BY <3>1, <3>2, <3>3
  <2>3. g = [k \in 0..(n + 1) |-> Level(k, g[k - 1])]
    BY <2>2
  <2> QED BY <2>3
<1>3. \A n \in Nat : Fits(n)
  <2> HIDE DEF Fits
  <2> DEFINE Bad == {n \in Nat : ~Fits(n)}
  <2>1. SUFFICES ASSUME Bad # {} PROVE FALSE
    OBVIOUS
  <2>2. PICK n \in Bad : \A m \in Bad : n <= m
    <3>1. Bad \in SUBSET Nat
      OBVIOUS
    <3> HIDE DEF Bad
    <3> QED BY <2>1, <3>1, LeastExists
  <2>3. n # 0
    BY <1>1, <2>2
  <2>4. n - 1 \in Nat /\ n - 1 \notin Bad
    BY <2>2, <2>3
  <2> QED BY <1>2, <2>2, <2>4
<1> QED
  BY <1>3, EngineAssumption, FS_CardinalityType

\* What Possible() computes: a task without execution has a possible route if it is a
\* start task, or an inbound task is under way, triggered it or has a route itself.
LEMMA PossibleFix ==
    \A u \in Task : Possible(u) <=>
       \/ In(u) = {}
       \/ \E v \in In(u) : IF task[v] = "NONE" THEN Possible(v)
                           ELSE task[v] \notin Completed \/ u \in next[v]
<1> DEFINE C == Cardinality(Task)
           Route == CHOOSE Route : Route = [n \in 0..C |->
          {u \in Task :
             \/ In(u) = {}
             \/ \E v \in In(u) :
                   IF task[v] = "NONE"
                   THEN n > 0 /\ v \in Route[n - 1]
                   ELSE task[v] \notin Completed \/ u \in next[v]}]
<1>1. \A u : Possible(u) <=> u \in Route[C]
  BY DEF Possible
<1>2. Route = [n \in 0..C |->
          {u \in Task :
             \/ In(u) = {}
             \/ \E v \in In(u) :
                   IF task[v] = "NONE"
                   THEN n > 0 /\ v \in Route[n - 1]
                   ELSE task[v] \notin Completed \/ u \in next[v]}]
  BY RouteExists
<1> HIDE DEF Route
<1>3. PICK level : IsLevel(level)
  BY EngineAssumption DEF IsLevel
<1>4. C \in Nat /\ \A u \in Task : level[u] \in 1..C
  BY <1>3, EngineAssumption, FS_CardinalityType DEF IsLevel
<1>5. \A u \in Task : \A v \in In(u) : v \in Task /\ level[v] < level[u]
  BY <1>3 DEF IsLevel, In
<1> HIDE DEF C
\* what is n levels up of u does not depend on n
<1> DEFINE Settled(u) == \A n, m \in 0..C : n >= level[u] - 1 /\ m >= level[u] - 1 =>
                             (u \in Route[n] <=> u \in Route[m])
<1>6. \A u \in Task : Settled(u)
  <2> DEFINE Bad == {u \in Task : ~Settled(u)}
  <2>1. SUFFICES ASSUME Bad # {} PROVE FALSE
    OBVIOUS
  <2>2. PICK u \in Bad : \A v \in Bad : level[u] <= level[v]
    <3>1. Bad \in SUBSET Task
      OBVIOUS
    <3> HIDE DEF Bad
    <3> QED BY <1>3, <2>1, <3>1, LowestTask
  <2>3. ASSUME NEW v \in In(u) PROVE Settled(v) /\ level[v] < level[u]
    <3>1. v \in Task /\ level[v] < level[u]
      BY <1>5, <2>2
    <3>2. level[v] \in Int /\ level[u] \in Int
      BY <1>4, <2>2, <3>1
    <3>3. v \notin Bad
      BY <2>2, <3>1, <3>2
    <3> QED BY <3>1, <3>3
  <2>4. PICK n, m \in 0..C : /\ n >= level[u] - 1 /\ m >= level[u] - 1
                             /\ u \in Route[n] /\ u \notin Route[m]
    BY <2>2
  <2>5. ASSUME NEW v \in In(u), n > 0, v \in Route[n - 1] PROVE m > 0 /\ v \in Route[m - 1]
    <3>1. /\ level[v] \in 1..C /\ level[u] \in 1..C /\ level[v] < level[u]
      BY <1>4, <1>5, <2>2, <2>3
    <3>2. /\ n - 1 \in 0..C /\ m - 1 \in 0..C
          /\ n - 1 >= level[v] - 1 /\ m - 1 >= level[v] - 1 /\ m > 0
      BY <1>4, <2>4, <2>5, <3>1
    <3> QED BY <2>3, <2>5, <3>2
  <2>6. u \in Route[m]
    <3>1. u \in Task
      BY <2>2
    <3> HIDE DEF Settled, Bad
    <3> QED BY <1>2, <2>4, <2>5, <3>1
  <2> QED BY <2>4, <2>6
<1>7. ASSUME NEW u \in Task, NEW v \in In(u)
      PROVE  C > 0 /\ (v \in Route[C - 1] <=> v \in Route[C])
  <2>1. v \in Task /\ level[v] \in 1..C /\ level[u] \in 1..C /\ level[v] < level[u]
    BY <1>4, <1>5
  <2>2. C > 0 /\ C - 1 \in 0..C /\ C \in 0..C /\ C - 1 >= level[v] - 1 /\ C >= level[v] - 1
    BY <1>4, <2>1
  <2> QED BY <1>6, <2>1, <2>2
<1> HIDE DEF Settled
<1>8. C \in 0..C
  BY <1>4
<1>9. ASSUME NEW u \in Task
      PROVE  u \in Route[C] <=>
       \/ In(u) = {}
       \/ \E v \in In(u) : IF task[v] = "NONE" THEN v \in Route[C]
                           ELSE task[v] \notin Completed \/ u \in next[v]
  <2>1. u \in Route[C] <=>
       \/ In(u) = {}
       \/ \E v \in In(u) : IF task[v] = "NONE" THEN C > 0 /\ v \in Route[C - 1]
                           ELSE task[v] \notin Completed \/ u \in next[v]
    BY <1>2, <1>8
  <2>2. \A v \in In(u) : (C > 0 /\ v \in Route[C - 1]) <=> v \in Route[C]
    BY <1>7
  <2> HIDE DEF Route, C
  <2> QED BY <2>1, <2>2
<1> QED BY <1>1, <1>9

\* The same in the next state.
LEMMA PossibleFixNext ==
    \A u \in Task : Possible(u)' <=>
       \/ In(u) = {}
       \/ \E v \in In(u) : IF task'[v] = "NONE" THEN Possible(v)'
                           ELSE task'[v] \notin Completed \/ u \in next'[v]
<1>1. (\A u \in Task : Possible(u) <=>
       \/ In(u) = {}
       \/ \E v \in In(u) : IF task[v] = "NONE" THEN Possible(v)
                           ELSE task[v] \notin Completed \/ u \in next[v])'
  BY PossibleFix, PTL
<1> QED BY <1>1

\* The joins that are affected by the end of t are those in a set of tasks that holds
\* what follows t, and what follows its members that are no existing joins.
LEMMA AffectedClosed ==
    ASSUME NEW t \in Task, NEW state
    PROVE  \E R \in SUBSET Task :
              /\ Affected(t, state) = {j \in Join \cap R : state[j] # "NONE"}
              /\ Out(t) \subseteq R
              /\ \A u \in R : u \notin Join \/ state[u] = "NONE" => Out(u) \subseteq R
<1> DEFINE exists == {j \in Join : state[j] # "NONE"}
           C == Cardinality(Task)
           Step(n, Q) == IF n = 0 THEN Out(t)
                         ELSE Q \cup UNION {Out(u) : u \in Q \ exists}
           Fits(n) == \E f : f = [k \in 0..n |-> Step(k, f[k - 1])]
<1>1. Fits(0)
  <2> DEFINE f == [k \in 0..0 |-> Out(t)]
  <2>1. f = [k \in 0..0 |-> Step(k, f[k - 1])]
    OBVIOUS
  <2> QED BY <2>1
<1>2. ASSUME NEW n \in Nat, Fits(n) PROVE Fits(n + 1)
  <2>0. \A Q, P : Step(0, Q) = Step(0, P)
    OBVIOUS
  <2> HIDE DEF Step
  <2>1. PICK f : f = [k \in 0..n |-> Step(k, f[k - 1])]
    BY <1>2
  <2> DEFINE g == [k \in 0..(n + 1) |-> IF k = n + 1 THEN Step(n + 1, f[n]) ELSE f[k]]
  <2>2. ASSUME NEW k \in 0..(n + 1) PROVE g[k] = Step(k, g[k - 1])
    <3>1. CASE k = n + 1
      BY <3>1
    <3>2. CASE k = 0
      BY <2>0, <2>1, <3>2
    <3>3. CASE k \in 1..n
      BY <2>1, <3>3
    <3> QED BY <3>1, <3>2, <3>3
  <2>3. g = [k \in 0..(n + 1) |-> Step(k, g[k - 1])]
    BY <2>2
  <2> QED BY <2>3
<1>3. \A n \in Nat : Fits(n)
  <2> HIDE DEF Fits
  <2> DEFINE Bad == {n \in Nat : ~Fits(n)}
  <2>1. SUFFICES ASSUME Bad # {} PROVE FALSE
    OBVIOUS
  <2>2. PICK n \in Bad : \A m \in Bad : n <= m
    <3>1. Bad \in SUBSET Nat
      OBVIOUS
    <3> HIDE DEF Bad
    <3> QED BY <2>1, <3>1, LeastExists
  <2>3. n # 0
    BY <1>1, <2>2
  <2>4. n - 1 \in Nat /\ n - 1 \notin Bad
    BY <2>2, <2>3
  <2> QED BY <1>2, <2>2, <2>4
<1>4. C \in Nat
  BY EngineAssumption, FS_CardinalityType
<1> DEFINE Reach == CHOOSE Reach : Reach = [n \in 0..C |->
          IF n = 0 THEN Out(t)
          ELSE Reach[n - 1] \cup UNION {Out(u) : u \in Reach[n - 1] \ exists}]
<1>5. Affected(t, state) = Reach[C] \cap exists
  BY DEF Affected
<1>6. Reach = [n \in 0..C |->
          IF n = 0 THEN Out(t)
          ELSE Reach[n - 1] \cup UNION {Out(u) : u \in Reach[n - 1] \ exists}]
  <2> HIDE DEF C
  <2> QED BY <1>3, <1>4
<1> HIDE DEF Reach, Step, Fits, C
<1>7. PICK level : IsLevel(level)
  BY EngineAssumption DEF IsLevel
<1>8. \A u \in Task : Out(u) \subseteq Task /\ level[u] \in 1..C
                     /\ \A v \in Out(u) : level[u] < level[v]
  BY <1>7, EngineAssumption DEF IsLevel, Out, C
<1>9. /\ Reach[0] = Out(t)
      /\ \A n \in 1..C : Reach[n] = Reach[n - 1] \cup UNION {Out(u) : u \in Reach[n - 1] \ exists}
  BY <1>4, <1>6
\* what is reached in n steps is reached as soon as its level allows
<1>10. \A n \in 0..C : Out(t) \subseteq Reach[n] /\ Reach[n] \subseteq Task
  <2> DEFINE Bad == {n \in 0..C : ~(Out(t) \subseteq Reach[n] /\ Reach[n] \subseteq Task)}
  <2>1. SUFFICES ASSUME Bad # {} PROVE FALSE
    OBVIOUS
  <2>2. PICK n \in Bad : \A m \in Bad : n <= m
    <3>1. Bad \in SUBSET Nat
      BY <1>4
    <3> HIDE DEF Bad
    <3> QED BY <2>1, <3>1, LeastExists
  <2>3. n # 0 /\ n \in 1..C
    BY <1>4, <1>8, <1>9, <2>2
  <2>4. n - 1 \in 0..C /\ n - 1 \notin Bad
    BY <1>4, <2>2, <2>3
  <2>5. Out(t) \subseteq Reach[n - 1] /\ Reach[n - 1] \subseteq Task
    BY <2>4
  <2> QED BY <1>8, <1>9, <2>2, <2>3, <2>5
<1>11. \A n \in 0..C : \A v \in Reach[n] : \A m \in 0..C : m >= level[v] - 1 => v \in Reach[m]
  <2> DEFINE Early(n) == \A v \in Reach[n] : \A m \in 0..C : m >= level[v] - 1 => v \in Reach[m]
             Bad == {n \in 0..C : ~Early(n)}
  <2>1. SUFFICES ASSUME Bad # {} PROVE FALSE
    OBVIOUS
  <2>2. PICK n \in Bad : \A m \in Bad : n <= m
    <3>1. Bad \in SUBSET Nat
      BY <1>4
    <3> HIDE DEF Bad
    <3> QED BY <2>1, <3>1, LeastExists
  <2>3. n # 0 /\ n \in 1..C
    <3>1. Early(0)
      BY <1>9, <1>10
    <3> QED BY <1>4, <2>2, <3>1
  <2>4. n - 1 \in 0..C /\ Early(n - 1)
    <3>1. n - 1 \in 0..C /\ n - 1 \notin Bad
      BY <1>4, <2>2, <2>3
    <3> QED BY <3>1
  <2>5. PICK v \in Reach[n], m \in 0..C : m >= level[v] - 1 /\ v \notin Reach[m]
    BY <2>2
  <2>6. v \notin Reach[n - 1]
    BY <2>4, <2>5
  <2>7. PICK u \in Reach[n - 1] \ exists : v \in Out(u)
    BY <1>9, <2>3, <2>5, <2>6
  <2>8. u \in Task /\ level[u] \in 1..C /\ level[v] \in 1..C /\ level[u] < level[v]
    BY <1>8, <1>10, <2>4, <2>7
  <2>9. m \in 1..C /\ m - 1 \in 0..C /\ m - 1 >= level[u] - 1
    BY <1>4, <2>5, <2>8
  <2>10. u \in Reach[m - 1]
    BY <2>4, <2>7, <2>9
  <2> QED BY <1>9, <2>5, <2>7, <2>9, <2>10
<1>12. C \in 0..C
  BY <1>4
<1>13. ASSUME NEW u \in Reach[C] \ exists PROVE Out(u) \subseteq Reach[C]
  <2>1. SUFFICES ASSUME NEW v \in Out(u) PROVE v \in Reach[C]
    OBVIOUS
  <2>2. u \in Task /\ v \in Task /\ level[u] \in 1..C /\ level[v] \in 1..C /\ level[u] < level[v]
    BY <1>8, <1>10, <1>12
  <2>3. C - 1 \in 0..C /\ C - 1 >= level[u] - 1 /\ C \in 1..C
    BY <1>4, <2>2
  <2>4. u \in Reach[C - 1]
    BY <1>11, <1>12, <2>3
  <2> QED BY <1>9, <2>3, <2>4
<1>14. /\ Reach[C] \in SUBSET Task
       /\ Affected(t, state) = {j \in Join \cap Reach[C] : state[j] # "NONE"}
       /\ Out(t) \subseteq Reach[C]
       /\ \A u \in Reach[C] : u \notin Join \/ state[u] = "NONE" => Out(u) \subseteq Reach[C]
  BY <1>5, <1>10, <1>12, <1>13
<1> QED BY <1>14

\* The logical state of a join by the number of inbound tasks that triggered it, and of
\* those that never will.
LEMMA LogicalStateCases ==
    ASSUME NEW j \in Join
    PROVE  LET ran  == Cardinality({t \in In(j) : Induced(t, j) = "RUNNING"})
               lost == Cardinality({t \in In(j) : Induced(t, j) = "ERROR"})
           IN  /\ LogicalState(j) \in {"RUNNING", "ERROR", "WAITING"}
               /\ LogicalState(j) = "WAITING" <=>
                     ran < Needed[j] /\ lost <= Cardinality(In(j)) - Needed[j]
<1> DEFINE ran  == Cardinality({t \in In(j) : Induced(t, j) = "RUNNING"})
           lost == Cardinality({t \in In(j) : Induced(t, j) = "ERROR"})
           all  == Cardinality(In(j))
<1>1. IsFiniteSet(In(j))
  BY EngineAssumption, FS_Subset DEF In
<1>2. ran \in Nat /\ lost \in Nat /\ all \in Nat /\ Needed[j] \in Nat
  BY <1>1, EngineAssumption, FS_Subset, FS_CardinalityType
<1>3. LogicalState(j) = CASE ran >= Needed[j] -> "RUNNING"
                          [] ran < Needed[j] /\ lost > all - Needed[j] -> "ERROR"
                          [] OTHER -> "WAITING"
  BY DEF LogicalState
<1> HIDE DEF ran, lost, all
<1>4. ran >= Needed[j] \/ ran < Needed[j]
  BY <1>2
<1>5. ~(ran >= Needed[j] /\ ran < Needed[j])
  BY <1>2
<1>6. lost > all - Needed[j] \/ lost <= all - Needed[j]
  BY <1>2
<1>7. ~(lost > all - Needed[j] /\ lost <= all - Needed[j])
  BY <1>2
<1>8. LogicalState(j) \in {"RUNNING", "ERROR", "WAITING"}
  BY <1>3
<1>9. LogicalState(j) = "WAITING" <=> ran < Needed[j] /\ lost <= all - Needed[j]
  BY <1>3, <1>4, <1>5, <1>6, <1>7
<1> QED BY <1>8, <1>9 DEF ran, lost, all

\* The same in the next state.
LEMMA LogicalStateNext ==
    \A j \in Join :
       LET ran  == Cardinality({t \in In(j) : Induced(t, j)' = "RUNNING"})
           lost == Cardinality({t \in In(j) : Induced(t, j)' = "ERROR"})
       IN  LogicalState(j)' = "WAITING" <=>
              ran < Needed[j] /\ lost <= Cardinality(In(j)) - Needed[j]
<1>1. \A j \in Join :
       LET ran  == Cardinality({t \in In(j) : Induced(t, j) = "RUNNING"})
           lost == Cardinality({t \in In(j) : Induced(t, j) = "ERROR"})
       IN  LogicalState(j) = "WAITING" <=>
              ran < Needed[j] /\ lost <= Cardinality(In(j)) - Needed[j]
  BY LogicalStateCases
<1>2. (\A j \in Join :
       LET ran  == Cardinality({t \in In(j) : Induced(t, j) = "RUNNING"})
           lost == Cardinality({t \in In(j) : Induced(t, j) = "ERROR"})
       IN  LogicalState(j) = "WAITING" <=>
              ran < Needed[j] /\ lost <= Cardinality(In(j)) - Needed[j])'
  BY <1>1, PTL
<1> QED BY <1>2

\* A join that waits for its inbound tasks still does after a step that completes only
\* the tasks in S, if it is not among the tasks R that are affected by them.
LEMMA StillWaits ==
    ASSUME NEW j \in Join, NEW S \in SUBSET Task, NEW R \in SUBSET Task, j \notin R,
           \A t \in S : Out(t) \subseteq R /\ task[t] # "NONE",
           \A u \in R : task'[u] = "NONE" => Out(u) \subseteq R,
           \A u \in Task : task'[u] = "NONE" => task[u] = "NONE",
           \A u \in Task \ S : task'[u] \in Completed =>
                                  task'[u] = task[u] /\ next'[u] = next[u],
           LogicalState(j) = "WAITING"
    PROVE  LogicalState(j)' = "WAITING"
<1>0. /\ j \in Task /\ \A u \in Task : In(u) \subseteq Task
      /\ \A u \in Task, v \in Task : v \in In(u) <=> u \in Out(v)
      /\ "NONE" \notin Completed
  BY EngineAssumption DEF In, Completed
<1>1. PICK level : IsLevel(level)
  BY EngineAssumption DEF IsLevel
\* who had a route has one, if it is not affected
<1>2. ASSUME NEW u \in Task, task'[u] = "NONE", u \notin R, Possible(u) PROVE Possible(u)'
  <2> DEFINE Bad == {v \in Task : task'[v] = "NONE" /\ v \notin R /\ Possible(v) /\ ~Possible(v)'}
  <2>1. SUFFICES ASSUME Bad # {} PROVE FALSE
    BY <1>2
  <2>2. PICK w \in Bad : \A v \in Bad : level[w] <= level[v]
    <3>1. Bad \in SUBSET Task
      OBVIOUS
    <3> HIDE DEF Bad
    <3> QED BY <1>1, <2>1, <3>1, LowestTask
  <2>3. w \in Task /\ w \notin R /\ Possible(w) /\ ~Possible(w)'
    BY <2>2
  <2>4. PICK v \in In(w) : IF task[v] = "NONE" THEN Possible(v)
                           ELSE task[v] \notin Completed \/ w \in next[v]
    BY <2>3, PossibleFix, PossibleFixNext
  <2>5. v \in Task /\ w \in Out(v)
    BY <1>0, <2>3
  <2>6. v \notin S
    BY <2>3, <2>5
  <2>7. CASE task'[v] = "NONE"
    <3>1. task[v] = "NONE" /\ Possible(v)
      BY <2>4, <2>5, <2>7
    <3>2. v \notin R
      BY <2>3, <2>5, <2>7
    <3>3. v \notin Bad
      <4>1. level[v] < level[w] /\ level[v] \in 1..Cardinality(Task)
            /\ level[w] \in 1..Cardinality(Task)
        BY <1>1, <2>3, <2>5 DEF IsLevel
      <4>2. ~(level[w] <= level[v])
        BY <4>1
      <4> QED BY <2>2, <4>2
    <3>4. Possible(v)'
      BY <2>5, <2>7, <3>1, <3>2, <3>3
    <3> QED BY <2>3, <2>4, <2>7, <3>4, PossibleFixNext
  <2>8. CASE task'[v] # "NONE"
    <3>1. task'[v] \notin Completed \/ w \in next'[v]
      BY <1>0, <2>4, <2>5, <2>6
    <3> QED BY <2>3, <2>4, <2>8, <3>1, PossibleFixNext
  <2> QED BY <2>7, <2>8
<1>3. ASSUME NEW u \in In(j)
      PROVE  /\ Induced(u, j)' = "RUNNING" => Induced(u, j) = "RUNNING"
             /\ Induced(u, j)' = "ERROR"   => Induced(u, j) = "ERROR"
  <2>1. u \in Task /\ j \in Out(u) /\ u \notin S
    BY <1>0
  <2>2. CASE task'[u] = "NONE"
    <3>1. task[u] = "NONE" /\ u \notin R
      BY <2>1, <2>2
    <3>2. /\ Induced(u, j) = (IF Possible(u) THEN "WAITING" ELSE "ERROR")
          /\ Induced(u, j)' = (IF Possible(u)' THEN "WAITING" ELSE "ERROR")
      BY <1>0, <2>2, <3>1 DEF Induced
    <3> QED BY <1>2, <2>1, <2>2, <3>1, <3>2
  <2>3. CASE task'[u] \in Completed
    <3>1. task[u] = task'[u] /\ next'[u] = next[u]
      BY <2>1, <2>3
    <3>2. /\ Induced(u, j) = (IF j \in next[u] THEN "RUNNING" ELSE "ERROR")
          /\ Induced(u, j)' = (IF j \in next'[u] THEN "RUNNING" ELSE "ERROR")
      BY <1>0, <2>3, <3>1 DEF Induced, Completed
    <3> QED BY <3>1, <3>2
  <2>4. CASE task'[u] \notin Completed \cup {"NONE"}
    BY <2>4 DEF Induced, Completed
  <2> QED BY <2>2, <2>3, <2>4
<1> DEFINE Ran  == {t \in In(j) : Induced(t, j) = "RUNNING"}
           Lost == {t \in In(j) : Induced(t, j) = "ERROR"}
           RanNow  == {t \in In(j) : Induced(t, j)' = "RUNNING"}
           LostNow == {t \in In(j) : Induced(t, j)' = "ERROR"}
<1>4. IsFiniteSet(In(j)) /\ RanNow \subseteq Ran /\ LostNow \subseteq Lost
      /\ Ran \subseteq In(j) /\ Lost \subseteq In(j)
  BY <1>0, <1>3, EngineAssumption, FS_Subset
<1>5. Cardinality(Ran) < Needed[j] /\ Cardinality(Lost) <= Cardinality(In(j)) - Needed[j]
  BY LogicalStateCases
<1>6. LogicalState(j)' = "WAITING" <=>
         Cardinality(RanNow) < Needed[j] /\ Cardinality(LostNow) <= Cardinality(In(j)) - Needed[j]
  BY LogicalStateNext
<1> HIDE DEF Ran, Lost, RanNow, LostNow
<1>7. /\ Cardinality(RanNow) \in Nat /\ Cardinality(LostNow) \in Nat
      /\ Cardinality(Ran) \in Nat /\ Cardinality(Lost) \in Nat /\ Cardinality(In(j)) \in Nat
      /\ Cardinality(RanNow) <= Cardinality(Ran) /\ Cardinality(LostNow) <= Cardinality(Lost)
  BY <1>4, FS_Subset, FS_CardinalityType
<1>8. Needed[j] \in Nat
  BY EngineAssumption, <1>7
<1> QED BY <1>5, <1>6, <1>7, <1>8

-----------------------------------------------------------------------------
(* Without a pause: no wake-up is lost.                                      *)

\* Who owes what to the workflow: the first run of a task, the result of its last
\* action, a refresh of a join, a completion check.
StartOwed(t) ==
    \/ Start(t, 0) \in calls
    \/ \E x \in txs : x.call.op = "start" /\ x.call.task = t /\ x.seen[t] = "IDLE"
ResultOwed(t) ==
    \/ \E c \in calls : c.op \in {"run", "done"} /\ c.task = t /\ c.arg = Len(action[t])
    \/ \E x \in txs : x.call.op = "done" /\ x.call.task = t /\ x.seen[t] = "RUNNING"
RefreshOwed(j) ==
    \/ \E c \in calls : c.op = "request" /\ c.task = j
    \/ j \in jobs
    \/ \E x \in txs : x.call.op = "refresh" /\ x.call.task = j
CheckOwed ==
    \/ \E c \in calls : c.op = "check"
    \/ \E x \in txs : \/ x.call.op \in {"check", "counted"}
                      \/ x.call.op = "decided" /\ x.wf = "RUNNING"

\* What triggered tasks and start tasks are: rows.
RowsExist ==
    /\ wf # "NONE" => \A t \in Task : In(t) = {} => task[t] # "NONE"
    /\ \A u \in Task : \A n \in next[u] : task[n] # "NONE"
    /\ \A t \in Task : task[t] = "WAITING" => t \in Join

\* Messages are about actions that were created; the last one of a running task has no
\* result, and was created when the task began to run.
LastActionRuns ==
    /\ \A c \in calls : c.op \in {"run", "done"} => c.arg \in 1..Len(action[c.task])
    /\ \A x \in txs : x.call.op = "done" => x.call.arg \in 1..Len(action[x.call.task])
    /\ \A t \in Task : task[t] = "RUNNING" =>
          /\ Len(action[t]) > 0 /\ action[t][Len(action[t])] = "RUNNING"
          /\ \A x \in txs : x.call.op = "done" /\ x.call.task = t
                            /\ x.call.arg = Len(action[t]) => x.seen[t] = "RUNNING"

IdleIsStarted  == \A t \in Task : task[t] = "IDLE" => StartOwed(t)
RunningIsEnded == \A t \in Task : task[t] = "RUNNING" => ResultOwed(t)
JoinIsRefreshed ==
    wf \notin Completed => \A j \in Join : task[j] = "WAITING" =>
        RefreshOwed(j) \/ LogicalState(j) = "WAITING"
EndIsChecked ==
    wf = "RUNNING" /\ (\A t \in Task : task[t] \in Completed \cup {"NONE"}) => CheckOwed

\* The inductive invariant: every task that is not completed is owed something.
OwedInv ==
    /\ SteadyInv /\ RowsExist /\ LastActionRuns
    /\ IdleIsStarted /\ RunningIsEnded /\ JoinIsRefreshed /\ EndIsChecked

\* What is owed is owed until it is handled.
LEMMA HandledOrKept ==
    ASSUME SteadyInv, [Next]_vars
    PROVE  /\ \A c \in calls : c \in calls' \/ Handle(c)
           /\ \A x \in txs : x \in txs' \/ (Commit(x) /\ x.call.op \notin {"pause", "resume"})
           /\ \A j \in jobs : j \in jobs' \/ BeginRefresh(j)
<1> DEFINE Goal == /\ \A c \in calls : c \in calls' \/ Handle(c)
                   /\ \A x \in txs : x \in txs' \/ (Commit(x) /\ x.call.op \notin {"pause", "resume"})
                   /\ \A j \in jobs : j \in jobs' \/ BeginRefresh(j)
<1>0. /\ \A x \in txs : x.call.op \notin {"pause", "resume"}
      /\ wf = "NONE" => calls = {}
  BY DEF SteadyInv, NeverPaused, NothingBeforeStart
<1>1. ASSUME NEW c \in calls, Handle(c) PROVE Goal
  BY <1>1 DEF Handle, BeginStart, Execute, BeginDone, BeginCheck, ScheduleRefresh
<1>2. ASSUME NEW x \in txs, Commit(x) PROVE Goal
  <2>1. calls \subseteq calls'
    BY <1>0, <1>2 DEF Commit, RunNew, RunExisting, OnActionComplete, RefreshTaskState,
       CompleteTask, ScheduleAction, CountTasks, Decide, CheckAndComplete, ChecksOn,
       Pause, Resume, Stop, histVars
  <2>2. jobs' = jobs /\ txs \ {x} \subseteq txs'
    BY <1>2 DEF Commit, RunNew, RunExisting, OnActionComplete, RefreshTaskState,
       CountTasks, Decide, CheckAndComplete, ChecksOn, Turns, Pause, Resume, Stop, Commits
  <2> QED BY <1>0, <1>2, <2>1, <2>2
<1>3. ASSUME NEW j \in Join, BeginRefresh(j) PROVE Goal
  BY <1>3 DEF BeginRefresh
<1>4. CASE OperatorStep
  BY <1>0, <1>4 DEF OperatorStep, StartWorkflow, BeginPause, BeginResume, BeginStop, ReportResult
<1>5. CASE UNCHANGED vars
  BY <1>5 DEF vars
<1> QED
  BY <1>1, <1>2, <1>3, <1>4, <1>5 DEF Next, SystemStep

\* Where new messages and transactions come from.
LEMMA NewMessages ==
    ASSUME SteadyInv, [Next]_vars
    PROVE  /\ \A c \in calls' \ calls : c.op \in {"run", "done"} =>
                \/ \E t \in Task : Runs(t) /\ c = RunAction(t, Len(action[t]) + 1)
                \/ \E d \in calls : d.op = "run" /\ d.task = c.task /\ d.arg = c.arg
                                    /\ UNCHANGED action
                \/ c.task \in Task /\ c.arg \in DOMAIN action[c.task] /\ UNCHANGED action
           /\ \A x \in txs' \ txs : x.call.op = "done" =>
                /\ x.call \in calls /\ x.call.task \in Task
                /\ x = Loads(x.call, {x.call.task}) /\ UNCHANGED <<task, action>>
<1> DEFINE FromCall(c) == c.op \in {"run", "done"} =>
                \/ \E t \in Task : Runs(t) /\ c = RunAction(t, Len(action[t]) + 1)
                \/ \E d \in calls : d.op = "run" /\ d.task = c.task /\ d.arg = c.arg
                                    /\ UNCHANGED action
                \/ c.task \in Task /\ c.arg \in DOMAIN action[c.task] /\ UNCHANGED action
           FromTx(x) == x.call.op = "done" =>
                /\ x.call \in calls /\ x.call.task \in Task
                /\ x = Loads(x.call, {x.call.task}) /\ UNCHANGED <<task, action>>
           Goal == /\ \A c \in calls' \ calls : FromCall(c)
                   /\ \A x \in txs' \ txs : FromTx(x)
<1>0. /\ IInv /\ NeverPaused /\ ActionsFollowTask /\ TriggersAreFinal
      /\ calls \subseteq GoodCalls /\ txs \subseteq GoodTxs
  BY DEF SteadyInv, IInv
<1>1. /\ \A t, u : Check(t).op = "check" /\ Request(t, u).op = "request"
      /\ \A t, n : Start(t, n).op = "start"
      /\ \A t, n, res : Done(t, n, res).task = t /\ Done(t, n, res).arg = n
      /\ \A S : \A c \in StartNew(S) : c.op = "start"
      /\ \A t, f, w : \A c \in Requests(t, f, w) : c.op = "request"
      /\ \A c, S : Loads(c, S).call = c
      /\ \A op, n, res : Operator(op, n, res).op = op
      /\ \A j, n : Call("refresh", j, n, "NONE").op = "refresh"
  BY DEF Done, Check, Request, Start, StartNew, Requests, Loads, Operator, Call
<1>2. ASSUME NEW c \in calls, Handle(c) PROVE Goal
  <2>1. CASE BeginStart(c)
    BY <1>1, <2>1 DEF BeginStart
  <2>2. CASE Execute(c)
    BY <1>1, <2>2 DEF Execute
  <2>3. CASE BeginDone(c)
    <3>1. c.task \in Task
      BY <1>0, <2>3 DEF BeginDone, GoodCalls, WellFormed
    <3>2. calls' \subseteq calls /\ UNCHANGED <<task, action>>
      BY <2>3 DEF BeginDone, taskVars
    <3>3. \A x \in txs' \ txs : x = Loads(c, {c.task}) /\ x.call = c
      BY <1>1, <2>3 DEF BeginDone
    <3> QED BY <3>1, <3>2, <3>3
  <2>4. CASE BeginCheck(c) \/ ScheduleRefresh(c)
    BY <1>1, <2>4 DEF BeginCheck, ScheduleRefresh
  <2> QED BY <1>2, <2>1, <2>2, <2>3, <2>4 DEF Handle
<1>3. ASSUME NEW x \in txs, Commit(x) PROVE Goal
  <2>1. /\ x.call.op \notin {"pause", "resume"} /\ (x.call.op = "start" => x.call.arg = 0)
        /\ x \in GoodTxs
    BY <1>0 DEF NeverPaused
  <2>2. \A y \in txs' \ txs : y.call.op # "done"
    <3>1. CASE CheckStage(x)
      BY <1>0, <3>1, CheckStep DEF CheckStage, CheckEffect
    <3>2. CASE ~CheckStage(x)
      BY <1>3, <3>2 DEF Commit, RunNew, RunExisting, OnActionComplete, RefreshTaskState,
         CheckStage, Pause, Resume, Stop, Commits
    <3> QED BY <3>1, <3>2
  <2>3. ASSUME NEW t, NEW s, NEW seen, NEW w, CompleteTask(t, s, seen, w)
        PROVE  \A c \in calls' \ calls : c.op \notin {"run", "done"}
    BY <1>1, <2>3 DEF CompleteTask
  <2>4. \A c \in calls' \ calls : FromCall(c)
    <3>1. CASE RunNew(x)
      <4> DEFINE t == x.call.task
      <4>1. t \in Task
        BY <2>1, <3>1 DEF RunNew, GoodTxs, WellFormed
      <4>2. CASE task[t] = "IDLE" /\ task' = [task EXCEPT ![t] = "RUNNING"]
                 /\ ScheduleAction(t)
        <5>1. Runs(t)
          BY <1>0, <3>1, <4>1, <4>2 DEF RunNew, Runs, ActionsFollowTask
        <5> QED BY <4>1, <4>2, <5>1 DEF ScheduleAction
      <4>3. CASE calls' \subseteq calls \cup Requests(t, task, x.wf)
        BY <1>1, <4>3
      <4> QED BY <3>1, <4>2, <4>3 DEF RunNew, UpdateMatches
    <3>2. CASE OnActionComplete(x)
      BY <2>3, <3>2 DEF OnActionComplete
    <3>3. CASE RefreshTaskState(x)
      <4> DEFINE j == x.call.task
      <4>1. j \in Join /\ j \in Task
        BY <2>1, <3>3, EngineAssumption DEF GoodTxs, WellFormed, RefreshTaskState
      <4>2. CASE ScheduleAction(j) /\ StillWaiting(j) /\ task' = [task EXCEPT ![j] = "RUNNING"]
        <5>1. Runs(j)
          <6>1. ~Stays
            <7>1. task[j] = "WAITING" /\ task'[j] = "RUNNING"
              BY <1>0, <4>1, <4>2 DEF StillWaiting, IInv, EngineTypeOK
            <7> QED BY <7>1 DEF Stays
          <6>2. ~StartWorkflow
            BY <4>1, <4>2 DEF StartWorkflow, StillWaiting, SteadyInv, NothingBeforeStart
          <6>3. \A t \in Task, s \in ActionEnd : \A cmds : ~Completes(t, s, cmds)
            <7>1. ASSUME NEW t \in Task, NEW s \in ActionEnd, NEW cmds, Completes(t, s, cmds)
                  PROVE  FALSE
              <8>1. task'[j] = IF j \in cmds THEN IF j \in Join THEN "WAITING" ELSE "IDLE"
                               ELSE IF j = t THEN s ELSE task[j]
                BY <1>0, <4>1, <7>1, EndsEffect
              <8>2. task[j] = "WAITING" /\ task'[j] = "RUNNING"
                BY <1>0, <4>1, <4>2 DEF StillWaiting, IInv, EngineTypeOK
              <8> QED BY <8>1, <8>2 DEF ActionEnd
            <7> QED BY <7>1
          <6>4. PICK t \in Task : Runs(t)
            BY <1>0, <6>1, <6>2, <6>3, StepCases
          <6>5. t = j
            <7>1. task'[t] = "RUNNING" /\ task[t] # "RUNNING"
              BY <1>0, <6>4, RunsEffect DEF Runs
            <7> QED BY <4>2, <7>1
          <6> QED BY <6>4, <6>5
        <5> QED BY <4>1, <4>2, <5>1 DEF ScheduleAction
      <4>3. CASE UNCHANGED calls
        BY <4>3
      <4> QED BY <2>3, <3>3, <4>2, <4>3 DEF RefreshTaskState
    <3>4. CASE Pause(x) \/ Stop(x)
      BY <3>4 DEF Pause, Stop
    <3>5. CASE CheckStage(x)
      BY <1>0, <3>5, CheckStep DEF CheckStage, CheckEffect
    <3> QED BY <1>3, <2>1, <3>1, <3>2, <3>3, <3>4, <3>5 DEF Commit, CheckStage, RunExisting, Resume
  <2> QED BY <2>2, <2>4
<1>4. ASSUME NEW j \in Join, BeginRefresh(j) PROVE Goal
  BY <1>1, <1>4 DEF BeginRefresh
<1>5. CASE OperatorStep
  <2>1. ASSUME StartWorkflow PROVE Goal
    BY <1>1, <2>1 DEF StartWorkflow
  <2>2. ASSUME BeginPause \/ BeginResume \/ (\E s \in ActionEnd : BeginStop(s)) PROVE Goal
    BY <1>1, <2>2 DEF BeginPause, BeginResume, BeginStop
  <2>3. ASSUME NEW t \in Task, NEW i \in DOMAIN action[t], ReportResult(t, i) PROVE Goal
    BY <1>1, <2>3 DEF ReportResult
  <2> QED BY <1>5, <2>1, <2>2, <2>3 DEF OperatorStep
<1>6. CASE UNCHANGED vars
  BY <1>6 DEF vars
<1>7. Goal
  BY <1>2, <1>3, <1>4, <1>5, <1>6 DEF Next, SystemStep
<1> QED BY <1>7

\* Rows: what exists goes on to exist.
LEMMA RowsExistNext == SteadyInv /\ RowsExist /\ [Next]_vars => RowsExist'
<1> SUFFICES ASSUME SteadyInv, RowsExist, [Next]_vars PROVE RowsExist'
  OBVIOUS
<1>0. /\ IInv /\ Join \subseteq Task /\ next \in [Task -> SUBSET Task]
      /\ task \in [Task -> TaskState]
  BY EngineAssumption DEF SteadyInv, IInv, EngineTypeOK
<1>1. CASE StartWorkflow
  <2>1. \A t \in Task : task[t] = "NONE" /\ next[t] = {}
    BY <1>1 DEF StartWorkflow, SteadyInv, NothingBeforeStart, TriggersAreFinal, Completed
  <2>2. \A t \in Task : task'[t] = IF In(t) # {} THEN "NONE"
                                   ELSE IF t \in Join THEN "WAITING" ELSE "IDLE"
    BY <1>1, <2>1 DEF StartWorkflow, Dispatched
  <2> QED BY <1>1, <2>1, <2>2 DEF RowsExist, StartWorkflow
<1>2. ASSUME NEW t \in Task, Runs(t) PROVE RowsExist'
  <2>1. \A u \in Task : task'[u] = IF u = t THEN "RUNNING" ELSE task[u]
    BY <1>0, <1>2, RunsEffect
  <2>2. next' = next /\ wf' = wf
    BY <1>2 DEF Runs
  <2> QED BY <1>0, <2>1, <2>2 DEF RowsExist
<1>3. ASSUME NEW t \in Task, NEW s \in ActionEnd, NEW cmds, Completes(t, s, cmds)
      PROVE  RowsExist'
  <2>1. \A u \in Task : task'[u] = IF u \in cmds
                                   THEN IF u \in Join THEN "WAITING" ELSE "IDLE"
                                   ELSE IF u = t THEN s ELSE task[u]
    BY <1>0, <1>3, EndsEffect
  <2>2. next' = [next EXCEPT ![t] = cmds] /\ wf' = wf /\ s \notin {"NONE", "WAITING"}
    BY <1>3 DEF Completes, ActionEnd
  <2>3. cmds \subseteq Task
    BY <1>3, TriggeredAreFresh
  <2> QED BY <1>0, <2>1, <2>2, <2>3 DEF RowsExist
<1>4. CASE Stays /\ ~StartWorkflow
  <2>1. wf = "NONE" => wf' = "NONE"
    <3>1. wf = "NONE" => calls = {} /\ txs = {} /\ jobs = {} /\ \A t \in Task : action[t] = <<>>
      BY DEF SteadyInv, NothingBeforeStart, ActionsFollowTask
    <3> QED BY <1>4, <3>1 DEF Next, SystemStep, OperatorStep, BeginRefresh, BeginPause,
           BeginResume, BeginStop, ReportResult, vars
  <2> QED BY <1>4, <2>1 DEF Stays, RowsExist
<1> QED BY <1>1, <1>2, <1>3, <1>4, StepCases DEF SteadyInv

\* A step leaves the actions that exist: it adds one to a task that begins to run, or
\* writes the result of one that a message names.
LEMMA LengthsGrow ==
    ASSUME SteadyInv, [Next]_vars
    PROVE  \A t \in Task : /\ Len(action[t]) \in Nat /\ Len(action'[t]) \in Nat
                           /\ Len(action'[t]) >= Len(action[t])
                           /\ Len(action'[t]) # Len(action[t]) =>
                                 Runs(t) /\ Len(action'[t]) = Len(action[t]) + 1
<1>0. IInv /\ action \in [Task -> Seq(ActionState)] /\ "RUNNING" \in ActionState
  BY DEF SteadyInv, IInv, EngineTypeOK, ActionState
<1>1. \A t \in Task : Len(action[t]) \in Nat
  BY <1>0, LenProperties
<1>2. ASSUME UNCHANGED action PROVE \A t \in Task : Len(action'[t]) = Len(action[t])
  BY <1>2
<1>3. CASE StartWorkflow
  BY <1>1, <1>2, <1>3 DEF StartWorkflow
<1>4. ASSUME NEW u \in Task, Runs(u), NEW t \in Task
      PROVE  Len(action'[t]) = IF t = u THEN Len(action[t]) + 1 ELSE Len(action[t])
  <2>1. action' = [action EXCEPT ![u] = Append(@, "RUNNING")]
    BY <1>4 DEF Runs, ScheduleAction
  <2>2. Len(Append(action[u], "RUNNING")) = Len(action[u]) + 1
    BY <1>0, AppendProperties
  <2> QED BY <1>0, <2>1, <2>2
<1>5. CASE \E u \in Task : Runs(u)
  BY <1>1, <1>4, <1>5
<1>6. ASSUME NEW t \in Task, NEW s \in ActionEnd, NEW cmds, Completes(t, s, cmds)
      PROVE  \A u \in Task : Len(action'[u]) = Len(action[u])
  BY <1>0, <1>6, EndsEffect
<1>7. CASE Stays
  BY <1>0, <1>1, <1>7, StaysEffect
<1> QED BY <1>1, <1>3, <1>5, <1>6, <1>7, StepCases DEF SteadyInv

\* A task that begins to run does so with an action of its own.
LEMMA BeginsToRun ==
    ASSUME SteadyInv, [Next]_vars, NEW t \in Task, task'[t] = "RUNNING", task[t] # "RUNNING"
    PROVE  Runs(t)
<1>0. IInv
  BY DEF SteadyInv
<1>1. ~StartWorkflow
  <2>1. StartWorkflow => task'[t] # "RUNNING"
    BY DEF StartWorkflow, Dispatched
  <2> QED BY <2>1
<1>2. ASSUME NEW u \in Task, Runs(u) PROVE u = t
  BY <1>0, <1>2, RunsEffect
<1>3. ASSUME NEW u \in Task, NEW s \in ActionEnd, NEW cmds, Completes(u, s, cmds) PROVE FALSE
  <2>1. task'[t] = IF t \in cmds THEN IF t \in Join THEN "WAITING" ELSE "IDLE"
                   ELSE IF t = u THEN s ELSE task[t]
    BY <1>0, <1>3, EndsEffect
  <2> QED BY <2>1 DEF ActionEnd
<1>4. ~Stays
  BY DEF Stays
<1> QED BY <1>0, <1>1, <1>2, <1>3, <1>4, StepCases DEF SteadyInv

\* Actions change when one begins and when a result is written.
LEMMA ActionSteps ==
    ASSUME SteadyInv, [Next]_vars
    PROVE  \/ \E x \in txs : OnActionComplete(x)
           \/ \E u \in Task : Runs(u)
           \/ UNCHANGED action
<1>0. /\ IInv /\ action \in [Task -> Seq(ActionState)] /\ txs \subseteq GoodTxs
  BY DEF SteadyInv, IInv, EngineTypeOK, ActionState
<1>1. ASSUME NEW c \in calls, Handle(c) PROVE UNCHANGED action
  BY <1>1 DEF Handle, BeginStart, Execute, BeginDone, BeginCheck, ScheduleRefresh
<1>2. ASSUME NEW j \in Join, BeginRefresh(j) PROVE UNCHANGED action
  BY <1>2 DEF BeginRefresh
<1>3. CASE OperatorStep
  BY <1>3 DEF OperatorStep, StartWorkflow, BeginPause, BeginResume, BeginStop, ReportResult
<1>4. CASE UNCHANGED vars
  BY <1>4 DEF vars
<1>5. ASSUME NEW x \in txs, Commit(x), ~OnActionComplete(x)
      PROVE  UNCHANGED action \/ \E u \in Task : Runs(u)
  <2>1. /\ x.call.op \notin {"pause", "resume"} /\ (x.call.op = "start" => x.call.arg = 0)
        /\ x \in GoodTxs
    BY <1>0 DEF SteadyInv, NeverPaused
  <2>2. CASE UNCHANGED action
    BY <2>2
  <2>3. ASSUME NEW u \in Task, ScheduleAction(u) PROVE \E v \in Task : Runs(v)
    <3>1. Len(action'[u]) = Len(action[u]) + 1
      <4>1. action'[u] = Append(action[u], "RUNNING") /\ "RUNNING" \in ActionState
        BY <1>0, <2>3 DEF ScheduleAction, ActionState
      <4> QED BY <1>0, <4>1, AppendProperties
    <3> QED BY <3>1, LengthsGrow
  <2>4. UNCHANGED action \/ ScheduleAction(x.call.task)
    BY <1>5, <2>1 DEF Commit, RunNew, RunExisting, RefreshTaskState, CountTasks, Decide,
       CheckAndComplete, ChecksOn, Pause, Resume, Stop
  <2>5. x.call.op \in {"start", "refresh"} => x.call.task \in Task
    BY <2>1, EngineAssumption DEF GoodTxs, WellFormed
  <2>6. UNCHANGED action \/ x.call.op \in {"start", "refresh"}
    BY <1>5, <2>1 DEF Commit, RunNew, RunExisting, RefreshTaskState, CountTasks, Decide,
       CheckAndComplete, ChecksOn, Pause, Resume, Stop
  <2> QED BY <2>3, <2>4, <2>5, <2>6
<1> QED BY <1>1, <1>2, <1>3, <1>4, <1>5 DEF Next, SystemStep

\* Messages are about actions that exist, and the last action of a running task runs.
LEMMA LastActionNext ==
    ASSUME SteadyInv, LastActionRuns, [Next]_vars
    PROVE  LastActionRuns'
<1>0. /\ IInv /\ action \in [Task -> Seq(ActionState)] /\ action' \in [Task -> Seq(ActionState)]
      /\ task \in [Task -> TaskState] /\ txs \subseteq GoodTxs /\ calls \subseteq GoodCalls
  <2>1. IInv'
    BY StepPreserves DEF SteadyInv
  <2> QED BY <2>1 DEF SteadyInv, IInv, EngineTypeOK, ActionState
<1>1. \A t \in Task : /\ Len(action[t]) \in Nat /\ Len(action'[t]) \in Nat
                      /\ Len(action'[t]) >= Len(action[t])
  BY LengthsGrow
<1>2. ASSUME NEW c \in calls', c.op \in {"run", "done"}
      PROVE  c.arg \in 1..Len(action'[c.task])
  <2>1. CASE c \in calls
    <3>1. c.task \in Task /\ c.arg \in 1..Len(action[c.task])
      BY <1>0, <1>2, <2>1 DEF GoodCalls, WellFormed, LastActionRuns
    <3> QED BY <1>1, <3>1
  <2>2. ASSUME NEW t \in Task, Runs(t), c = RunAction(t, Len(action[t]) + 1)
        PROVE  c.arg \in 1..Len(action'[c.task])
    <3>1. c.task = t /\ c.arg = Len(action[t]) + 1
      BY <2>2 DEF RunAction, Call
    <3>2. action'[t] = Append(action[t], "RUNNING") /\ "RUNNING" \in ActionState
      BY <1>0, <2>2 DEF Runs, ScheduleAction, ActionState
    <3>3. Len(action'[t]) = Len(action[t]) + 1
      BY <1>0, <3>2, AppendProperties
    <3> QED BY <1>1, <3>1, <3>3
  <2>3. ASSUME NEW d \in calls, d.op = "run", d.task = c.task, d.arg = c.arg, UNCHANGED action
        PROVE  c.arg \in 1..Len(action'[c.task])
    BY <2>3 DEF LastActionRuns
  <2>4. ASSUME c.task \in Task, c.arg \in DOMAIN action[c.task], UNCHANGED action
        PROVE  c.arg \in 1..Len(action'[c.task])
    BY <1>0, <2>4, LenProperties
  <2> QED BY <1>2, <2>1, <2>2, <2>3, <2>4, NewMessages
<1>3. ASSUME NEW x \in txs', x.call.op = "done"
      PROVE  x.call.arg \in 1..Len(action'[x.call.task])
  <2>1. CASE x \in txs
    <3>1. x.call.task \in Task /\ x.call.arg \in 1..Len(action[x.call.task])
      BY <1>0, <1>3, <2>1 DEF GoodTxs, WellFormed, LastActionRuns
    <3> QED BY <1>1, <3>1
  <2>2. CASE x \notin txs
    <3>1. x.call \in calls /\ UNCHANGED action
      BY <1>3, <2>2, NewMessages
    <3> QED BY <1>3, <3>1 DEF LastActionRuns
  <2> QED BY <2>1, <2>2
<1> DEFINE n(t) == Len(action[t])
           Last(t) == /\ Len(action'[t]) > 0 /\ action'[t][Len(action'[t])] = "RUNNING"
                      /\ \A x \in txs' : x.call.op = "done" /\ x.call.task = t
                            /\ x.call.arg = Len(action'[t]) => x.seen[t] = "RUNNING"
\* a task that begins to run
<1>4. ASSUME NEW t \in Task, Runs(t) PROVE Last(t)
  <2>1. action'[t] = Append(action[t], "RUNNING") /\ "RUNNING" \in ActionState
    BY <1>0, <1>4 DEF Runs, ScheduleAction, ActionState
  <2>2. Len(action'[t]) = Len(action[t]) + 1 /\ action'[t][Len(action[t]) + 1] = "RUNNING"
    BY <1>0, <2>1, AppendProperties
  <2>3. ASSUME NEW x \in txs', x.call.op = "done", x.call.task = t,
               x.call.arg = Len(action'[t])
        PROVE  FALSE
    <3>1. CASE x \in txs
      <4>1. x.call.arg \in 1..Len(action[t])
        BY <2>3, <3>1 DEF LastActionRuns
      <4> QED BY <1>1, <2>2, <2>3, <4>1
    <3>2. CASE x \notin txs
      <4>1. UNCHANGED action
        BY <2>3, <3>2, NewMessages
      <4> QED BY <1>1, <2>2, <4>1
    <3> QED BY <3>1, <3>2
  <2> QED BY <1>1, <2>2, <2>3
\* one that goes on running
<1>5. ASSUME NEW t \in Task, task[t] = "RUNNING", task'[t] = "RUNNING" PROVE Last(t)
  <2>1. ~Runs(t)
    BY <1>5 DEF Runs
  <2>2. /\ Len(action[t]) > 0 /\ action[t][Len(action[t])] = "RUNNING"
        /\ \A x \in txs : x.call.op = "done" /\ x.call.task = t
                          /\ x.call.arg = Len(action[t]) => x.seen[t] = "RUNNING"
    BY <1>5 DEF LastActionRuns
  <2>3. Len(action'[t]) = Len(action[t])
    BY <2>1, LengthsGrow
  <2>4. action'[t][Len(action[t])] = "RUNNING"
    <3>1. ASSUME NEW x \in txs, OnActionComplete(x)
          PROVE  action'[t][Len(action[t])] = "RUNNING"
      <4>1. action' = [action EXCEPT ![x.call.task][x.call.arg] = x.call.res]
            /\ CompleteTask(x.call.task, x.call.res, x.seen[x.call.task], x.wf)
            /\ x.call.op = "done"
        BY <3>1 DEF OnActionComplete
      <4>2. CASE x.call.task = t /\ x.call.arg = Len(action[t])
        <5>1. x.seen[t] = "RUNNING" /\ x.call.res \in ActionEnd
          BY <1>0, <2>2, <4>1, <4>2 DEF GoodTxs, WellFormed
        <5>2. task' = Dispatched([task EXCEPT ![t] = x.call.res],
                                 IF x.wf = "PAUSED" THEN {}
                                 ELSE IF x.wf \in Completed THEN {}
                                      ELSE Triggered(t, x.call.res))
          BY <1>5, <4>1, <4>2, <5>1 DEF CompleteTask, UpdateMatches, Completed
        <5>3. task'[t] # "RUNNING"
          BY <1>0, <5>1, <5>2 DEF Dispatched, ActionEnd
        <5> QED BY <1>5, <5>3
      <4>3. CASE ~(x.call.task = t /\ x.call.arg = Len(action[t]))
        BY <1>0, <2>2, <4>1, <4>3
      <4> QED BY <4>2, <4>3
    <3>2. ASSUME NEW u \in Task, Runs(u) PROVE action'[t][Len(action[t])] = "RUNNING"
      <4>1. u # t /\ action' = [action EXCEPT ![u] = Append(@, "RUNNING")]
        BY <2>1, <3>2 DEF Runs, ScheduleAction
      <4> QED BY <1>0, <2>2, <4>1
    <3>3. \/ \E x \in txs : OnActionComplete(x)
          \/ \E u \in Task : Runs(u)
          \/ UNCHANGED action
      BY ActionSteps
    <3> QED BY <2>2, <3>1, <3>2, <3>3
  <2>5. ASSUME NEW x \in txs', x.call.op = "done", x.call.task = t,
               x.call.arg = Len(action'[t])
        PROVE  x.seen[t] = "RUNNING"
    <3>1. CASE x \in txs
      BY <2>2, <2>3, <2>5, <3>1
    <3>2. CASE x \notin txs
      <4>1. x = Loads(x.call, {t})
        BY <2>5, <3>2, NewMessages
      <4> QED BY <1>5, <4>1 DEF Loads
    <3> QED BY <3>1, <3>2
  <2> QED BY <2>2, <2>3, <2>4, <2>5
<1>6. ASSUME NEW t \in Task, task'[t] = "RUNNING", task[t] # "RUNNING" PROVE Runs(t)
  BY <1>6, BeginsToRun
<1> HIDE DEF Last
<1>7. \A t \in Task : task'[t] = "RUNNING" => Last(t)
  BY <1>4, <1>5, <1>6
<1> QED BY <1>2, <1>3, <1>7 DEF LastActionRuns, Last

\* A start is dispatched with the row, and what has loaded an IDLE task runs it.
LEMMA IdleNext ==
    ASSUME SteadyInv, IdleIsStarted, [Next]_vars
    PROVE  IdleIsStarted'
<1> SUFFICES ASSUME NEW t \in Task, task'[t] = "IDLE" PROVE StartOwed(t)'
  BY DEF IdleIsStarted
<1>0. IInv /\ task \in [Task -> TaskState] /\ \A j \in Join : task'[j] # "IDLE"
  BY ActionsFollowNext DEF SteadyInv, IInv, EngineTypeOK, ActionsFollowTask
<1>1. CASE task[t] = "IDLE"
  <2>1. CASE Start(t, 0) \in calls
    <3>1. CASE Start(t, 0) \in calls'
      BY <3>1 DEF StartOwed
    <3>2. CASE Handle(Start(t, 0))
      <4>1. Start(t, 0).op = "start" /\ Start(t, 0).task = t
        BY DEF Start, Call
      <4>2. BeginStart(Start(t, 0))
        BY <3>2, <4>1 DEF Handle, Execute, BeginDone, BeginCheck, ScheduleRefresh
      <4> DEFINE x == Loads(Start(t, 0), {t})
      <4>3. x \in txs'
        BY <4>1, <4>2 DEF BeginStart
      <4>4. x.call = Start(t, 0) /\ x.seen[t] = "IDLE"
        BY <1>1 DEF Loads
      <4> QED BY <4>1, <4>3, <4>4 DEF StartOwed
    <3> QED BY <2>1, <3>1, <3>2, HandledOrKept
  <2>2. ASSUME NEW x \in txs, x.call.op = "start", x.call.task = t, x.seen[t] = "IDLE"
        PROVE  StartOwed(t)'
    <3>1. CASE x \in txs'
      BY <2>2, <3>1 DEF StartOwed
    <3>2. CASE Commit(x)
      <4>1. RunNew(x)
        BY <2>2, <3>2 DEF Commit, RunExisting, OnActionComplete, RefreshTaskState,
           CountTasks, Decide, CheckAndComplete, Pause, Resume, Stop, SteadyInv, NeverPaused
      <4>2. task'[t] = "RUNNING"
        BY <1>0, <1>1, <2>2, <4>1 DEF RunNew, UpdateMatches
      <4> QED BY <4>2
    <3> QED BY <2>2, <3>1, <3>2, HandledOrKept
  <2> QED BY <1>1, <2>1, <2>2 DEF IdleIsStarted, StartOwed
<1>2. CASE task[t] # "IDLE"
  <2>1. t \notin Join
    BY <1>0
  <2>2. CASE StartWorkflow
    <3>1. In(t) = {}
      BY <1>2, <2>2 DEF StartWorkflow, Dispatched
    <3> QED BY <2>1, <2>2, <3>1 DEF StartWorkflow, StartNew, StartOwed
  <2>3. ASSUME NEW u \in Task, Runs(u) PROVE FALSE
    BY <1>0, <1>2, <2>3, RunsEffect
  <2>4. ASSUME NEW u \in Task, NEW s \in ActionEnd, NEW cmds, Completes(u, s, cmds)
        PROVE  StartOwed(t)'
    <3>1. task'[t] = IF t \in cmds THEN IF t \in Join THEN "WAITING" ELSE "IDLE"
                     ELSE IF t = u THEN s ELSE task[t]
      BY <1>0, <2>4, EndsEffect
    <3>2. t \in cmds
      BY <1>2, <3>1 DEF ActionEnd
    <3>3. Start(t, 0) \in calls'
      BY <2>1, <2>4, <3>2 DEF Completes, AsksFor, StartNew
    <3> QED BY <3>3 DEF StartOwed
  <2>5. ~Stays
    BY <1>2 DEF Stays
  <2> QED BY <1>0, <2>2, <2>3, <2>4, <2>5, StepCases DEF SteadyInv
<1> QED BY <1>1, <1>2

\* The action of a running task goes to an executor, whose result ends the task.
LEMMA RunningNext ==
    ASSUME SteadyInv, LastActionRuns, RunningIsEnded, [Next]_vars
    PROVE  RunningIsEnded'
<1> SUFFICES ASSUME NEW t \in Task, task'[t] = "RUNNING" PROVE ResultOwed(t)'
  BY DEF RunningIsEnded
<1>0. IInv /\ task \in [Task -> TaskState] /\ txs \subseteq GoodTxs /\ calls \subseteq GoodCalls
  BY DEF SteadyInv, IInv, EngineTypeOK
<1>1. CASE task[t] # "RUNNING"
  <2>1. Runs(t)
    BY <1>1, BeginsToRun
  <2>2. RunAction(t, Len(action[t]) + 1) \in calls' /\ Len(action'[t]) = Len(action[t]) + 1
    <3>1. action'[t] = Append(action[t], "RUNNING") /\ action[t] \in Seq(ActionState)
          /\ "RUNNING" \in ActionState
      BY <1>0, <2>1 DEF Runs, ScheduleAction, ActionState, IInv, EngineTypeOK
    <3>2. Len(action'[t]) = Len(action[t]) + 1
      BY <3>1, AppendProperties
    <3> QED BY <2>1, <3>2 DEF Runs, ScheduleAction
  <2>3. \A n : RunAction(t, n).op = "run" /\ RunAction(t, n).task = t /\ RunAction(t, n).arg = n
    BY DEF RunAction, Call
  <2> QED BY <2>2, <2>3 DEF ResultOwed
<1>2. CASE task[t] = "RUNNING"
  <2>1. ~Runs(t)
    BY <1>2 DEF Runs
  <2>2. Len(action'[t]) = Len(action[t]) /\ action[t][Len(action[t])] = "RUNNING"
    BY <1>2, <2>1, LengthsGrow DEF LastActionRuns
  <2>3. ASSUME NEW c \in calls, c.op \in {"run", "done"}, c.task = t, c.arg = Len(action[t])
        PROVE  ResultOwed(t)'
    <3>1. CASE c \in calls'
      BY <2>2, <2>3, <3>1 DEF ResultOwed
    <3>2. CASE Handle(c)
      <4>1. CASE Execute(c)
        <5>1. PICK res \in Outcome[t] : Done(t, Len(action[t]), res) \in calls'
          BY <2>3, <4>1 DEF Execute
        <5>2. \A n, r : /\ Done(t, n, r).op = "done" /\ Done(t, n, r).task = t
                        /\ Done(t, n, r).arg = n
          BY DEF Done, Call
        <5> QED BY <2>2, <5>1, <5>2 DEF ResultOwed
      <4>2. CASE BeginDone(c)
        <5>1. Loads(c, {t}) \in txs' /\ c.op = "done"
          BY <2>2, <2>3, <4>2 DEF BeginDone
        <5>2. Loads(c, {t}).call = c /\ Loads(c, {t}).seen[t] = "RUNNING"
          BY <1>2 DEF Loads
        <5> QED BY <2>3, <5>1, <5>2 DEF ResultOwed
      <4> QED BY <2>3, <3>2, <4>1, <4>2 DEF Handle, BeginStart, BeginCheck, ScheduleRefresh
    <3> QED BY <3>1, <3>2, HandledOrKept
  <2>4. ASSUME NEW x \in txs, x.call.op = "done", x.call.task = t, x.seen[t] = "RUNNING"
        PROVE  ResultOwed(t)'
    <3>1. CASE x \in txs'
      BY <2>4, <3>1 DEF ResultOwed
    <3>2. CASE Commit(x)
      <4>1. OnActionComplete(x)
        BY <2>4, <3>2 DEF Commit, RunNew, RunExisting, RefreshTaskState, CountTasks, Decide,
           CheckAndComplete, Pause, Resume, Stop
      <4>2. x.call.res \in ActionEnd
        BY <1>0, <2>4 DEF GoodTxs, WellFormed
      <4>3. task' = Dispatched([task EXCEPT ![t] = x.call.res],
                               IF x.wf = "PAUSED" THEN {}
                               ELSE IF x.wf \in Completed THEN {}
                                    ELSE Triggered(t, x.call.res))
        BY <1>2, <2>4, <4>1 DEF OnActionComplete, CompleteTask, UpdateMatches, Completed
      <4>4. task'[t] # "RUNNING"
        BY <1>0, <4>2, <4>3 DEF Dispatched, ActionEnd
      <4> QED BY <4>4
    <3> QED BY <3>1, <3>2, HandledOrKept
  <2> QED BY <1>2, <2>3, <2>4 DEF RunningIsEnded, ResultOwed
<1> QED BY <1>1, <1>2

\* The last task that ends asks for the completion check.
LEMMA CheckNext ==
    ASSUME SteadyInv, RowsExist, EndIsChecked, [Next]_vars
    PROVE  EndIsChecked'
<1> SUFFICES ASSUME wf' = "RUNNING", \A t \in Task : task'[t] \in Completed \cup {"NONE"}
             PROVE  CheckOwed'
  BY DEF EndIsChecked
<1>0. IInv /\ task \in [Task -> TaskState] /\ RowsExist'
  BY RowsExistNext DEF SteadyInv, IInv, EngineTypeOK
<1>1. CASE StartWorkflow
  <2>1. PICK t \in Task : In(t) = {}
    <3>1. PICK level : IsLevel(level)
      BY EngineAssumption DEF IsLevel
    <3>2. PICK t \in Task : \A v \in Task : level[t] <= level[v]
      BY <3>1, LowestTask, EngineAssumption
    <3>3. ASSUME NEW v \in In(t) PROVE FALSE
      <4>1. v \in Task /\ level[v] < level[t]
        BY <3>1, <3>3 DEF In, IsLevel
      <4>2. level[v] \in 1..Cardinality(Task) /\ level[t] \in 1..Cardinality(Task)
            /\ level[t] <= level[v]
        BY <3>1, <3>2, <4>1 DEF IsLevel
      <4> QED BY <4>1, <4>2
    <3> QED BY <3>3
  <2>2. task'[t] \in {"IDLE", "WAITING"}
    BY <1>1, <2>1 DEF StartWorkflow, Dispatched
  <2> QED BY <2>2 DEF Completed
<1>2. ASSUME NEW t \in Task, Runs(t) PROVE FALSE
  <2>1. task'[t] = "RUNNING"
    BY <1>0, <1>2, RunsEffect
  <2> QED BY <2>1 DEF Completed
<1>3. ASSUME NEW t \in Task, NEW s \in ActionEnd, NEW cmds, Completes(t, s, cmds)
      PROVE  CheckOwed'
  <2>1. \A u \in cmds : u \in Task /\ task'[u] \in {"WAITING", "IDLE"}
    BY <1>0, <1>3, EndsEffect, TriggeredAreFresh
  <2>2. cmds = {}
    BY <2>1 DEF Completed
  <2>3. Check(t) \in calls' /\ Check(t).op = "check"
    BY <1>3, <2>2 DEF Completes, AsksFor, Check, Call
  <2> QED BY <2>3 DEF CheckOwed
<1>4. CASE Stays /\ ~StartWorkflow
  <2>1. task' = task /\ wf = "RUNNING"
    <3>1. wf # "RUNNING" => wf' # "RUNNING"
      <4>1. ASSUME NEW c \in calls, Handle(c) PROVE wf # "RUNNING" => wf' # "RUNNING"
        BY <4>1 DEF Handle, BeginStart, Execute, BeginDone, BeginCheck, ScheduleRefresh
      <4>2. ASSUME NEW x \in txs, Commit(x) PROVE wf # "RUNNING" => wf' # "RUNNING"
        <5>1. x.call.op \notin {"pause", "resume"} /\ (x.call.op = "start" => x.call.arg = 0)
          BY DEF SteadyInv, NeverPaused
        <5>2. x.call.op = "stop" => x.call.res # "RUNNING"
          BY DEF SteadyInv, IInv, GoodTxs, WellFormed, ActionEnd
        <5>3. CheckStage(x) /\ wf # "RUNNING" => wf' # "RUNNING"
          BY <1>0, CheckStep DEF CheckStage, CheckEffect, Completed
        <5> QED BY <4>2, <5>1, <5>2, <5>3 DEF Commit, RunNew, RunExisting, OnActionComplete,
                   RefreshTaskState, CheckStage, Pause, Resume, Stop
      <4>3. ASSUME NEW j \in Join, BeginRefresh(j) PROVE wf' = wf
        BY <4>3 DEF BeginRefresh
      <4>4. CASE OperatorStep
        BY <1>4, <4>4 DEF OperatorStep, BeginPause, BeginResume, BeginStop, ReportResult
      <4>5. CASE UNCHANGED vars
        BY <4>5 DEF vars
      <4> QED BY <4>1, <4>2, <4>3, <4>4, <4>5 DEF Next, SystemStep
    <3> QED BY <1>4, <3>1 DEF Stays
  <2>2. ~Incomplete(task) /\ wf \notin Completed
    BY <2>1 DEF Incomplete, Completed
  <2>3. /\ \A c, S : Loads(c, S).call = c /\ Loads(c, S).wf = wf
        /\ \A op, n, res : Call(op, n, 0, res).op = op
    BY DEF Loads, Call
  <2>4. ASSUME NEW c \in calls, c.op = "check" PROVE CheckOwed'
    <3>1. CASE c \in calls'
      BY <2>4, <3>1 DEF CheckOwed
    <3>2. CASE Handle(c)
      <4>1. BeginCheck(c)
        BY <2>4, <3>2 DEF Handle, BeginStart, Execute, BeginDone, ScheduleRefresh
      <4>2. Loads(c, {}) \in txs'
        BY <2>1, <4>1 DEF BeginCheck
      <4> QED BY <2>3, <2>4, <4>2 DEF CheckOwed
    <3> QED BY <3>1, <3>2, HandledOrKept
  <2>5. ASSUME NEW x \in txs, \/ x.call.op \in {"check", "counted"}
                              \/ x.call.op = "decided" /\ x.wf = "RUNNING"
        PROVE  CheckOwed'
    <3>1. CASE x \in txs'
      BY <2>5, <3>1 DEF CheckOwed
    <3>2. CASE Commit(x)
      <4>1. CheckStage(x)
        BY <2>5, <3>2 DEF Commit, CheckStage, RunNew, RunExisting, OnActionComplete,
           RefreshTaskState, Pause, Resume, Stop
      <4>2. CASE CountTasks(x)
        <5>1. Loads(Call("counted", x.call.task, 0, "NONE"), {}) \in txs'
          BY <2>2, <4>2 DEF CountTasks, Turns
        <5> QED BY <2>3, <5>1 DEF CheckOwed
      <4>3. CASE Decide(x)
        <5>1. Loads(Call("decided", x.call.task, 0, Decision(task, handled)), {}) \in txs'
          BY <2>2, <4>3 DEF Decide, Turns
        <5> QED BY <2>1, <2>3, <5>1 DEF CheckOwed
      <4>4. CASE CheckAndComplete(x)
        <5>1. x.wf = "RUNNING" /\ x.call.res # "RUNNING"
          BY <1>0, <2>5, <4>4
          DEF CheckAndComplete, IInv, GoodTxs, WellFormed, ActionEnd
        <5> QED BY <2>1, <4>4, <5>1 DEF CheckAndComplete, WfMatches
      <4> QED BY <4>1, <4>2, <4>3, <4>4 DEF CheckStage
    <3> QED BY <3>1, <3>2, HandledOrKept
  <2> QED BY <2>1, <2>4, <2>5 DEF EndIsChecked, CheckOwed
<1> QED BY <1>0, <1>1, <1>2, <1>3, <1>4, StepCases DEF SteadyInv

\* The same of a step that completes nothing.
LEMMA StillWaitsUndisturbed ==
    ASSUME NEW j \in Join,
           \A u \in Task : task'[u] = "NONE" => task[u] = "NONE",
           \A u \in Task : task'[u] \in Completed => task'[u] = task[u] /\ next'[u] = next[u],
           LogicalState(j) = "WAITING"
    PROVE  LogicalState(j)' = "WAITING"
<1> DEFINE S == {}
           R == {}
<1>1. /\ S \in SUBSET Task /\ R \in SUBSET Task /\ j \notin R
      /\ \A t \in S : Out(t) \subseteq R /\ task[t] # "NONE"
      /\ \A u \in R : task'[u] = "NONE" => Out(u) \subseteq R
      /\ \A u \in Task \ S : task'[u] \in Completed => task'[u] = task[u] /\ next'[u] = next[u]
  OBVIOUS
<1> HIDE DEF S, R
<1> QED BY <1>1, StillWaits

\* A join waits for its inbound tasks, or for a refresh that will see that it need not.
LEMMA JoinNext ==
    ASSUME SteadyInv, JoinIsRefreshed, [Next]_vars
    PROVE  JoinIsRefreshed'
<1> SUFFICES ASSUME wf' \notin Completed, NEW j \in Join, task'[j] = "WAITING"
             PROVE  RefreshOwed(j)' \/ LogicalState(j)' = "WAITING"
  BY DEF JoinIsRefreshed
<1>0. /\ IInv /\ task \in [Task -> TaskState] /\ next \in [Task -> SUBSET Task]
      /\ j \in Task /\ wf \notin Completed
  BY EngineAssumption, EndStays DEF SteadyInv, IInv, EngineTypeOK
<1>1. ~StartWorkflow
  <2>1. In(j) # {}
    <3>1. Cardinality({}) = 0 /\ Needed[j] \in 1..Cardinality(In(j))
      BY EngineAssumption, FS_EmptySet
    <3> QED BY <3>1
  <2>2. StartWorkflow => task'[j] = "NONE"
    BY <1>0, <2>1 DEF StartWorkflow, Dispatched, SteadyInv, NothingBeforeStart
  <2> QED BY <2>2
<1>2. \A c : c.op = "request" /\ c.task = j /\ c \in calls' => RefreshOwed(j)'
  BY DEF RefreshOwed
<1>3. \A t : Request(j, t).op = "request" /\ Request(j, t).task = j
  BY DEF Request, Call
\* what a completed task affects is refreshed
<1>4. ASSUME NEW t \in Task, NEW s \in ActionEnd, NEW cmds, Completes(t, s, cmds),
             NEW R \in SUBSET Task, j \in R,
             Affected(t, task') = {k \in Join \cap R : task'[k] # "NONE"}
      PROVE  RefreshOwed(j)'
  <2>1. Request(j, t) \in calls'
    BY <1>0, <1>4 DEF Completes, AsksFor
  <2> QED BY <1>2, <1>3, <2>1
<1>5. CASE task[j] # "WAITING"
  <2>1. ASSUME NEW t \in Task, NEW s \in ActionEnd, NEW cmds, Completes(t, s, cmds)
        PROVE  RefreshOwed(j)'
    <3>1. task'[j] = IF j \in cmds THEN IF j \in Join THEN "WAITING" ELSE "IDLE"
                     ELSE IF j = t THEN s ELSE task[j]
      BY <1>0, <2>1, EndsEffect
    <3>2. j \in cmds
      BY <1>5, <3>1 DEF ActionEnd
    <3>3. j \in Out(t)
      BY <2>1, <3>2 DEF Completes, Triggered, Out
    <3>4. PICK R \in SUBSET Task :
              /\ Affected(t, task') = {k \in Join \cap R : task'[k] # "NONE"}
              /\ Out(t) \subseteq R
      BY AffectedClosed
    <3> QED BY <1>4, <2>1, <3>3, <3>4
  <2>2. ASSUME NEW t \in Task, Runs(t) PROVE FALSE
    BY <1>0, <1>5, <2>2, RunsEffect
  <2>3. ~Stays
    BY <1>5 DEF Stays
  <2> QED BY <1>0, <1>1, <2>1, <2>2, <2>3, StepCases DEF SteadyInv
<1>6. CASE task[j] = "WAITING" /\ RefreshOwed(j)
  <2>1. ASSUME NEW c \in calls, c.op = "request", c.task = j PROVE RefreshOwed(j)'
    <3>1. CASE c \in calls'
      BY <1>2, <2>1, <3>1
    <3>2. CASE Handle(c)
      <4>1. ScheduleRefresh(c)
        BY <2>1, <3>2 DEF Handle, BeginStart, Execute, BeginDone, BeginCheck
      <4> QED BY <2>1, <4>1 DEF ScheduleRefresh, RefreshOwed
    <3> QED BY <3>1, <3>2, HandledOrKept
  <2>2. CASE j \in jobs
    <3>1. CASE j \in jobs'
      BY <3>1 DEF RefreshOwed
    <3>2. CASE BeginRefresh(j)
      <4>1. task[j] \notin Completed \cup {"RUNNING"} /\ wf \notin Completed
        BY <1>0, <1>6 DEF Completed
      <4>2. PICK n : Loads(Call("refresh", j, n, "NONE"), {}) \in txs'
        BY <3>2, <4>1 DEF BeginRefresh
      <4>3. /\ Loads(Call("refresh", j, n, "NONE"), {}).call.op = "refresh"
            /\ Loads(Call("refresh", j, n, "NONE"), {}).call.task = j
        BY DEF Loads, Call
      <4> QED BY <4>2, <4>3 DEF RefreshOwed
    <3> QED BY <2>2, <3>1, <3>2, HandledOrKept
  <2>3. ASSUME NEW x \in txs, x.call.op = "refresh", x.call.task = j
        PROVE  RefreshOwed(j)' \/ LogicalState(j)' = "WAITING"
    <3>1. CASE x \in txs'
      BY <2>3, <3>1 DEF RefreshOwed
    <3>2. CASE Commit(x)
      <4>1. RefreshTaskState(x)
        BY <2>3, <3>2 DEF Commit, RunNew, RunExisting, OnActionComplete, CountTasks, Decide,
           CheckAndComplete, Pause, Resume, Stop
      <4>2. LogicalState(j) # "RUNNING"
        <5>1. LogicalState(j) = "RUNNING" => task'[j] = "RUNNING"
          BY <1>0, <1>6, <2>3, <4>1 DEF RefreshTaskState, StillWaiting
        <5> QED BY <5>1
      <4>3. LogicalState(j) # "ERROR"
        <5>1. ASSUME LogicalState(j) = "ERROR" PROVE task'[j] = "ERROR"
          <6>1. CompleteTask(j, "ERROR", "WAITING", x.wf)
            BY <1>6, <2>3, <4>1, <5>1 DEF RefreshTaskState, StillWaiting
          <6>2. Triggered(j, "ERROR") = {}
            BY EngineAssumption DEF Triggered
          <6>3. task' = Dispatched([task EXCEPT ![j] = "ERROR"], {})
            BY <1>6, <6>1, <6>2 DEF CompleteTask, UpdateMatches, Completed
          <6> QED BY <1>0, <6>3 DEF Dispatched
        <5> QED BY <5>1
      <4>4. LogicalState(j) = "WAITING"
        BY <4>2, <4>3, LogicalStateCases
      <4>5. UNCHANGED <<task, next>>
        BY <2>3, <4>1, <4>4 DEF RefreshTaskState, taskVars
      <4> QED BY <4>4, <4>5, StillWaitsUndisturbed
    <3> QED BY <2>3, <3>1, <3>2, HandledOrKept
  <2> QED BY <1>6, <2>1, <2>2, <2>3 DEF RefreshOwed
<1>7. CASE task[j] = "WAITING" /\ LogicalState(j) = "WAITING"
  <2>1. ASSUME NEW t \in Task, Runs(t) PROVE LogicalState(j)' = "WAITING"
    <3>1. /\ \A u \in Task : task'[u] = IF u = t THEN "RUNNING" ELSE task[u]
          /\ next' = next /\ "RUNNING" \notin Completed
      BY <1>0, <2>1, RunsEffect DEF Runs, Completed
    <3>2. /\ \A u \in Task : task'[u] = "NONE" => task[u] = "NONE"
          /\ \A u \in Task : task'[u] \in Completed => task'[u] = task[u] /\ next'[u] = next[u]
      BY <3>1
    <3> QED BY <1>7, <3>2, StillWaitsUndisturbed
  <2>2. ASSUME NEW t \in Task, NEW s \in ActionEnd, NEW cmds, Completes(t, s, cmds)
        PROVE  RefreshOwed(j)' \/ LogicalState(j)' = "WAITING"
    <3>1. PICK R \in SUBSET Task :
              /\ Affected(t, task') = {k \in Join \cap R : task'[k] # "NONE"}
              /\ Out(t) \subseteq R
              /\ \A u \in R : u \notin Join \/ task'[u] = "NONE" => Out(u) \subseteq R
      BY AffectedClosed
    <3>2. CASE j \in R
      BY <1>4, <2>2, <3>1, <3>2
    <3>3. CASE j \notin R
      <4>1. \A u \in Task : task'[u] = IF u \in cmds
                                       THEN IF u \in Join THEN "WAITING" ELSE "IDLE"
                                       ELSE IF u = t THEN s ELSE task[u]
        BY <1>0, <2>2, EndsEffect
      <4>2. /\ next' = [next EXCEPT ![t] = cmds] /\ task[t] # "NONE" /\ s # "NONE"
            /\ "WAITING" \notin Completed /\ "IDLE" \notin Completed
        BY <2>2 DEF Completes, Completed, ActionEnd
      <4>3. /\ \A u \in Task : task'[u] = "NONE" => task[u] = "NONE"
            /\ \A u \in Task \ {t} : task'[u] \in Completed =>
                                        task'[u] = task[u] /\ next'[u] = next[u]
        BY <1>0, <4>1, <4>2
      <4> DEFINE S == {t}
      <4>4. /\ S \in SUBSET Task /\ \A u \in S : Out(u) \subseteq R /\ task[u] # "NONE"
            /\ \A u \in Task \ S : task'[u] \in Completed =>
                                        task'[u] = task[u] /\ next'[u] = next[u]
            /\ \A u \in R : task'[u] = "NONE" => Out(u) \subseteq R
        BY <3>1, <4>2, <4>3
      <4> HIDE DEF S
      <4> QED BY <1>7, <3>3, <4>3, <4>4, StillWaits
    <3> QED BY <3>2, <3>3
  <2>3. CASE Stays
    BY <1>7, <2>3, StillWaitsUndisturbed DEF Stays
  <2> QED BY <1>0, <1>1, <2>1, <2>2, <2>3, StepCases DEF SteadyInv
<1> QED BY <1>0, <1>5, <1>6, <1>7 DEF JoinIsRefreshed

\* Where nothing is under way nobody waits: the join of the lowest level would have all
\* its inbound tasks completed or unreachable.
LEMMA NobodyWaits ==
    ASSUME OwedInv, wf = "RUNNING", calls = {}, txs = {}, jobs = {}
    PROVE  FALSE
<1> USE DEF OwedInv
<1>0. /\ task \in [Task -> TaskState] /\ next \in [Task -> SUBSET Task]
      /\ RowsExist /\ wf # "NONE" /\ wf \notin Completed
  BY DEF SteadyInv, IInv, EngineTypeOK, Completed
<1>1. \A t \in Task : task[t] \notin {"IDLE", "RUNNING"}
  BY DEF IdleIsStarted, StartOwed, RunningIsEnded, ResultOwed
<1>2. PICK level : IsLevel(level)
  BY EngineAssumption DEF IsLevel
<1> DEFINE Waiting == {t \in Task : task[t] = "WAITING"}
<1>3. Waiting # {}
  BY <1>0, <1>1 DEF EndIsChecked, CheckOwed, TaskState
<1>4. PICK j \in Waiting : \A k \in Waiting : level[j] <= level[k]
  <2>1. Waiting \in SUBSET Task
    OBVIOUS
  <2> HIDE DEF Waiting
  <2> QED BY <1>2, <1>3, <2>1, LowestTask
<1>5. j \in Join /\ j \in Task
  BY <1>0, <1>4 DEF RowsExist
<1>6. LogicalState(j) = "WAITING"
  BY <1>0, <1>4, <1>5 DEF JoinIsRefreshed, RefreshOwed
<1>7. \A u \in Task : level[u] \in Int /\ \A v \in In(u) : v \in Task /\ level[v] < level[u]
  <2>1. Cardinality(Task) \in Nat
    BY EngineAssumption, FS_CardinalityType
  <2> QED BY <1>2, <2>1 DEF IsLevel, In
\* below the join every task is completed, or does not exist and has no route
<1>8. ASSUME NEW u \in Task, level[u] < level[j]
      PROVE  task[u] \in Completed \cup {"NONE"}
  <2>1. u \notin Waiting
    BY <1>4, <1>5, <1>7, <1>8
  <2> QED BY <1>0, <1>1, <2>1 DEF TaskState
<1>9. ASSUME NEW u \in Task, level[u] < level[j], task[u] = "NONE" PROVE ~Possible(u)
  <2> DEFINE Bad == {v \in Task : level[v] < level[j] /\ task[v] = "NONE" /\ Possible(v)}
  <2>1. SUFFICES ASSUME Bad # {} PROVE FALSE
    BY <1>9
  <2>2. PICK w \in Bad : \A v \in Bad : level[w] <= level[v]
    <3>1. Bad \in SUBSET Task
      OBVIOUS
    <3> HIDE DEF Bad
    <3> QED BY <1>2, <2>1, <3>1, LowestTask
  <2>3. w \in Task /\ level[w] < level[j] /\ task[w] = "NONE" /\ Possible(w)
    BY <2>2
  <2>4. In(w) # {}
    BY <1>0, <2>3 DEF RowsExist
  <2>5. PICK v \in In(w) : IF task[v] = "NONE" THEN Possible(v)
                           ELSE task[v] \notin Completed \/ w \in next[v]
    BY <2>3, <2>4, PossibleFix
  <2>6. v \in Task /\ level[v] < level[w] /\ level[v] < level[j]
    BY <1>5, <1>7, <2>3
  <2>7. CASE task[v] = "NONE"
    <3>1. v \in Bad
      BY <2>5, <2>6, <2>7
    <3> QED BY <1>7, <2>2, <2>3, <2>6, <3>1
  <2>8. CASE task[v] # "NONE"
    <3>1. w \in next[v]
      BY <1>8, <2>5, <2>6, <2>8
    <3> QED BY <1>0, <2>3, <2>6, <3>1 DEF RowsExist
  <2> QED BY <2>7, <2>8
<1> DEFINE Ran  == {t \in In(j) : Induced(t, j) = "RUNNING"}
           Lost == {t \in In(j) : Induced(t, j) = "ERROR"}
<1>10. In(j) = Ran \cup Lost /\ Ran \cap Lost = {}
  <2>1. ASSUME NEW u \in In(j) PROVE Induced(u, j) \in {"RUNNING", "ERROR"}
    <3>1. u \in Task /\ level[u] < level[j]
      BY <1>5, <1>7
    <3>2. task[u] \in Completed \cup {"NONE"} /\ (task[u] = "NONE" => ~Possible(u))
      BY <1>8, <1>9, <3>1
    <3>3. CASE task[u] = "NONE"
      <4>1. Induced(u, j) = IF Possible(u) THEN "WAITING" ELSE "ERROR"
        BY <3>3 DEF Induced, Completed
      <4> QED BY <3>2, <3>3, <4>1
    <3>4. CASE task[u] \in Completed
      <4>1. Induced(u, j) = IF j \in next[u] THEN "RUNNING" ELSE "ERROR"
        BY <3>4 DEF Induced, Completed
      <4> QED BY <4>1
    <3> QED BY <3>2, <3>3, <3>4
  <2> QED BY <2>1
<1>11. Cardinality(Ran) < Needed[j] /\ Cardinality(Lost) <= Cardinality(In(j)) - Needed[j]
  BY <1>5, <1>6, LogicalStateCases
<1>12. IsFiniteSet(In(j))
  BY EngineAssumption, FS_Subset DEF In
<1> HIDE DEF Ran, Lost
<1>13. IsFiniteSet(Ran) /\ IsFiniteSet(Lost) /\ Cardinality({}) = 0
  BY <1>10, <1>12, FS_Subset, FS_EmptySet
<1>14. /\ Cardinality(In(j)) = Cardinality(Ran) + Cardinality(Lost) - Cardinality(Ran \cap Lost)
       /\ Cardinality(Ran \cap Lost) = 0
  BY <1>10, <1>13, FS_Union
<1>15. Cardinality(Ran) \in Nat /\ Cardinality(Lost) \in Nat /\ Cardinality(In(j)) \in Nat
       /\ Needed[j] \in Nat
  BY <1>5, <1>12, <1>13, FS_CardinalityType, EngineAssumption
<1> QED BY <1>11, <1>14, <1>15

\* Before the start nothing is owed.
LEMMA OwedInit == Init => OwedInv
<1> SUFFICES ASSUME Init PROVE OwedInv
  OBVIOUS
<1>1. /\ \A t \in Task : task[t] = "NONE" /\ next[t] = {}
      /\ wf = "NONE" /\ calls = {} /\ txs = {} /\ Join \subseteq Task
  BY EngineAssumption DEF Init
<1>2. RowsExist /\ LastActionRuns
  BY <1>1 DEF RowsExist, LastActionRuns
<1>3. IdleIsStarted /\ RunningIsEnded /\ JoinIsRefreshed /\ EndIsChecked
  BY <1>1 DEF IdleIsStarted, RunningIsEnded, JoinIsRefreshed, EndIsChecked
<1> QED BY <1>2, <1>3, SteadyInit DEF OwedInv

\* Without pauses, whatever transactions overlap, every task that is not completed is
\* owed a start, a result or a refresh that is under way, unless it is a join whose
\* inbound tasks are.
THEOREM EveryTaskIsOwed ==
    ASSUME MaxPause = 0
    PROVE  EngineSpec => []OwedInv
<1>1. OwedInv /\ [Next]_vars => OwedInv'
  BY SteadyNext, RowsExistNext, LastActionNext, IdleNext, RunningNext, JoinNext, CheckNext
  DEF OwedInv
<1> QED BY <1>1, OwedInit, PTL DEF EngineSpec

\* No wake-up is lost: while the workflow is RUNNING there is a message, a transaction or
\* a refresh job that will move it on.
THEOREM NoLostWakeUp ==
    ASSUME MaxPause = 0
    PROVE  EngineSpec => []RunningHasWork
<1>1. OwedInv => RunningHasWork
  BY NobodyWaits DEF RunningHasWork
<1> QED BY <1>1, EveryTaskIsOwed, PTL

-----------------------------------------------------------------------------
(* With a pause: transactions one after another, no joins.  What the engine *)
(* owes is then in the calls and in the one transaction in progress.        *)

Alone == Serial /\ Join = {}

\* The calls that are on their way or taken by a transaction, and those of resume that
\* start a task once more.
Pending   == calls \cup {x.call : x \in txs}
Reruns(t) == {c \in Pending : c.op = "start" /\ c.task = t /\ c.arg # 0}

Active   == \E t \in Task : task[t] \in {"IDLE", "RUNNING"}
Checking == {"check", "counted", "decided"}

\* What the transaction in progress has loaded, counted or decided is what the tables
\* have.
LoadedIsCurrent ==
    \A x \in txs :
        /\ txs = {x} /\ x.wf = wf
        /\ \A t \in DOMAIN x.seen : x.seen[t] = task[t]
        /\ x.call.op = "start"  => x.call \notin calls
        /\ x.call.op = "done"   => action[x.call.task][x.call.arg] = "RUNNING"
        /\ x.call.op = "resume" => DOMAIN x.seen = Unprocessed /\ x.call.arg = pauses
        /\ x.call.op = "pause"  => pauses = 1
        /\ x.call.op = "stop"   => stops > 0
        /\ x.call.op \in Checking => wf = "RUNNING"
        /\ x.call.op \in {"counted", "decided"} => ~Active
        /\ x.call.op = "decided" => x.call.res = Decision(task, handled)

\* The workflow is paused once; until it is resumed no task is started again.
OnePause ==
    /\ pauses <= MaxPause
    /\ pauses = 0 => wf # "PAUSED" /\ again = {}
    /\ wf = "PAUSED" \/ (\E x \in txs : x.call.op = "pause") => again = {}

\* A call is about a task that exists, and about an action that exists.
Fits(c) ==
    /\ c.op = "start" => task[c.task] # "NONE" /\ c.res = "NONE"
    /\ c.op = "start" /\ c.arg # 0 => c.task \in again /\ c.arg = 1
    /\ c.op \in {"run", "done"} => c.arg \in DOMAIN action[c.task]
    /\ c.op = "done" => c.res \in Outcome[c.task]
CallsFit == \A c \in Pending : Fits(c)

ActionsFit ==
    \A t \in Task : /\ task[t] # "WAITING"
                    /\ task[t] \in {"NONE", "IDLE"} => action[t] = <<>>
                    /\ t \notin again => Len(action[t]) <= 1

\* A task that may still trigger others has triggered none: it has not ended, or
\* resume has yet to look at it, or it failed and is to be started once more.
MayTrigger(t) ==
    \/ task[t] \notin Completed
    \/ t \notin processed
    \/ Reruns(t) # {} /\ task[t] # "SUCCESS"
NoneTriggered(t) == \A n \in Out(t) : task[n] = "NONE"
ChildrenFresh == \A t \in Task : MayTrigger(t) => NoneTriggered(t)

\* Somebody owes a start to an idle task, a result to an action, and a completion check
\* to a workflow without active tasks: a call, or the transaction that has taken it.
StartComes(t) == \E c \in Pending : c.op = "start" /\ c.task = t
ResultComes(t, i) == \E c \in Pending : c.op \in {"run", "done"} /\ c.task = t /\ c.arg = i
CheckComes == \E c \in Pending : c.op \in Checking
AllIsOwed ==
    /\ \A t \in Task : task[t] = "IDLE" => StartComes(t)
    /\ \A t \in Task : task[t] = "RUNNING" => \E i \in DOMAIN action[t] : action[t][i] = "RUNNING"
    /\ \A t \in Task : \A i \in DOMAIN action[t] : action[t][i] = "RUNNING" => ResultComes(t, i)
    /\ wf = "RUNNING" => Active \/ CheckComes

\* Unless somebody stops the workflow or a task is started again: what has ended was
\* followed up, except while the workflow is paused.
VerdictFits ==
    /\ wf \in Completed => \A t \in Task : task[t] \in Completed \cup {"NONE"}
    /\ wf = "SUCCESS"   => \A t \in Task : task[t] = "ERROR" => t \in handled
    /\ wf = "ERROR"     => \E t \in Task : task[t] = "ERROR" /\ t \notin handled
    /\ wf = "CANCELLED" => \E t \in Task : task[t] = "CANCELLED"
FollowedUp ==
    stops = 0 /\ again = {} =>
        /\ \A t \in Task \ processed : task[t] \in Completed => wf = "PAUSED"
        /\ \A t \in processed : /\ task[t] \in Completed
                                /\ \A n \in Triggered(t, task[t]) : task[n] # "NONE"
        /\ VerdictFits

\* The inductive invariant.
AloneInv ==
    /\ IInv /\ NothingBeforeStart /\ LoadedIsCurrent /\ OnePause /\ CallsFit
    /\ ActionsFit /\ ChildrenFresh /\ AllIsOwed /\ FollowedUp

-----------------------------------------------------------------------------
(* What there is without joins.                                              *)

\* The types of the variables, and that no call is about joins.
LEMMA AloneTypes ==
    ASSUME Alone, IInv
    PROVE  /\ task \in [Task -> TaskState] /\ processed \subseteq Task
           /\ handled \subseteq Task /\ again \subseteq Task
           /\ next \in [Task -> SUBSET Task]
           /\ action \in [Task -> Seq(ActionState)]
           /\ pauses \in Nat /\ stops \in Nat /\ wf \in WfState
           /\ calls \subseteq GoodCalls /\ txs \subseteq GoodTxs
           /\ \A x \in txs : x.call \in GoodCalls
           /\ Pending \subseteq GoodCalls
           /\ jobs = {}
           /\ \A c \in Pending : c.op \notin {"request", "refresh"}
<1>1. \A x \in txs : x.call \in GoodCalls
  BY DEF IInv, GoodTxs, GoodCalls, Txs
<1>2. Pending \subseteq GoodCalls
  BY <1>1 DEF Pending, IInv
<1>3. \A c \in GoodCalls : c.op \notin {"request", "refresh"}
  BY DEF GoodCalls, WellFormed, Alone
<1>4. jobs = {}
  BY DEF IInv, EngineTypeOK, Alone
<1> QED
  BY <1>1, <1>2, <1>3, <1>4 DEF IInv, EngineTypeOK, ActionState

\* The calls that are about tasks.
LEMMA CallTypes ==
    ASSUME NEW c \in GoodCalls, c.op \in {"start", "run", "done"}
    PROVE  /\ c.task \in Task /\ c.arg \in Nat
           /\ c.op = "done" => c.res \in ActionEnd
BY DEF GoodCalls, WellFormed

\* Nobody asks for a refresh.
LEMMA NoRequests ==
    ASSUME Alone, NEW t, NEW f, NEW s
    PROVE  Requests(t, f, s) = {}
BY DEF Alone, Requests, Affected

\* Every task that is dispatched gets an execution and a start.
LEMMA DispatchedAlone ==
    ASSUME Alone, NEW f, NEW S, NEW u \in Task
    PROVE  /\ Dispatched(f, S)[u] = IF u \in S THEN "IDLE" ELSE f[u]
           /\ StartNew(S) = {Start(n, 0) : n \in S}
BY DEF Alone, Dispatched, StartNew

\* The graph is a forest.
LEMMA Forest ==
    ASSUME Alone, NEW t \in Task
    PROVE  /\ \A s : Triggered(t, s) \subseteq Out(t)
           /\ Out(t) \subseteq Task /\ t \notin Out(t)
           /\ \A u \in Task : \A n \in Out(t) : n \in Out(u) => u = t
<1>1. \A s : Triggered(t, s) \subseteq Out(t)
  BY DEF Triggered, Out
<1>2. Out(t) \subseteq Task
  BY EngineAssumption DEF Out
<1>3. t \notin Out(t)
  <2>1. PICK level \in [Task -> 1..Cardinality(Task)] :
            \A u \in Task : \A v \in Out(u) : level[u] < level[v]
    BY EngineAssumption
  <2>2. level[t] \in Int
    BY <2>1, EngineAssumption, FS_CardinalityType
  <2> QED
    BY <2>1, <2>2
<1>4. ASSUME NEW u \in Task, NEW n \in Out(t), n \in Out(u) PROVE u = t
  <2>1. n \in Task \ Join /\ u \in In(n) /\ t \in In(n)
    BY <1>2, <1>4 DEF In, Alone
  <2> QED
    BY <2>1, EngineAssumption
<1> QED
  BY <1>1, <1>2, <1>3, <1>4

\* With a pause, failures lead nowhere.
LEMMA FailuresEnd ==
    ASSUME MaxPause > 0, NEW t \in Task, NEW s \in Outcome[t], s # "SUCCESS"
    PROVE  Triggered(t, s) = {}
BY EngineAssumption DEF Triggered

\* A transaction of a task: the task and what it is about.
LEMMA TxFacts ==
    ASSUME Alone, AloneInv, NEW x \in txs
    PROVE  /\ x \in GoodTxs /\ x.call \in GoodCalls /\ x.call \in Pending /\ Fits(x.call)
           /\ txs = {x} /\ x.wf = wf
           /\ Pending = calls \cup {x.call}
           /\ Commits(x) => txs' = {} /\ Pending' = calls'
           /\ x.call.op \in {"start", "done"} =>
                 x.call.task \in Task /\ x.seen[x.call.task] = task[x.call.task]
<1>1. x \in GoodTxs /\ x.call \in GoodCalls /\ x.call \in Pending
  BY AloneTypes DEF AloneInv, Pending
<1>2. /\ txs = {x} /\ x.wf = wf
      /\ \A t \in DOMAIN x.seen : x.seen[t] = task[t]
  BY DEF AloneInv, LoadedIsCurrent
<1>3. x.call.op \in {"start", "done"} => x.call.task \in Task /\ x.call.task \in DOMAIN x.seen
  BY <1>1, CallTypes DEF GoodTxs, WellLoaded
<1>4. Commits(x) => txs' = {} /\ Pending' = calls'
  BY <1>2 DEF Commits, Pending
<1>5. Pending = calls \cup {x.call}
  BY <1>2 DEF Pending
<1> QED
  BY <1>1, <1>2, <1>3, <1>4, <1>5 DEF AloneInv, CallsFit

-----------------------------------------------------------------------------
(* Steps that leave the tasks and their actions as they are.                 *)

Harmless(c) ==
    \/ c.op \in {"pause", "resume", "stop"} \cup Checking
    \/ c.op = "done" /\ c.arg \in DOMAIN action[c.task] /\ c.res \in Outcome[c.task]

Calm ==
    /\ UNCHANGED <<task, processed, handled, action, again>>
    /\ \A c \in Pending' : c \in Pending \/ Harmless(c)
    /\ \A c \in Pending : c.op = "start" /\ task[c.task] = "IDLE" => c \in Pending'
    /\ \A t \in Task : \A i \in DOMAIN action[t] :
          action[t][i] = "RUNNING" /\ ResultComes(t, i) => ResultComes(t, i)'
    /\ wf' = "RUNNING" => wf = "RUNNING" /\ (Active \/ (CheckComes => CheckComes'))
    /\ stops' = stops \/ stops' > 0
    /\ \/ wf' = wf \/ wf' = "PAUSED" \/ stops' > 0
       \/ wf = "RUNNING" /\ wf' = Verdict(task, handled)

\* A verdict fits the tasks.
LEMMA VerdictIsRight ==
    ASSUME ActionsFit
    PROVE  /\ Verdict(task, handled) = "RUNNING" <=> Active
           /\ wf' = Verdict(task, handled) /\ UNCHANGED <<task, handled>> /\ IInv => VerdictFits'
<1>1. \A t \in Task : task[t] # "WAITING"
  BY DEF ActionsFit
<1>2. Verdict(task, handled) = "RUNNING" <=> Active
  BY <1>1 DEF Verdict, Incomplete, Decision, Active
<1>3. ASSUME wf' = Verdict(task, handled), UNCHANGED <<task, handled>>, IInv PROVE VerdictFits'
  <2>1. \A t \in Task : task[t] \in TaskState
    BY <1>3 DEF IInv, EngineTypeOK
  <2> QED
    BY <1>1, <1>3, <2>1
    DEF Verdict, Incomplete, Decision, VerdictFits, TaskState, Completed
<1> QED
  BY <1>2, <1>3

\* Such a step keeps what is said about tasks and calls.
LEMMA CalmNext ==
    ASSUME Alone, AloneInv, Calm
    PROVE  CallsFit' /\ ActionsFit' /\ ChildrenFresh' /\ AllIsOwed' /\ FollowedUp'
<1>0. IInv /\ CallsFit /\ ActionsFit /\ ChildrenFresh /\ AllIsOwed /\ FollowedUp
  BY DEF AloneInv
<1>1. UNCHANGED <<task, processed, handled, action, again>>
  BY DEF Calm
<1>2. CallsFit'
  BY <1>0, <1>1 DEF Calm, CallsFit, Fits, Harmless, Checking
<1>3. ActionsFit'
  BY <1>0, <1>1 DEF ActionsFit
<1>4. ChildrenFresh'
  <2>1. ASSUME NEW t \in Task PROVE Reruns(t)' \subseteq Reruns(t)
    BY DEF Calm, Reruns, Harmless, Checking
  <2> QED
    BY <1>0, <1>1, <2>1 DEF ChildrenFresh, MayTrigger, NoneTriggered
<1>5. AllIsOwed'
  <2>1. ASSUME NEW t \in Task, task'[t] = "IDLE" PROVE StartComes(t)'
    BY <1>0, <1>1, <2>1 DEF AllIsOwed, StartComes, Calm
  <2>2. ASSUME NEW t \in Task, NEW i \in DOMAIN action'[t], action'[t][i] = "RUNNING"
        PROVE  ResultComes(t, i)'
    BY <1>0, <1>1, <2>2 DEF AllIsOwed, Calm
  <2>3. wf' = "RUNNING" => Active' \/ CheckComes'
    BY <1>0, <1>1 DEF AllIsOwed, Calm, Active
  <2> QED
    BY <1>0, <1>1, <2>1, <2>2, <2>3 DEF AllIsOwed
<1>6. FollowedUp'
  <2> SUFFICES ASSUME stops' = 0, again' = {}
               PROVE  /\ \A t \in Task \ processed : task[t] \in Completed => wf' = "PAUSED"
                      /\ \A t \in processed : /\ task[t] \in Completed
                                              /\ \A n \in Triggered(t, task[t]) : task[n] # "NONE"
                      /\ VerdictFits'
    BY <1>1 DEF FollowedUp
  <2>1. /\ stops = 0 /\ again = {}
        /\ \A t \in Task \ processed : task[t] \in Completed => wf = "PAUSED"
        /\ \A t \in processed : /\ task[t] \in Completed
                                /\ \A n \in Triggered(t, task[t]) : task[n] # "NONE"
        /\ VerdictFits
    BY <1>0, <1>1 DEF FollowedUp, Calm
  <2>2. CASE wf' = wf
    BY <1>1, <2>1, <2>2 DEF VerdictFits
  <2>3. CASE wf' = "PAUSED"
    BY <1>1, <2>1, <2>3 DEF VerdictFits, Completed
  <2>4. CASE wf = "RUNNING" /\ wf' = Verdict(task, handled)
    BY <1>0, <1>1, <2>1, <2>4, VerdictIsRight
  <2> QED
    BY <2>2, <2>3, <2>4 DEF Calm
<1> QED
  BY <1>2, <1>3, <1>4, <1>5, <1>6

\* Beginning a transaction, or refusing to.
LEMMA BeginsAre ==
    ASSUME Alone, AloneInv, NEW c \in calls, BeginStart(c) \/ BeginDone(c)
    PROVE  Calm /\ LoadedIsCurrent' /\ OnePause'
<1>1. /\ txs = {} /\ calls' = calls \ {c}
      /\ UNCHANGED <<wf, task, processed, next, handled, action, again, pauses, stops>>
  BY DEF BeginStart, BeginDone, Overlaps, Alone, taskVars, histVars
<1>2. Pending = calls /\ c \in GoodCalls
  BY <1>1, AloneTypes DEF Pending, AloneInv
<1>3. CASE txs' = txs \cup {Loads(c, {c.task})} /\ (c.op = "start" \/ action[c.task][c.arg] = "RUNNING")
  <2>1. Loads(c, {c.task}).call = c
    BY DEF Loads
  <2>2. Pending' = Pending
    BY <1>1, <1>2, <1>3, <2>1 DEF Pending
  <2>3. c.op \in {"start", "done"}
    BY DEF BeginStart, BeginDone
  <2>4. LoadedIsCurrent'
    BY <1>1, <1>3, <2>3 DEF LoadedIsCurrent, Loads, Checking
  <2>5. OnePause'
    <3>1. OnePause
      BY DEF AloneInv
    <3>2. \A x \in txs' : x.call.op # "pause"
      BY <1>1, <1>3, <2>1, <2>3
    <3> QED
      BY <1>1, <3>1, <3>2 DEF OnePause
  <2>6. Calm
    <3>1. \A t \in Task : \A i : ResultComes(t, i) => ResultComes(t, i)'
      BY <2>2 DEF ResultComes
    <3>2. CheckComes => CheckComes'
      BY <2>2 DEF CheckComes
    <3> QED
      BY <1>1, <2>2, <3>1, <3>2 DEF Calm
  <2> QED
    BY <2>4, <2>5, <2>6
<1>4. CASE txs' = {} /\ c.op = "done" /\ action[c.task][c.arg] # "RUNNING"
  <2>1. Pending' = Pending \ {c}
    BY <1>1, <1>2, <1>4 DEF Pending
  <2>2. LoadedIsCurrent' /\ OnePause'
    BY <1>1, <1>4 DEF LoadedIsCurrent, OnePause, AloneInv
  <2>3. Calm
    <3>1. ASSUME NEW t \in Task, NEW i, action[t][i] = "RUNNING", ResultComes(t, i)
          PROVE  ResultComes(t, i)'
      BY <1>4, <2>1, <3>1 DEF ResultComes
    <3>2. CheckComes => CheckComes'
      BY <1>4, <2>1 DEF CheckComes, Checking
    <3> QED
      BY <1>1, <1>4, <2>1, <3>1, <3>2 DEF Calm
  <2> QED
    BY <2>2, <2>3
<1> QED
  BY <1>1, <1>3, <1>4 DEF BeginStart, BeginDone

\* The executor's result, and one that an operator reports.
LEMMA ResultsAre ==
    ASSUME Alone, AloneInv,
           \/ \E c \in calls : Execute(c)
           \/ \E t \in Task : \E i \in DOMAIN action[t] : ReportResult(t, i)
    PROVE  Calm /\ LoadedIsCurrent' /\ OnePause'
<1>1. UNCHANGED <<wf, task, processed, next, handled, action, again, txs, pauses, stops>>
  BY DEF Execute, ReportResult, taskVars, histVars
<1>2. LoadedIsCurrent' /\ OnePause'
  <2>1. \A d \in calls' : d \in calls \/ d.op = "done"
    BY DEF Execute, ReportResult, Done, Call
  <2> QED
    BY <1>1, <2>1 DEF AloneInv, LoadedIsCurrent, OnePause, Unprocessed, Active
<1>3. ASSUME NEW c \in calls, Execute(c) PROVE Calm
  <2>1. PICK res \in Outcome[c.task] : calls' = (calls \ {c}) \cup {Done(c.task, c.arg, res)}
    BY <1>3 DEF Execute
  <2>2. /\ Done(c.task, c.arg, res).op = "done" /\ Done(c.task, c.arg, res).task = c.task
        /\ Done(c.task, c.arg, res).arg = c.arg /\ Done(c.task, c.arg, res).res = res
    BY DEF Done, Call
  <2>3. c.op = "run" /\ c.arg \in DOMAIN action[c.task]
    BY <1>3 DEF Execute, AloneInv, CallsFit, Fits, Pending
  <2>4. Pending' = calls' \cup {x.call : x \in txs}
    BY <1>1 DEF Pending
  <2>5. \A d \in Pending' : d \in Pending \/ Harmless(d)
    BY <2>1, <2>2, <2>3, <2>4 DEF Pending, Harmless
  <2>6. \A d \in Pending : d = c \/ d \in Pending'
    BY <2>1, <2>4 DEF Pending
  <2>7. ASSUME NEW t \in Task, NEW i, ResultComes(t, i) PROVE ResultComes(t, i)'
    BY <2>1, <2>2, <2>4, <2>6, <2>7 DEF ResultComes
  <2>8. CheckComes => CheckComes'
    BY <2>3, <2>6 DEF CheckComes, Checking
  <2> QED
    BY <1>1, <2>3, <2>5, <2>6, <2>7, <2>8 DEF Calm
<1>4. ASSUME NEW t \in Task, NEW i \in DOMAIN action[t], ReportResult(t, i) PROVE Calm
  <2>1. PICK res \in Outcome[t] : calls' = calls \cup {Done(t, i, res)}
    BY <1>4 DEF ReportResult
  <2>2. /\ Done(t, i, res).op = "done" /\ Done(t, i, res).task = t
        /\ Done(t, i, res).arg = i /\ Done(t, i, res).res = res
    BY DEF Done, Call
  <2>3. Pending' = Pending \cup {Done(t, i, res)}
    BY <1>1, <2>1 DEF Pending
  <2>4. Harmless(Done(t, i, res))
    BY <2>2 DEF Harmless
  <2>5. \A u \in Task : \A k : ResultComes(u, k) => ResultComes(u, k)'
    BY <2>3 DEF ResultComes
  <2>6. CheckComes => CheckComes'
    BY <2>3 DEF CheckComes
  <2> QED
    BY <1>1, <2>3, <2>4, <2>5, <2>6 DEF Calm
<1> QED
  BY <1>2, <1>3, <1>4

\* check_and_complete(): loading,
LEMMA BeginsToCheck ==
    ASSUME Alone, AloneInv, NEW c \in calls, BeginCheck(c)
    PROVE  Calm /\ LoadedIsCurrent' /\ OnePause'
<1>1. /\ txs = {} /\ calls' = calls \ {c} /\ c.op = "check"
      /\ UNCHANGED <<wf, task, processed, next, handled, action, again, pauses, stops>>
  BY DEF BeginCheck, Overlaps, Alone, taskVars, histVars
<1>2. CASE wf = "RUNNING" /\ txs' = {Loads(c, {})}
  <2>1. Loads(c, {}).call = c
    BY DEF Loads
  <2>2. Pending' = Pending
    BY <1>1, <1>2, <2>1 DEF Pending
  <2>3. Calm
    BY <1>1, <2>2 DEF Calm, ResultComes, CheckComes
  <2>4. LoadedIsCurrent'
    BY <1>1, <1>2 DEF LoadedIsCurrent, Loads, Checking
  <2>5. OnePause'
    BY <1>1, <1>2, <2>1 DEF OnePause, AloneInv
  <2> QED
    BY <2>3, <2>4, <2>5
<1>3. CASE wf # "RUNNING" /\ txs' = {}
  <2>1. Pending' = Pending \ {c}
    BY <1>1, <1>3 DEF Pending
  <2>2. \A t \in Task : \A i : ResultComes(t, i) => ResultComes(t, i)'
    BY <1>1, <2>1 DEF ResultComes
  <2>3. Calm
    BY <1>1, <1>3, <2>1, <2>2 DEF Calm
  <2>4. LoadedIsCurrent' /\ OnePause'
    BY <1>1, <1>3 DEF LoadedIsCurrent, OnePause, AloneInv
  <2> QED
    BY <2>3, <2>4
<1> QED
  BY <1>1, <1>2, <1>3 DEF BeginCheck

\* going on, to the count and to the decision,
LEMMA ChecksGoOn ==
    ASSUME Alone, AloneInv, NEW x \in txs, x.call.op \in Checking, wf = "RUNNING",
           NEW op \in {"counted", "decided"}, NEW t, NEW res,
           ~Active, op = "decided" => res = Decision(task, handled),
           Turns(x, Call(op, t, 0, res)), ChecksOn
    PROVE  Calm /\ LoadedIsCurrent' /\ OnePause'
<1> DEFINE y == Loads(Call(op, t, 0, res), {})
<1>1. /\ txs = {x} /\ Pending = calls \cup {x.call}
      /\ UNCHANGED <<wf, task, processed, next, handled, action, again, calls, pauses, stops>>
  BY TxFacts DEF ChecksOn, taskVars, histVars
<1>2. txs' = {y}
  BY <1>1 DEF Turns
<1>3. /\ y.call.op = op /\ y.call.res = res /\ y.wf = wf /\ DOMAIN y.seen = {}
  BY DEF Loads, Call
<1> HIDE DEF y
<1>4. Pending' = calls \cup {y.call}
  BY <1>1, <1>2 DEF Pending
<1>5. \A u \in Task : \A i : ResultComes(u, i) => ResultComes(u, i)'
  BY <1>1, <1>4 DEF ResultComes, Checking
<1>6. CheckComes'
  BY <1>3, <1>4 DEF CheckComes, Checking
<1>7. Calm
  BY <1>1, <1>3, <1>4, <1>5, <1>6 DEF Calm, Harmless, Checking
<1>8. LoadedIsCurrent'
  BY <1>1, <1>2, <1>3 DEF LoadedIsCurrent, Active, Decision, Checking
<1>9. OnePause'
  BY <1>1, <1>2, <1>3 DEF OnePause, AloneInv
<1> QED
  BY <1>7, <1>8, <1>9

\* and ending.
LEMMA ChecksAre ==
    ASSUME Alone, AloneInv, NEW x \in txs, CheckStage(x)
    PROVE  Calm /\ LoadedIsCurrent' /\ OnePause'
<1>0. /\ x.call.op \in Checking /\ wf = "RUNNING" /\ x.wf = wf
      /\ x.call.op \in {"counted", "decided"} => ~Active
      /\ x.call.op = "decided" => x.call.res = Decision(task, handled)
      /\ Pending = calls \cup {x.call} /\ txs = {x}
  <2>1. x.call.op \in Checking
    BY DEF CheckStage, CountTasks, Decide, CheckAndComplete, Checking
  <2> QED
    BY <2>1, TxFacts DEF AloneInv, LoadedIsCurrent
<1>1. Incomplete(task) <=> Active
  BY DEF Incomplete, Active, AloneInv, ActionsFit
<1>2. ASSUME Commits(x), wf' = "RUNNING" => Active, wf' \in {wf, Verdict(task, handled)},
             UNCHANGED <<taskVars, action, calls, jobs, histVars>>
      PROVE  Calm /\ LoadedIsCurrent' /\ OnePause'
  <2>1. /\ txs' = {} /\ Pending' = calls
        /\ UNCHANGED <<task, processed, next, handled, action, again, pauses, stops>>
    BY <1>0, <1>2 DEF Commits, Pending, taskVars, histVars
  <2>2. \A t \in Task : \A i : ResultComes(t, i) => ResultComes(t, i)'
    BY <1>0, <2>1 DEF ResultComes, Checking
  <2>3. wf' # "PAUSED"
    BY <1>0, <1>2, VerdictState DEF Completed
  <2>4. Calm
    BY <1>0, <1>2, <2>1, <2>2 DEF Calm, Checking
  <2> QED
    BY <1>0, <2>1, <2>3, <2>4 DEF LoadedIsCurrent, OnePause, AloneInv
<1>3. CASE CountTasks(x)
  <2>1. CASE Incomplete(task)
    BY <1>1, <1>2, <1>3, <2>1 DEF CountTasks, ChecksOn
  <2>2. CASE ~Incomplete(task)
    BY <1>0, <1>1, <1>3, <2>2, ChecksGoOn DEF CountTasks
  <2> QED
    BY <2>1, <2>2
<1>4. CASE Decide(x)
  BY <1>0, <1>4, ChecksGoOn DEF Decide, Completed
<1>5. CASE CheckAndComplete(x)
  <2>1. /\ Commits(x) /\ UNCHANGED <<taskVars, action, calls, jobs, histVars>>
        /\ wf' = Decision(task, handled) /\ ~Active
    BY <1>0, <1>5 DEF CheckAndComplete, WfMatches
  <2>2. wf' = Verdict(task, handled) /\ wf' # "RUNNING"
    BY <1>1, <2>1, VerdictState DEF Verdict, Completed
  <2> QED
    BY <1>2, <2>1, <2>2
<1> QED
  BY <1>3, <1>4, <1>5 DEF CheckStage

\* The operator's transactions: loading
LEMMA OperatorLoads ==
    ASSUME Alone, AloneInv,
           BeginPause \/ BeginResume \/ \E s \in ActionEnd : BeginStop(s)
    PROVE  Calm /\ LoadedIsCurrent' /\ OnePause'
<1>1. /\ txs = {} /\ UNCHANGED <<wf, task, processed, next, handled, action, again, calls>>
      /\ pauses \in Nat /\ stops \in Nat /\ MaxPause \in 0..1 /\ OnePause
  BY AloneTypes, EngineAssumption
  DEF BeginPause, BeginResume, BeginStop, Overlaps, Alone, taskVars, histVars, AloneInv
<1>2. ASSUME NEW op \in {"pause", "resume", "stop"}, NEW n, NEW r, NEW S,
             txs' = {Loads(Operator(op, n, r), S)}, stops' = stops \/ stops' > 0
      PROVE  Calm
  <2>1. Loads(Operator(op, n, r), S).call.op = op
    BY DEF Loads, Operator, Call
  <2>2. Pending' = Pending \cup {Loads(Operator(op, n, r), S).call}
    BY <1>1, <1>2 DEF Pending
  <2>3. \A t \in Task : \A i : ResultComes(t, i) => ResultComes(t, i)'
    BY <2>2 DEF ResultComes
  <2>4. CheckComes => CheckComes'
    BY <2>2 DEF CheckComes
  <2> QED
    BY <1>1, <1>2, <2>1, <2>2, <2>3, <2>4 DEF Calm, Harmless
<1>3. CASE BeginPause
  <2>1. /\ txs' = {Loads(Operator("pause", pauses, "NONE"), {})}
        /\ pauses' = pauses + 1 /\ wf = "RUNNING" /\ pauses < MaxPause /\ stops' = stops
    BY <1>1, <1>3 DEF BeginPause
  <2>2. pauses = 0 /\ pauses' = 1 /\ MaxPause = 1
    BY <1>1, <2>1
  <2>3. OnePause'
    BY <1>1, <2>1, <2>2 DEF OnePause
  <2>4. LoadedIsCurrent'
    BY <1>1, <2>1, <2>2 DEF LoadedIsCurrent, Loads, Operator, Call, Checking
  <2> QED
    BY <1>2, <2>1, <2>3, <2>4
<1>4. CASE BeginResume
  <2>1. /\ txs' = {Loads(Operator("resume", pauses, "NONE"), Unprocessed)}
        /\ pauses' = pauses /\ wf = "PAUSED" /\ stops' = stops
    BY <1>1, <1>4 DEF BeginResume, histVars
  <2>2. OnePause'
    BY <1>1, <2>1 DEF OnePause, Loads, Operator, Call
  <2>3. LoadedIsCurrent'
    BY <1>1, <2>1 DEF LoadedIsCurrent, Loads, Operator, Call, Unprocessed, Checking
  <2> QED
    BY <1>2, <2>1, <2>2, <2>3
<1>5. ASSUME NEW s \in ActionEnd, BeginStop(s) PROVE Calm /\ LoadedIsCurrent' /\ OnePause'
  <2>1. /\ txs' = {Loads(Operator("stop", stops, s), {})}
        /\ pauses' = pauses /\ stops' = stops + 1
    BY <1>1, <1>5 DEF BeginStop
  <2>2. OnePause'
    BY <1>1, <2>1 DEF OnePause, Loads, Operator, Call
  <2>3. LoadedIsCurrent'
    BY <1>1, <2>1 DEF LoadedIsCurrent, Loads, Operator, Call, Checking
  <2> QED
    BY <1>1, <1>2, <2>1, <2>2, <2>3
<1> QED
  BY <1>3, <1>4, <1>5

\* and deciding.
LEMMA OperatorDecides ==
    ASSUME Alone, AloneInv, NEW x \in txs, Pause(x) \/ Stop(x)
    PROVE  Calm /\ LoadedIsCurrent' /\ OnePause'
<1>1. /\ UNCHANGED <<task, processed, next, handled, action, again, calls, pauses, stops>>
      /\ txs' = {} /\ Pending' = calls' /\ Pending = calls \cup {x.call}
      /\ x \in GoodTxs /\ OnePause /\ x.wf = wf
  BY TxFacts DEF Pause, Stop, taskVars, histVars, AloneInv
<1>2. x.call.op \in {"pause", "stop"} /\ (x.call.op = "stop" => stops > 0)
  BY DEF Pause, Stop, AloneInv, LoadedIsCurrent
<1>3. /\ x.call.op = "pause" => wf' = "PAUSED" /\ again = {} /\ pauses = 1
      /\ x.call.op = "stop" => wf' \in ActionEnd \cup {wf} /\ (wf' = "RUNNING" => wf = "RUNNING")
  BY <1>1, <1>2 DEF Pause, Stop, WfMatches, OnePause, AloneInv, LoadedIsCurrent, GoodTxs,
     WellFormed, ActionEnd
<1>4. LoadedIsCurrent'
  BY <1>1 DEF LoadedIsCurrent
<1>5. OnePause'
  BY <1>1, <1>2, <1>3 DEF OnePause, ActionEnd
<1>6. \A t \in Task : \A i : ResultComes(t, i) => ResultComes(t, i)'
  BY <1>1, <1>2 DEF ResultComes
<1>7. CheckComes => CheckComes'
  BY <1>1, <1>2 DEF CheckComes, Checking
<1>8. /\ wf' = "RUNNING" => wf = "RUNNING"
      /\ wf' = "PAUSED" \/ stops' > 0
  BY <1>1, <1>2, <1>3
<1>9. \A c \in Pending : c.op = "start" => c \in Pending'
  BY <1>1, <1>2
<1>10. \A c \in Pending' : c \in Pending
  BY <1>1
<1>11. UNCHANGED <<task, processed, handled, action, again>> /\ stops' = stops
  BY <1>1
<1>12. Calm
  BY <1>6, <1>7, <1>8, <1>9, <1>10, <1>11, Zenon DEF Calm
<1> QED
  BY <1>4, <1>5, <1>12

\* start_task of a task that has begun already, or of resume for one that succeeded
\* meanwhile: it is rolled back.
LEMMA StartsLateAre ==
    ASSUME Alone, AloneInv, NEW x \in txs,
           \/ RunNew(x) /\ task[x.call.task] # "IDLE"
           \/ RunExisting(x) /\ task[x.call.task] = "SUCCESS"
    PROVE  Calm /\ LoadedIsCurrent' /\ OnePause'
<1>1. /\ UNCHANGED <<wf, task, processed, next, handled, action, again, calls, pauses, stops>>
      /\ txs' = {} /\ Pending' = calls' /\ Pending = calls \cup {x.call}
      /\ x.call.op = "start" /\ task[x.call.task] # "IDLE"
  <2>1. x.call.op = "start" /\ Commits(x)
    BY DEF RunNew, RunExisting
  <2>2. /\ x.seen[x.call.task] = task[x.call.task] /\ task[x.call.task] # "IDLE"
        /\ txs' = {} /\ Pending' = calls' /\ Pending = calls \cup {x.call}
    BY <2>1, TxFacts
  <2>3. CASE RunNew(x)
    <3>1. calls' = calls /\ UNCHANGED <<task, action>>
      BY <2>2, <2>3, NoRequests DEF RunNew
    <3> QED
      BY <2>1, <2>2, <2>3, <3>1 DEF RunNew, histVars
  <2>4. CASE RunExisting(x) /\ task[x.call.task] = "SUCCESS"
    BY <2>1, <2>2, <2>4 DEF RunExisting, histVars
  <2> QED
    BY <2>3, <2>4
<1>2. LoadedIsCurrent' /\ OnePause'
  BY <1>1 DEF LoadedIsCurrent, OnePause, AloneInv
<1>3. \A t \in Task : \A i : ResultComes(t, i) => ResultComes(t, i)'
  BY <1>1 DEF ResultComes
<1>4. CheckComes => CheckComes'
  BY <1>1 DEF CheckComes, Checking
<1>5. Calm
  BY <1>1, <1>3, <1>4 DEF Calm
<1> QED
  BY <1>2, <1>5

-----------------------------------------------------------------------------
(* A task begins to run: for the first time, or once more.                   *)

\* A new action of t, on its way to an executor.
Begins(t, c) ==
    /\ t \in Task /\ c.op = "start" /\ c.task = t
    /\ task' = [task EXCEPT ![t] = "RUNNING"]
    /\ action' = [action EXCEPT ![t] = Append(@, "RUNNING")]
    /\ Pending' = calls' /\ Pending = calls \cup {c}
    /\ calls' = calls \cup {RunAction(t, Len(action[t]) + 1)}
    /\ txs' = {}
    /\ UNCHANGED <<wf, next, handled, again, pauses, stops>>

\* An action more.
LEMMA OneMore ==
    ASSUME Alone, IInv, NEW t \in Task, NEW c, Begins(t, c)
    PROVE  /\ \A u \in Task : task'[u] = IF u = t THEN "RUNNING" ELSE task[u]
           /\ \A u \in Task : u # t => action'[u] = action[u]
           /\ action[t] = <<>> => Len(action'[t]) <= 1
           /\ Len(action[t]) \in Nat
           /\ DOMAIN action[t] = 1..Len(action[t])
           /\ DOMAIN action'[t] = 1..(Len(action[t]) + 1)
           /\ action'[t][Len(action[t]) + 1] = "RUNNING"
           /\ \A i \in DOMAIN action[t] : action'[t][i] = action[t][i]
<1>1. /\ action \in [Task -> Seq(ActionState)] /\ task \in [Task -> TaskState]
      /\ "RUNNING" \in ActionState
  BY AloneTypes DEF ActionState
<1>2. action[t] \in Seq(ActionState) /\ action'[t] = Append(action[t], "RUNNING")
  BY <1>1 DEF Begins
<1>3. /\ Len(action[t]) \in Nat /\ DOMAIN action[t] = 1..Len(action[t])
      /\ Len(action'[t]) = Len(action[t]) + 1
      /\ DOMAIN action'[t] = 1..(Len(action[t]) + 1)
      /\ action'[t][Len(action[t]) + 1] = "RUNNING"
      /\ \A i \in 1..Len(action[t]) : action'[t][i] = action[t][i]
  BY <1>1, <1>2, AppendProperties, LenProperties
<1>4. action[t] = <<>> => Len(action'[t]) <= 1
  BY <1>3, EmptySeq
<1> QED
  BY <1>1, <1>3, <1>4 DEF Begins

\* The call for the start is gone, and the new action is on its way.
LEMMA BeginsNext ==
    ASSUME Alone, AloneInv, NEW t \in Task, NEW c \in Pending, Begins(t, c),
           (c.arg = 0 /\ task[t] = "IDLE") \/ t \in again,
           wf = "RUNNING" => wf' = "RUNNING"
    PROVE  /\ LoadedIsCurrent' /\ OnePause' /\ CallsFit' /\ ActionsFit' /\ AllIsOwed'
<1>0. /\ IInv /\ OnePause /\ CallsFit /\ ActionsFit /\ AllIsOwed
      /\ c \in GoodCalls
  BY AloneTypes DEF AloneInv
<1> DEFINE k == Len(action[t]) + 1
           r == RunAction(t, k)
<1>1. /\ \A u \in Task : task'[u] = IF u = t THEN "RUNNING" ELSE task[u]
      /\ \A u \in Task : u # t => action'[u] = action[u]
      /\ action[t] = <<>> => Len(action'[t]) <= 1
      /\ \A i \in DOMAIN action[t] : i \in DOMAIN action'[t] /\ action'[t][i] = action[t][i]
      /\ k \in DOMAIN action'[t] /\ action'[t][k] = "RUNNING"
      /\ DOMAIN action'[t] = DOMAIN action[t] \cup {k}
  BY <1>0, OneMore
<1>2. r.op = "run" /\ r.task = t /\ r.arg = k
  BY DEF RunAction, Call
<1>3. /\ Pending' = calls \cup {r} /\ Pending = calls \cup {c} /\ calls' = calls \cup {r}
      /\ txs' = {} /\ UNCHANGED <<wf, handled, again, pauses, stops>>
      /\ c.op = "start" /\ c.task = t
  BY DEF Begins
<1> HIDE DEF r, k
<1>4. LoadedIsCurrent' /\ OnePause'
  BY <1>0, <1>3 DEF LoadedIsCurrent, OnePause
<1>5. CallsFit'
  <2>1. ASSUME NEW d \in Pending' PROVE Fits(d)'
    <3>1. CASE d = r
      BY <1>1, <1>2, <3>1 DEF Fits
    <3>2. CASE d \in calls
      <4>1. Fits(d) /\ d \in GoodCalls
        BY <1>0, <1>3, <3>2, AloneTypes DEF CallsFit
      <4>2. d.op \in {"start", "run", "done"} => d.task \in Task
        BY <4>1, CallTypes
      <4> QED
        BY <1>1, <1>3, <4>1, <4>2 DEF Fits
    <3> QED
      BY <1>3, <2>1, <3>1, <3>2
  <2> QED
    BY <2>1 DEF CallsFit
<1>6. ActionsFit'
  <2>1. ASSUME NEW u \in Task
        PROVE  /\ task'[u] # "WAITING"
               /\ task'[u] \in {"NONE", "IDLE"} => action'[u] = <<>>
               /\ u \notin again => Len(action'[u]) <= 1
    <3>1. /\ task[u] # "WAITING"
          /\ task[u] \in {"NONE", "IDLE"} => action[u] = <<>>
          /\ u \notin again => Len(action[u]) <= 1
      BY <1>0 DEF ActionsFit
    <3>2. CASE u = t
      <4>1. task'[u] \notin {"NONE", "IDLE", "WAITING"}
        BY <1>1, <3>2
      <4>2. u \notin again => action[u] = <<>>
        BY <3>1, <3>2
      <4> QED
        BY <1>1, <3>2, <4>1, <4>2
    <3>3. CASE u # t
      BY <1>1, <3>1, <3>3
    <3> QED
      BY <3>2, <3>3
  <2> QED
    BY <1>3, <2>1 DEF ActionsFit
<1>7. AllIsOwed'
  <2>1. ASSUME NEW u \in Task, task'[u] = "IDLE" PROVE StartComes(u)'
    <3>1. u # t /\ StartComes(u)
      BY <1>0, <1>1, <2>1 DEF AllIsOwed
    <3> QED
      BY <1>3, <3>1 DEF StartComes
  <2>2. ASSUME NEW u \in Task, task'[u] = "RUNNING"
        PROVE  \E i \in DOMAIN action'[u] : action'[u][i] = "RUNNING"
    BY <1>0, <1>1, <2>2 DEF AllIsOwed
  <2>3. ASSUME NEW u \in Task, NEW i \in DOMAIN action'[u], action'[u][i] = "RUNNING"
        PROVE  ResultComes(u, i)'
    <3>1. CASE u = t /\ i = k
      BY <1>2, <1>3, <3>1 DEF ResultComes
    <3>2. CASE ~(u = t /\ i = k)
      <4>1. i \in DOMAIN action[u] /\ action[u][i] = "RUNNING"
        BY <1>1, <2>3, <3>2
      <4>2. ResultComes(u, i)
        BY <1>0, <4>1 DEF AllIsOwed
      <4> QED
        BY <1>3, <4>2 DEF ResultComes
    <3> QED
      BY <3>1, <3>2
  <2>4. Active'
    BY <1>1 DEF Active
  <2> QED
    BY <2>1, <2>2, <2>3, <2>4 DEF AllIsOwed
<1> QED
  BY <1>4, <1>5, <1>6, <1>7

\* A task that begins has triggered nothing.
LEMMA BeginsFresh ==
    ASSUME Alone, AloneInv, NEW t \in Task, NEW c \in Pending, Begins(t, c),
           task[t] # "SUCCESS", task[t] = "IDLE" \/ c.arg # 0,
           processed' = processed \/ processed' = processed \ {t}
    PROVE  ChildrenFresh'
<1>1. /\ \A u \in Task : task'[u] = IF u = t THEN "RUNNING" ELSE task[u]
      /\ Pending' = calls \cup {RunAction(t, Len(action[t]) + 1)} /\ calls \subseteq Pending
      /\ c.op = "start" /\ c.task = t
  BY OneMore DEF AloneInv, Begins
<1>2. MayTrigger(t) /\ task[t] # "NONE"
  <2>1. c.arg # 0 => c \in Reruns(t)
    BY <1>1 DEF Reruns
  <2>2. task[t] # "NONE"
    BY <1>1 DEF AloneInv, CallsFit, Fits
  <2> QED
    BY <2>1, <2>2 DEF MayTrigger, Completed
<1>3. ASSUME NEW u \in Task PROVE Reruns(u)' \subseteq Reruns(u)
  <2>1. RunAction(t, Len(action[t]) + 1).op # "start"
    BY DEF RunAction, Call
  <2> QED
    BY <1>1, <2>1 DEF Reruns
<1>4. ASSUME NEW u \in Task, MayTrigger(u)' PROVE MayTrigger(u)
  <2>1. CASE u = t
    BY <1>2, <2>1
  <2>2. CASE u # t
    BY <1>1, <1>3, <1>4, <2>2 DEF MayTrigger
  <2> QED
    BY <2>1, <2>2
<1>5. ASSUME NEW u \in Task, NoneTriggered(u) PROVE NoneTriggered(u)'
  <2>1. \A n \in Out(u) : n \in Task /\ n # t
    BY <1>2, <1>5, Forest DEF NoneTriggered
  <2> QED
    BY <1>1, <1>5, <2>1 DEF NoneTriggered
<1> QED
  BY <1>4, <1>5 DEF ChildrenFresh, AloneInv

\* run_task() of a new task execution,
LEMMA RunNewNext ==
    ASSUME Alone, AloneInv, NEW x \in txs, RunNew(x), task[x.call.task] = "IDLE"
    PROVE  /\ LoadedIsCurrent' /\ OnePause' /\ CallsFit' /\ ActionsFit' /\ AllIsOwed'
           /\ ChildrenFresh' /\ FollowedUp'
<1> DEFINE t == x.call.task
           c == x.call
<1>1. /\ t \in Task /\ c \in Pending /\ c.op = "start" /\ c.arg = 0 /\ x.seen[t] = "IDLE"
      /\ txs' = {} /\ Pending' = calls' /\ Pending = calls \cup {c}
  BY TxFacts DEF RunNew
<1>2. Begins(t, c) /\ processed' = processed /\ task' = [task EXCEPT ![t] = "RUNNING"]
      /\ UNCHANGED <<wf, handled, again, stops>>
  BY <1>1 DEF RunNew, Begins, UpdateMatches, ScheduleAction, histVars
<1> HIDE DEF t, c
<1>3. LoadedIsCurrent' /\ OnePause' /\ CallsFit' /\ ActionsFit' /\ AllIsOwed'
  BY <1>1, <1>2, BeginsNext DEF t
<1>4. ChildrenFresh'
  BY <1>1, <1>2, BeginsFresh DEF t
<1>5. FollowedUp'
  <2> SUFFICES ASSUME stops = 0, again = {}
               PROVE  /\ \A u \in Task \ processed : task'[u] \in Completed => wf = "PAUSED"
                      /\ \A u \in processed : /\ task'[u] \in Completed
                                              /\ \A n \in Triggered(u, task'[u]) : task'[n] # "NONE"
                      /\ VerdictFits'
    BY <1>2 DEF FollowedUp
  <2>1. /\ \A u \in Task \ processed : task[u] \in Completed => wf = "PAUSED"
        /\ \A u \in processed : /\ task[u] \in Completed
                                /\ \A n \in Triggered(u, task[u]) : task[n] # "NONE"
        /\ VerdictFits
    BY DEF FollowedUp, AloneInv
  <2>2. /\ \A u \in Task : task'[u] = IF u = t THEN "RUNNING" ELSE task[u]
        /\ processed \subseteq Task
    BY <1>1, <1>2, OneMore, AloneTypes DEF AloneInv
  <2>3. wf \notin Completed
    BY <1>1, <2>1 DEF VerdictFits, Completed, t
  <2>4. t \notin processed
    BY <2>1 DEF Completed, t
  <2>5. ASSUME NEW u \in processed
        PROVE  task'[u] \in Completed /\ \A n \in Triggered(u, task'[u]) : task'[n] # "NONE"
    <3>1. u # t /\ task'[u] = task[u] /\ \A n \in Triggered(u, task[u]) : n \in Task
      BY <2>2, <2>4, Forest
    <3> QED
      BY <2>1, <2>2, <3>1
  <2> QED
    BY <1>2, <2>1, <2>2, <2>3, <2>5 DEF VerdictFits, Completed
<1> QED
  BY <1>3, <1>4, <1>5

\* and of one that resume found idle: the action is started, once more maybe,
LEMMA RunAgainNext ==
    ASSUME Alone, AloneInv, NEW x \in txs, RunExisting(x), task[x.call.task] # "SUCCESS"
    PROVE  /\ LoadedIsCurrent' /\ OnePause' /\ CallsFit' /\ ActionsFit' /\ AllIsOwed'
           /\ ChildrenFresh' /\ FollowedUp'
<1> DEFINE t == x.call.task
           c == x.call
<1>1. /\ t \in Task /\ c \in Pending /\ c.op = "start" /\ c.arg # 0 /\ x.seen[t] = task[t]
      /\ txs' = {} /\ Pending' = calls' /\ Pending = calls \cup {c} /\ t \in again
  BY TxFacts DEF RunExisting, Fits
<1>2. /\ Begins(t, c) /\ processed' \in {processed, processed \ {t}}
      /\ UNCHANGED <<wf, handled, again, stops>>
  BY <1>1 DEF RunExisting, Begins, UpdateMatches, ScheduleAction, histVars
<1> HIDE DEF t, c
<1>3. LoadedIsCurrent' /\ OnePause' /\ CallsFit' /\ ActionsFit' /\ AllIsOwed'
  BY <1>1, <1>2, BeginsNext
<1>4. ChildrenFresh'
  BY <1>1, <1>2, BeginsFresh DEF t
<1>5. FollowedUp'
  BY <1>1, <1>2 DEF FollowedUp
<1> QED
  BY <1>3, <1>4, <1>5

-----------------------------------------------------------------------------
(* A result comes: on_action_complete().                                     *)

\* What the result is of: an action that has none, of a task that has begun.
Ends(x) ==
    /\ x.call.op = "done" /\ x.call.task \in Task /\ task[x.call.task] \notin {"NONE", "IDLE"}
    /\ x.call.arg \in DOMAIN action[x.call.task]
    /\ x.call.res \in ActionEnd \cap Outcome[x.call.task]
    /\ \A u \in Task : /\ DOMAIN action'[u] = DOMAIN action[u]
                       /\ Len(action'[u]) = Len(action[u])
                       /\ u # x.call.task => action'[u] = action[u]
                       /\ \A k \in DOMAIN action[u] :
                             action'[u][k] = IF u = x.call.task /\ k = x.call.arg
                                             THEN x.call.res ELSE action[u][k]
    /\ txs' = {} /\ Pending' = calls' /\ Pending = calls \cup {x.call}
    /\ UNCHANGED <<wf, again, pauses, stops>>

\* on_action_complete() is such a step, with the completion of the task.
LEMMA EndsAre ==
    ASSUME Alone, AloneInv, NEW x \in txs, OnActionComplete(x)
    PROVE  Ends(x) /\ CompleteTask(x.call.task, x.call.res, task[x.call.task], wf)
<1> DEFINE t == x.call.task
           i == x.call.arg
           s == x.call.res
<1>1. /\ x.call.op = "done" /\ t \in Task /\ i \in DOMAIN action[t]
      /\ s \in ActionEnd /\ s \in Outcome[t] /\ x.seen[t] = task[t] /\ x.wf = wf
      /\ txs' = {} /\ Pending' = calls' /\ Pending = calls \cup {x.call}
      /\ action' = [action EXCEPT ![t][i] = s]
      /\ UNCHANGED <<wf, again, pauses, stops>>
  BY TxFacts, CallTypes DEF OnActionComplete, Fits, histVars
<1>2. action \in [Task -> Seq(ActionState)] /\ s \in ActionState
  BY <1>1, AloneTypes DEF AloneInv, ActionState, ActionEnd
<1>3. \A u \in Task : Len(action'[u]) = Len(action[u])
  BY <1>1, <1>2, ActionsKept DEF AloneInv
<1>4. /\ \A u \in Task : u # t => action'[u] = action[u]
      /\ action'[t] = [action[t] EXCEPT ![i] = s]
  BY <1>1, <1>2
<1>5. \A u \in Task : /\ DOMAIN action'[u] = DOMAIN action[u]
                      /\ \A k \in DOMAIN action[u] :
                            action'[u][k] = IF u = t /\ k = i THEN s ELSE action[u][k]
  BY <1>4
<1>6. task[t] \notin {"NONE", "IDLE"}
  BY <1>1 DEF AloneInv, ActionsFit
<1>7. CompleteTask(t, s, task[t], wf)
  BY <1>1 DEF OnActionComplete
<1> QED
  BY <1>1, <1>3, <1>4, <1>5, <1>6, <1>7 DEF Ends

\* The result of a task that has ended already changes its action only.
LEMMA EndsLateNext ==
    ASSUME Alone, AloneInv, NEW x \in txs, Ends(x), UNCHANGED <<task, processed, handled, calls>>,
           task[x.call.task] \in Completed
    PROVE  /\ LoadedIsCurrent' /\ OnePause' /\ CallsFit' /\ ActionsFit' /\ AllIsOwed'
           /\ ChildrenFresh' /\ FollowedUp'
<1>0. /\ OnePause /\ CallsFit /\ ActionsFit /\ AllIsOwed /\ ChildrenFresh /\ FollowedUp
      /\ Pending \subseteq GoodCalls /\ action \in [Task -> Seq(ActionState)]
  BY AloneTypes DEF AloneInv
<1>1. LoadedIsCurrent' /\ OnePause'
  BY <1>0 DEF Ends, LoadedIsCurrent, OnePause
<1>2. CallsFit'
  <2>1. ASSUME NEW d \in calls PROVE Fits(d)'
    <3>1. Fits(d) /\ (d.op \in {"start", "run", "done"} => d.task \in Task)
      BY <1>0, CallTypes DEF Ends, CallsFit
    <3> QED
      BY <3>1 DEF Ends, Fits
  <2> QED
    BY <2>1 DEF Ends, CallsFit
<1>3. ActionsFit'
  <2>1. \A u \in Task : task[u] \in {"NONE", "IDLE"} => u # x.call.task
    BY DEF Ends
  <2> QED
    BY <1>0, <2>1 DEF Ends, ActionsFit
<1>4. AllIsOwed'
  <2>1. \A u \in Task : StartComes(u) => StartComes(u)'
    BY DEF Ends, StartComes
  <2>2. ASSUME NEW u \in Task, NEW k \in DOMAIN action'[u], action'[u][k] = "RUNNING"
        PROVE  ResultComes(u, k)'
    <3>1. /\ k \in DOMAIN action[u] /\ ~(u = x.call.task /\ k = x.call.arg)
          /\ action[u][k] = "RUNNING"
      BY <2>2 DEF Ends, ActionEnd
    <3>2. ResultComes(u, k)
      BY <1>0, <3>1 DEF AllIsOwed
    <3> QED
      BY <3>1, <3>2 DEF Ends, ResultComes
  <2>3. \A u \in Task : task[u] = "RUNNING" => u # x.call.task
    BY DEF Completed
  <2>4. \A u \in Task : task[u] = "RUNNING" => \E k \in DOMAIN action'[u] : action'[u][k] = "RUNNING"
    BY <1>0, <2>3 DEF Ends, AllIsOwed
  <2>5. wf' = "RUNNING" => Active' \/ CheckComes'
    <3>1. (wf' = wf) /\ (Active' <=> Active) /\ (CheckComes => CheckComes')
      BY DEF Ends, Active, CheckComes, Checking
    <3> QED
      BY <1>0, <3>1 DEF AllIsOwed
  <2> QED
    BY <1>0, <2>1, <2>2, <2>4, <2>5 DEF AllIsOwed
<1>5. ChildrenFresh'
  <2>1. \A u \in Task : Reruns(u)' \subseteq Reruns(u)
    BY DEF Ends, Reruns
  <2> QED
    BY <1>0, <2>1 DEF ChildrenFresh, MayTrigger, NoneTriggered
<1>6. FollowedUp'
  BY <1>0 DEF Ends, FollowedUp, VerdictFits
<1> QED
  BY <1>1, <1>2, <1>3, <1>4, <1>5, <1>6

\* A task ends and triggers the tasks in run, or nothing while the workflow is paused.
EndsTask(t, s, run) ==
    /\ task[t] \notin Completed
    /\ run = IF wf \in Completed \cup {"PAUSED"} THEN {} ELSE Triggered(t, s)
    /\ \A u \in Task : task'[u] = IF u \in run THEN "IDLE" ELSE IF u = t THEN s ELSE task[u]
    /\ processed' = IF wf = "PAUSED" THEN processed ELSE processed \cup {t}
    /\ calls' = calls \cup {Start(n, 0) : n \in run}
                      \cup (IF run = {} /\ wf # "PAUSED" THEN {Check(t)} ELSE {})

\* Without joins and overlaps, Task.complete() does nothing or this.
LEMMA EndsCases ==
    ASSUME Alone, IInv, NEW t \in Task, NEW s \in ActionEnd, CompleteTask(t, s, task[t], wf)
    PROVE  \/ task[t] \in Completed /\ UNCHANGED <<task, processed, handled, calls>>
           \/ \E run : EndsTask(t, s, run)
<1> DEFINE cmds == IF wf \in Completed THEN {} ELSE Triggered(t, s)
           run  == IF wf = "PAUSED" THEN {} ELSE cmds
<1>1. CASE task[t] \in Completed
  BY <1>1, NoRequests DEF CompleteTask, taskVars
<1>2. CASE task[t] \notin Completed
  <2>1. /\ task' = Dispatched([task EXCEPT ![t] = s], run)
        /\ processed' = (IF wf = "PAUSED" THEN processed ELSE processed \cup {t})
        /\ calls' = calls \cup StartNew(run) \cup Requests(t, task', wf)
                          \cup IF cmds = {} /\ wf # "PAUSED" THEN {Check(t)} ELSE {}
    BY <1>2 DEF CompleteTask, UpdateMatches
  <2>2. task \in [Task -> TaskState]
    BY AloneTypes
  <2>3. \A u \in Task : [task EXCEPT ![t] = s][u] = IF u = t THEN s ELSE task[u]
    BY <2>2
  <2>4. \A u \in Task : task'[u] = IF u \in run THEN "IDLE" ELSE IF u = t THEN s ELSE task[u]
    <3> DEFINE done == [task EXCEPT ![t] = s]
    <3>1. task' = Dispatched(done, run) /\ \A u \in Task : done[u] = IF u = t THEN s ELSE task[u]
      BY <2>1, <2>3
    <3> HIDE DEF done, run
    <3>2. \A u \in Task : Dispatched(done, run)[u] = IF u \in run THEN "IDLE" ELSE done[u]
      BY DispatchedAlone
    <3> QED
      BY <3>1, <3>2
  <2>5. StartNew(run) = {Start(n, 0) : n \in run} /\ Requests(t, task', wf) = {}
    <3>1. PICK u \in Task : TRUE
      OBVIOUS
    <3> QED
      BY <3>1, NoRequests, DispatchedAlone
  <2>6. run = IF wf \in Completed \cup {"PAUSED"} THEN {} ELSE Triggered(t, s)
    OBVIOUS
  <2>7. wf # "PAUSED" => run = cmds
    OBVIOUS
  <2> HIDE DEF run, cmds
  <2>8. EndsTask(t, s, run)
    BY <1>2, <2>1, <2>4, <2>5, <2>6, <2>7 DEF EndsTask
  <2> QED
    BY <2>8
<1> QED
  BY <1>1, <1>2

\* What it triggers had no execution, gets one and a start, or is left to resume.
LEMMA EndsTaskNext ==
    ASSUME Alone, AloneInv, NEW x \in txs, Ends(x),
           NEW run, EndsTask(x.call.task, x.call.res, run)
    PROVE  /\ LoadedIsCurrent' /\ OnePause' /\ CallsFit' /\ ActionsFit' /\ AllIsOwed'
           /\ ChildrenFresh' /\ FollowedUp'
<1> DEFINE t == x.call.task
           s == x.call.res
           i == x.call.arg
<1>0. /\ OnePause /\ CallsFit /\ ActionsFit /\ AllIsOwed /\ ChildrenFresh /\ FollowedUp
      /\ Pending \subseteq GoodCalls /\ processed \subseteq Task /\ again \subseteq Task
      /\ pauses \in Nat /\ MaxPause \in Nat
      /\ task \in [Task -> TaskState]
  BY AloneTypes, EngineAssumption DEF AloneInv
<1>1. /\ t \in Task /\ task[t] \notin Completed \cup {"NONE", "IDLE"}
      /\ s \in ActionEnd /\ s \in Outcome[t] /\ i \in DOMAIN action[t]
      /\ x.call.op = "done"
      /\ \A u \in Task : /\ DOMAIN action'[u] = DOMAIN action[u]
                         /\ Len(action'[u]) = Len(action[u])
                         /\ u # t => action'[u] = action[u]
                         /\ \A k \in DOMAIN action[u] :
                               action'[u][k] = IF u = t /\ k = i THEN s ELSE action[u][k]
      /\ txs' = {} /\ Pending' = calls' /\ Pending = calls \cup {x.call}
      /\ UNCHANGED <<wf, again, pauses, stops>>
  BY DEF Ends, EndsTask
<1>2. /\ run = IF wf \in Completed \cup {"PAUSED"} THEN {} ELSE Triggered(t, s)
      /\ \A u \in Task : task'[u] = IF u \in run THEN "IDLE" ELSE IF u = t THEN s ELSE task[u]
      /\ processed' = IF wf = "PAUSED" THEN processed ELSE processed \cup {t}
      /\ calls' = calls \cup {Start(n, 0) : n \in run}
                        \cup (IF run = {} /\ wf # "PAUSED" THEN {Check(t)} ELSE {})
  BY DEF EndsTask
<1> HIDE DEF t, s, i
<1>3. /\ run \subseteq Out(t) /\ run \subseteq Task /\ t \notin run
      /\ \A n \in run : task[n] = "NONE"
  BY <1>0, <1>1, <1>2, Forest DEF ChildrenFresh, MayTrigger, NoneTriggered
<1>4. s \in {"SUCCESS", "ERROR", "CANCELLED"}
  BY <1>1 DEF ActionEnd
<1>5. \A n : /\ Start(n, 0).op = "start" /\ Start(n, 0).task = n
             /\ Start(n, 0).arg = 0 /\ Start(n, 0).res = "NONE"
  BY DEF Start, Call
<1>6. Check(t).op = "check"
  BY DEF Check, Call
<1>7. \A d \in calls' : \/ d \in calls \/ d.op = "check"
                        \/ \E n \in run : d = Start(n, 0)
  BY <1>2, <1>6
<1>8. calls \subseteq calls'
  BY <1>2
<1>9. LoadedIsCurrent' /\ OnePause'
  BY <1>0, <1>1 DEF LoadedIsCurrent, OnePause
<1>10. CallsFit'
  <2>1. ASSUME NEW d \in calls PROVE Fits(d)'
    <3>1. Fits(d) /\ (d.op \in {"start", "run", "done"} => d.task \in Task)
      BY <1>0, <1>1, CallTypes DEF CallsFit
    <3> QED
      BY <1>1, <1>2, <1>4, <3>1 DEF Fits
  <2>2. ASSUME NEW n \in run PROVE Fits(Start(n, 0))'
    BY <1>2, <1>3, <1>5, <2>2 DEF Fits
  <2>3. \A d : d.op = "check" => Fits(d)'
    BY DEF Fits
  <2> QED
    BY <1>1, <1>7, <2>1, <2>2, <2>3 DEF CallsFit
<1>11. ActionsFit'
  <2>1. ASSUME NEW u \in Task
        PROVE  /\ task'[u] # "WAITING"
               /\ task'[u] \in {"NONE", "IDLE"} => action'[u] = <<>>
    <3>1. /\ task[u] # "WAITING"
          /\ task[u] \in {"NONE", "IDLE"} => action[u] = <<>>
      BY <1>0 DEF ActionsFit
    <3>2. CASE u = t
      BY <1>2, <1>3, <1>4, <3>2
    <3>3. CASE u # t
      BY <1>1, <1>2, <1>3, <3>1, <3>3
    <3> QED
      BY <3>2, <3>3
  <2> QED
    BY <1>0, <1>1, <2>1 DEF ActionsFit
<1>12. AllIsOwed'
  <2>1. ASSUME NEW u \in Task, task'[u] = "IDLE" PROVE StartComes(u)'
    <3>1. CASE u \in run
      <4>1. Start(u, 0) \in Pending'
        BY <1>1, <1>2, <3>1
      <4> QED
        BY <1>5, <4>1 DEF StartComes
    <3>2. CASE u \notin run
      <4>1. StartComes(u)
        BY <1>0, <1>2, <1>4, <2>1, <3>2 DEF AllIsOwed
      <4> QED
        BY <1>1, <1>8, <4>1 DEF StartComes
    <3> QED
      BY <3>1, <3>2
  <2>2. ASSUME NEW u \in Task, NEW k \in DOMAIN action'[u], action'[u][k] = "RUNNING"
        PROVE  ResultComes(u, k)'
    <3>1. k \in DOMAIN action[u] /\ ~(u = t /\ k = i) /\ action[u][k] = "RUNNING"
      BY <1>1, <1>4, <2>2
    <3>2. ResultComes(u, k)
      BY <1>0, <3>1 DEF AllIsOwed
    <3> QED
      BY <1>1, <1>8, <3>1, <3>2 DEF ResultComes, t, i
  <2>3. ASSUME NEW u \in Task, task'[u] = "RUNNING"
        PROVE  \E k \in DOMAIN action'[u] : action'[u][k] = "RUNNING"
    <3>1. u # t /\ task[u] = "RUNNING"
      BY <1>2, <1>3, <1>4, <2>3
    <3> QED
      BY <1>0, <1>1, <3>1 DEF AllIsOwed
  <2>4. ASSUME wf' = "RUNNING" PROVE Active' \/ CheckComes'
    <3>1. CASE run = {}
      <4>1. Check(t) \in calls'
        BY <1>1, <1>2, <2>4, <3>1
      <4> QED
        BY <1>6, <4>1 DEF CheckComes, Checking, Pending
    <3>2. CASE run # {}
      BY <1>2, <1>3, <3>2 DEF Active
    <3> QED
      BY <3>1, <3>2
  <2> QED
    BY <2>1, <2>2, <2>3, <2>4 DEF AllIsOwed
<1>13. ChildrenFresh'
  <2>1. ASSUME NEW u \in Task PROVE Reruns(u)' \subseteq Reruns(u)
    BY <1>1, <1>5, <1>7 DEF Reruns
  <2>2. ASSUME NEW u \in Task, u # t, MayTrigger(u)' PROVE NoneTriggered(u)'
    <3>1. MayTrigger(u)
      <4>1. CASE u \in run
        BY <1>3, <4>1 DEF MayTrigger, Completed
      <4>2. CASE u \notin run
        BY <1>2, <2>1, <2>2, <4>2 DEF MayTrigger
      <4> QED
        BY <4>1, <4>2
    <3>2. NoneTriggered(u)
      BY <1>0, <3>1 DEF ChildrenFresh
    <3>3. \A n \in Out(u) : n \in Task /\ n \notin run /\ n # t
      BY <1>1, <1>3, <2>2, <3>2, Forest DEF NoneTriggered
    <3> QED
      BY <1>2, <3>2, <3>3 DEF NoneTriggered
  <2>3. MayTrigger(t)' => run = {}
    <3>1. CASE t \notin processed'
      BY <1>2, <3>1
    <3>2. CASE Reruns(t)' # {} /\ task'[t] # "SUCCESS"
      <4>1. t \in again /\ s # "SUCCESS"
        BY <1>0, <1>2, <1>3, <2>1, <3>2, <1>1 DEF Reruns, CallsFit, Fits
      <4>2. MaxPause > 0
        BY <1>0, <4>1 DEF OnePause
      <4> QED
        BY <1>1, <1>2, <4>1, <4>2, FailuresEnd
    <3>3. task'[t] \in Completed
      BY <1>1, <1>2, <1>3, <1>4 DEF Completed
    <3> QED
      BY <3>1, <3>2, <3>3 DEF MayTrigger
  <2>4. run = {} => NoneTriggered(t)'
    <3>1. NoneTriggered(t) /\ \A n \in Out(t) : n \in Task /\ n # t
      BY <1>0, <1>1, Forest DEF ChildrenFresh, MayTrigger
    <3> QED
      BY <1>2, <3>1 DEF NoneTriggered
  <2> QED
    BY <2>2, <2>3, <2>4 DEF ChildrenFresh
<1>14. FollowedUp'
  <2> SUFFICES ASSUME stops = 0, again = {}
               PROVE  /\ \A u \in Task \ processed' : task'[u] \in Completed => wf = "PAUSED"
                      /\ \A u \in processed' : /\ task'[u] \in Completed
                                               /\ \A n \in Triggered(u, task'[u]) : task'[n] # "NONE"
                      /\ VerdictFits'
    BY <1>1 DEF FollowedUp
  <2>1. /\ \A u \in Task \ processed : task[u] \in Completed => wf = "PAUSED"
        /\ \A u \in processed : /\ task[u] \in Completed
                                /\ \A n \in Triggered(u, task[u]) : task[n] # "NONE"
        /\ VerdictFits
    BY <1>0 DEF FollowedUp
  <2>2. wf \notin Completed /\ VerdictFits'
    BY <1>1, <2>1 DEF VerdictFits, Completed
  <2>3. ASSUME NEW u \in Task \ processed', task'[u] \in Completed PROVE wf = "PAUSED"
    <3>1. CASE u = t
      BY <1>2, <2>3, <3>1
    <3>2. CASE u # t
      BY <1>2, <2>1, <2>3, <3>2 DEF Completed
    <3> QED
      BY <3>1, <3>2
  <2>4. ASSUME NEW u \in processed'
        PROVE  task'[u] \in Completed /\ \A n \in Triggered(u, task'[u]) : task'[n] # "NONE"
    <3>1. CASE u \in processed
      <4>1. u \in Task /\ u # t /\ u \notin run /\ task'[u] = task[u]
        BY <1>0, <1>1, <1>2, <1>3, <2>1, <3>1 DEF Completed
      <4>2. \A n \in Triggered(u, task[u]) : n \in Task
        BY <4>1, Forest
      <4> QED
        BY <1>2, <1>4, <2>1, <3>1, <4>1, <4>2
    <3>2. CASE u \notin processed
      <4>1. u = t /\ wf # "PAUSED" /\ run = Triggered(t, s) /\ task'[t] = s
        BY <1>1, <1>2, <1>3, <2>2, <2>4, <3>2
      <4> QED
        BY <1>2, <1>3, <1>4, <4>1 DEF Completed
    <3> QED
      BY <3>1, <3>2
  <2> QED
    BY <2>2, <2>3, <2>4
<1> QED
  BY <1>9, <1>10, <1>11, <1>12, <1>13, <1>14

-----------------------------------------------------------------------------
(* Resume, and the start of the workflow.                                    *)

\* Resume starts what the unprocessed tasks trigger and, once more, what is idle.
Resumes(run, idle) ==
    /\ wf = "PAUSED" /\ pauses = 1 /\ again = {}
    /\ run = UNION {Triggered(t, task[t]) : t \in Unprocessed}
    /\ idle = {t \in Task : task[t] = "IDLE"}
    /\ processed' = processed \cup Unprocessed
    /\ wf' = IF run \cup idle = {} THEN Verdict(task, handled) ELSE "RUNNING"
    /\ \A u \in Task : task'[u] = IF u \in run THEN "IDLE" ELSE task[u]
    /\ run = {} => task' = task
    /\ calls' = calls \cup {Start(n, 0) : n \in run} \cup {Start(t, 1) : t \in idle}
    /\ again' = idle
    /\ txs' = {} /\ Pending' = calls'
    /\ \A d \in Pending : d \in calls \/ d.op = "resume"
    /\ calls \subseteq Pending
    /\ UNCHANGED <<handled, action, pauses, stops>>

\* resume_workflow() is such a step,
LEMMA ResumesIs ==
    ASSUME Alone, AloneInv, NEW x \in txs, Resume(x)
    PROVE  \E run, idle : Resumes(run, idle)
<1> DEFINE run  == UNION {Triggered(t, x.seen[t]) : t \in DOMAIN x.seen}
           idle == {t \in Task : task[t] = "IDLE"}
<1>1. /\ x.call.op = "resume" /\ x.wf = "PAUSED" /\ wf = "PAUSED"
      /\ txs' = {} /\ Pending' = calls' /\ Pending = calls \cup {x.call}
      /\ DOMAIN x.seen = Unprocessed /\ x.call.arg = pauses
      /\ \A t \in Unprocessed : x.seen[t] = task[t]
  BY TxFacts DEF Resume, GoodTxs, WellLoaded, AloneInv, LoadedIsCurrent
<1>2. again = {} /\ pauses = 1
  <2>1. again = {} /\ pauses # 0 /\ pauses <= MaxPause
    BY <1>1 DEF AloneInv, OnePause
  <2>2. pauses \in Nat /\ MaxPause \in 0..1
    BY AloneTypes, EngineAssumption DEF AloneInv
  <2> QED
    BY <2>1, <2>2
<1>3. run = UNION {Triggered(t, task[t]) : t \in Unprocessed}
  BY <1>1
<1>4. /\ processed' = processed \cup Unprocessed
      /\ wf' = AfterResume(run \cup idle)
      /\ task' = Dispatched(task, run)
      /\ calls' = calls \cup StartNew(run) \cup {Start(t, x.call.arg) : t \in idle}
      /\ again' = again \cup idle
      /\ UNCHANGED <<handled, action, pauses, stops>>
  BY <1>1 DEF Resume, WfMatches
<1> HIDE DEF run, idle
<1>5. \A u \in Task : task'[u] = IF u \in run THEN "IDLE" ELSE task[u]
  BY <1>4, DispatchedAlone
<1>6. run = {} => task' = task
  <2>1. task \in [Task -> TaskState]
    BY AloneTypes DEF AloneInv
  <2> QED
    BY <1>4, <2>1 DEF Dispatched
<1>7. StartNew(run) = {Start(n, 0) : n \in run}
  BY DEF StartNew, Alone
<1>8. wf' = IF run \cup idle = {} THEN Verdict(task, handled) ELSE "RUNNING"
  BY <1>4 DEF AfterResume
<1>9. Resumes(run, idle)
  BY <1>1, <1>2, <1>3, <1>4, <1>5, <1>6, <1>7, <1>8 DEF Resumes, idle
<1> QED
  BY <1>9

\* after which everything that ended is followed up.
LEMMA ResumesNext ==
    ASSUME Alone, AloneInv, NEW run, NEW idle, Resumes(run, idle)
    PROVE  /\ LoadedIsCurrent' /\ OnePause' /\ CallsFit' /\ ActionsFit' /\ AllIsOwed'
           /\ ChildrenFresh' /\ FollowedUp'
<1>0. /\ OnePause /\ CallsFit /\ ActionsFit /\ AllIsOwed /\ ChildrenFresh /\ FollowedUp
      /\ Pending \subseteq GoodCalls /\ processed \subseteq Task /\ IInv
      /\ task \in [Task -> TaskState]
  BY AloneTypes DEF AloneInv
<1>1. /\ wf = "PAUSED" /\ pauses = 1 /\ again = {}
      /\ run = UNION {Triggered(t, task[t]) : t \in Unprocessed}
      /\ idle = {t \in Task : task[t] = "IDLE"}
      /\ processed' = processed \cup Unprocessed
      /\ wf' = IF run \cup idle = {} THEN Verdict(task, handled) ELSE "RUNNING"
      /\ \A u \in Task : task'[u] = IF u \in run THEN "IDLE" ELSE task[u]
      /\ run = {} => task' = task
      /\ calls' = calls \cup {Start(n, 0) : n \in run} \cup {Start(t, 1) : t \in idle}
      /\ again' = idle
      /\ txs' = {} /\ Pending' = calls'
      /\ \A d \in Pending : d \in calls \/ d.op = "resume"
      /\ calls \subseteq Pending
      /\ UNCHANGED <<handled, action, pauses, stops>>
  BY DEF Resumes
<1>2. \A n \in run : \E t \in Unprocessed : n \in Triggered(t, task[t])
  BY <1>1
<1>3. \A t \in Unprocessed : t \in Task /\ task[t] \in Completed /\ t \notin processed
  BY DEF Unprocessed
<1>4. ASSUME NEW n \in run PROVE n \in Task /\ task[n] = "NONE"
  <2>1. PICK t \in Unprocessed : n \in Triggered(t, task[t])
    BY <1>2
  <2>2. t \in Task /\ n \in Out(t) /\ n \in Task
    BY <1>3, <2>1, Forest
  <2>3. NoneTriggered(t)
    BY <1>0, <1>3 DEF ChildrenFresh, MayTrigger
  <2> QED
    BY <2>2, <2>3 DEF NoneTriggered
<1>5. \A n, k : /\ Start(n, k).op = "start" /\ Start(n, k).task = n
                /\ Start(n, k).arg = k /\ Start(n, k).res = "NONE"
  BY DEF Start, Call
<1>6. \A d \in calls' : \/ d \in calls
                        \/ \E n \in run : d = Start(n, 0)
                        \/ \E t \in idle : d = Start(t, 1)
  BY <1>1
<1>7. wf' \in {"RUNNING"} \cup Completed
  BY <1>1, VerdictState
<1>8. LoadedIsCurrent' /\ OnePause'
  BY <1>0, <1>1, <1>7 DEF LoadedIsCurrent, OnePause, Completed
<1>9. CallsFit'
  <2>1. ASSUME NEW d \in calls PROVE Fits(d)'
    <3>1. Fits(d) /\ (d.op \in {"start", "run", "done"} => d.task \in Task)
      BY <1>0, <1>1, CallTypes DEF CallsFit
    <3> QED
      BY <1>1, <3>1 DEF Fits
  <2>2. ASSUME NEW n \in run PROVE Fits(Start(n, 0))'
    BY <1>1, <1>4, <1>5, <2>2 DEF Fits
  <2>3. ASSUME NEW t \in idle PROVE Fits(Start(t, 1))'
    <3>1. t \in Task /\ task'[t] = "IDLE"
      BY <1>1, <2>3
    <3> QED
      BY <1>1, <1>5, <2>3, <3>1 DEF Fits
  <2> QED
    BY <1>1, <1>6, <2>1, <2>2, <2>3 DEF CallsFit
<1>10. ActionsFit'
  BY <1>0, <1>1, <1>4 DEF ActionsFit
<1>11. AllIsOwed'
  <2>1. ASSUME NEW u \in Task, task'[u] = "IDLE" PROVE StartComes(u)'
    <3>1. CASE u \in run
      <4>1. Start(u, 0) \in Pending'
        BY <1>1, <3>1
      <4> QED
        BY <1>5, <4>1 DEF StartComes
    <3>2. CASE u \notin run
      <4>1. StartComes(u)
        BY <1>0, <1>1, <2>1, <3>2 DEF AllIsOwed
      <4> QED
        BY <1>1, <4>1 DEF StartComes
    <3> QED
      BY <3>1, <3>2
  <2>2. ASSUME NEW u \in Task, NEW k \in DOMAIN action[u], action[u][k] = "RUNNING"
        PROVE  ResultComes(u, k)'
    BY <1>0, <1>1, <2>2 DEF AllIsOwed, ResultComes
  <2>3. ASSUME NEW u \in Task, task'[u] = "RUNNING"
        PROVE  \E k \in DOMAIN action[u] : action[u][k] = "RUNNING"
    BY <1>0, <1>1, <2>3 DEF AllIsOwed
  <2>4. ASSUME wf' = "RUNNING" PROVE Active'
    <3>1. CASE run \cup idle = {}
      <4>1. Active
        BY <1>0, <1>1, <2>4, <3>1, VerdictIsRight
      <4> QED
        BY <1>1, <3>1, <4>1 DEF Active
    <3>2. CASE run # {}
      BY <1>1, <1>4, <3>2 DEF Active
    <3>3. CASE idle # {}
      BY <1>1, <3>3 DEF Active
    <3> QED
      BY <3>1, <3>2, <3>3
  <2> QED
    BY <1>1, <2>1, <2>2, <2>3, <2>4 DEF AllIsOwed
<1>12. ChildrenFresh'
  <2>1. ASSUME NEW u \in Task, MayTrigger(u)' PROVE task[u] \notin Completed
    <3>1. CASE task'[u] \notin Completed
      BY <1>1, <1>4, <3>1 DEF Completed
    <3>2. CASE u \notin processed'
      BY <1>1, <3>2 DEF Unprocessed
    <3>3. ASSUME NEW d \in Reruns(u)' PROVE task[u] \notin Completed
      <4>1. d \in calls' /\ d.op = "start" /\ d.task = u /\ d.arg # 0
        BY <1>1, <3>3 DEF Reruns
      <4>2. d \notin calls
        BY <1>0, <1>1, <4>1 DEF CallsFit, Fits
      <4>3. u \in idle
        BY <1>5, <1>6, <4>1, <4>2
      <4> QED
        BY <1>1, <4>3 DEF Completed
    <3> QED
      BY <2>1, <3>1, <3>2, <3>3 DEF MayTrigger
  <2>2. ASSUME NEW u \in Task, task[u] \notin Completed PROVE NoneTriggered(u)'
    <3>1. NoneTriggered(u)
      BY <1>0, <2>2 DEF ChildrenFresh, MayTrigger
    <3>2. ASSUME NEW n \in Out(u) PROVE n \in Task /\ n \notin run
      <4>1. n \in Task
        BY Forest
      <4>2. ASSUME n \in run PROVE FALSE
        <5>1. PICK t \in Unprocessed : n \in Triggered(t, task[t])
          BY <1>2, <4>2
        <5>2. t \in Task /\ n \in Out(t) /\ task[t] \in Completed
          BY <1>3, <5>1, Forest
        <5>3. t = u
          BY <5>2, Forest
        <5> QED
          BY <2>2, <5>2, <5>3
      <4> QED
        BY <4>1, <4>2
    <3> QED
      BY <1>1, <3>1, <3>2 DEF NoneTriggered
  <2> QED
    BY <2>1, <2>2 DEF ChildrenFresh
<1>13. FollowedUp'
  <2> SUFFICES ASSUME stops = 0, idle = {}
               PROVE  /\ \A u \in Task \ processed' : task'[u] \notin Completed
                      /\ \A u \in processed' : /\ task'[u] \in Completed
                                               /\ \A n \in Triggered(u, task'[u]) : task'[n] # "NONE"
                      /\ VerdictFits'
    BY <1>1 DEF FollowedUp
  <2>1. /\ \A u \in processed : /\ task[u] \in Completed
                                /\ \A n \in Triggered(u, task[u]) : task[n] # "NONE"
        /\ VerdictFits
    BY <1>0, <1>1 DEF FollowedUp
  <2>2. \A u \in Task \ processed' : task'[u] \notin Completed
    BY <1>1, <1>4 DEF Unprocessed, Completed
  <2>3. ASSUME NEW u \in processed'
        PROVE  task'[u] \in Completed /\ \A n \in Triggered(u, task'[u]) : task'[n] # "NONE"
    <3>1. u \in Task /\ task[u] \in Completed
      BY <1>0, <1>1, <1>3, <2>1, <2>3
    <3>2. task'[u] = task[u]
      BY <1>1, <1>4, <3>1 DEF Completed
    <3>3. ASSUME NEW n \in Triggered(u, task[u]) PROVE task'[n] # "NONE"
      <4>1. n \in Task
        BY <3>1, Forest
      <4>2. n \in run \/ task[n] # "NONE"
        BY <1>1, <2>1, <2>3
      <4> QED
        BY <1>1, <4>1, <4>2
    <3> QED
      BY <3>1, <3>2, <3>3
  <2>4. VerdictFits'
    <3>1. CASE run = {}
      BY <1>0, <1>1, <3>1, VerdictIsRight
    <3>2. CASE run # {}
      BY <1>1, <3>2 DEF VerdictFits, Completed
    <3> QED
      BY <3>1, <3>2
  <2> QED
    BY <2>2, <2>3, <2>4
<1> QED
  BY <1>8, <1>9, <1>10, <1>11, <1>12, <1>13

\* start_workflow(): there is a task without inbound tasks.
LEMMA StartsNext ==
    ASSUME Alone, AloneInv, StartWorkflow
    PROVE  /\ LoadedIsCurrent' /\ OnePause' /\ CallsFit' /\ ActionsFit' /\ AllIsOwed'
           /\ ChildrenFresh' /\ FollowedUp'
<1> DEFINE first == {t \in Task : In(t) = {}}
<1>0. /\ OnePause /\ ActionsFit /\ FollowedUp /\ processed \subseteq Task
  BY AloneTypes DEF AloneInv
<1>1. /\ wf = "NONE" /\ calls = {} /\ txs = {} /\ \A u \in Task : task[u] = "NONE"
  BY DEF StartWorkflow, AloneInv, NothingBeforeStart
<1>2. /\ wf' = "RUNNING" /\ calls' = {Start(n, 0) : n \in first} /\ txs' = {}
      /\ task' = Dispatched(task, first)
      /\ UNCHANGED <<processed, handled, action, again, pauses, stops>>
  BY <1>1 DEF StartWorkflow, StartNew, Alone, histVars
<1>3. first \subseteq Task /\ \A t \in Task : t \in first <=> In(t) = {}
  OBVIOUS
<1> HIDE DEF first
<1>4. \A u \in Task : task'[u] = IF u \in first THEN "IDLE" ELSE "NONE"
  BY <1>1, <1>2, DispatchedAlone
<1>5. first # {}
  <2>1. PICK level : IsLevel(level)
    BY EngineAssumption DEF IsLevel
  <2>2. PICK t \in Task : \A v \in Task : level[t] <= level[v]
    BY <2>1, LowestTask, EngineAssumption
  <2>3. ASSUME NEW v \in In(t) PROVE FALSE
    <3>1. v \in Task /\ level[v] < level[t] /\ level[t] <= level[v]
      BY <2>1, <2>2 DEF In, IsLevel
    <3>2. level[v] \in Int /\ level[t] \in Int
      BY <2>1, <3>1, EngineAssumption, FS_CardinalityType DEF IsLevel
    <3> QED
      BY <3>1, <3>2
  <2> QED
    BY <1>3, <2>3
<1>6. \A u \in Task : action[u] = <<>> /\ DOMAIN action[u] = {}
  BY <1>0, <1>1 DEF ActionsFit
<1>7. \A n : /\ Start(n, 0).op = "start" /\ Start(n, 0).task = n
             /\ Start(n, 0).arg = 0 /\ Start(n, 0).res = "NONE"
  BY DEF Start, Call
<1>8. Pending' = calls'
  BY <1>2 DEF Pending
<1>9. LoadedIsCurrent' /\ OnePause'
  BY <1>0, <1>2 DEF LoadedIsCurrent, OnePause
<1>10. CallsFit'
  <2>1. ASSUME NEW n \in first PROVE Fits(Start(n, 0))'
    BY <1>3, <1>4, <1>7, <2>1 DEF Fits
  <2> QED
    BY <1>2, <1>8, <2>1 DEF CallsFit
<1>11. ActionsFit'
  BY <1>0, <1>2, <1>4, <1>6 DEF ActionsFit
<1>12. AllIsOwed'
  <2>1. ASSUME NEW u \in Task, task'[u] = "IDLE" PROVE StartComes(u)'
    <3>1. Start(u, 0) \in Pending'
      BY <1>2, <1>4, <1>8, <2>1
    <3> QED
      BY <1>7, <3>1 DEF StartComes
  <2>2. Active'
    BY <1>3, <1>4, <1>5 DEF Active
  <2> QED
    BY <1>2, <1>4, <1>6, <2>1, <2>2 DEF AllIsOwed
<1>13. ChildrenFresh'
  <2>1. ASSUME NEW u \in Task, NEW n \in Out(u) PROVE task'[n] = "NONE"
    <3>1. n \in Task /\ u \in In(n)
      BY Forest DEF In
    <3> QED
      BY <1>3, <1>4, <3>1
  <2> QED
    BY <2>1 DEF ChildrenFresh, NoneTriggered
<1>14. FollowedUp'
  <2>1. stops = 0 /\ again = {} => processed = {}
    BY <1>0, <1>1 DEF FollowedUp, Completed
  <2>2. VerdictFits'
    BY <1>2 DEF VerdictFits, Completed
  <2> QED
    BY <1>2, <1>4, <2>1, <2>2 DEF FollowedUp, Completed
<1> QED
  BY <1>9, <1>10, <1>11, <1>12, <1>13, <1>14

\* Before the start nothing happens, and there is no way back.
LEMMA NothingBeforeAlone ==
    ASSUME Alone, AloneInv, [Next]_vars
    PROVE  NothingBeforeStart'
<1>0. /\ IInv /\ NothingBeforeStart /\ ActionsFit /\ jobs = {}
      /\ \A x \in txs : x \in GoodTxs
  BY AloneTypes DEF AloneInv
<1>1. CASE wf = "NONE"
  <2>1. calls = {} /\ txs = {} /\ \A t \in Task : DOMAIN action[t] = {}
    BY <1>0, <1>1 DEF NothingBeforeStart, ActionsFit
  <2>2. wf' = "RUNNING" \/ UNCHANGED vars
    BY <1>0, <1>1, <2>1 DEF Next, SystemStep, OperatorStep, StartWorkflow, BeginRefresh,
       BeginPause, BeginResume, BeginStop
  <2> QED
    BY <1>0, <2>2 DEF NothingBeforeStart, vars, taskVars
<1>2. CASE wf # "NONE"
  <2>1. ASSUME NEW c \in calls, Handle(c) PROVE wf' # "NONE"
    BY <1>2, <2>1, VerdictState DEF Handle, BeginStart, Execute, BeginDone, BeginCheck,
       ScheduleRefresh, Completed
  <2>2. ASSUME NEW x \in txs, Commit(x) PROVE wf' # "NONE"
    <3>1. CheckStage(x) => wf' # "NONE"
      BY <1>0, <1>2, CheckStep DEF CheckStage, CheckEffect, Completed
    <3> QED
      BY <1>0, <1>2, <2>2, <3>1, VerdictState
      DEF Commit, RunNew, RunExisting, OnActionComplete, RefreshTaskState, CheckStage, Pause,
          Resume, Stop, AfterResume, Completed, ActionEnd, GoodTxs, WellFormed
  <2>3. ASSUME NEW j \in Join, BeginRefresh(j) PROVE wf' # "NONE"
    BY <1>2, <2>3 DEF BeginRefresh
  <2>4. OperatorStep => wf' # "NONE"
    BY <1>2 DEF OperatorStep, StartWorkflow, BeginPause, BeginResume, BeginStop, ReportResult
  <2>5. UNCHANGED vars => wf' # "NONE"
    BY <1>2 DEF vars
  <2>6. wf' # "NONE"
    BY <2>1, <2>2, <2>3, <2>4, <2>5 DEF Next, SystemStep
  <2> QED
    BY <2>6 DEF NothingBeforeStart
<1> QED
  BY <1>1, <1>2

-----------------------------------------------------------------------------
(* The theorems.                                                             *)

\* Before the workflow starts the invariant holds.
LEMMA AloneInit == Init => AloneInv
<1> SUFFICES ASSUME Init PROVE AloneInv
  OBVIOUS
<1>1. /\ wf = "NONE" /\ task = [t \in Task |-> "NONE"] /\ processed = {}
      /\ action = [t \in Task |-> <<>>] /\ calls = {} /\ txs = {} /\ jobs = {}
      /\ again = {} /\ pauses = 0
  BY DEF Init
<1>2. \A t \in Task : task[t] = "NONE" /\ action[t] = <<>> /\ Len(action[t]) <= 1
  <2>1. Len(<<>>) = 0
    OBVIOUS
  <2> QED
    BY <1>1, <2>1
<1>3. MaxPause \in 0..1 /\ \A t \in Task : Out(t) \subseteq Task
  BY EngineAssumption DEF Out
<1>4. Pending = {}
  BY <1>1 DEF Pending
<1>5. IInv
  BY InitEstablishes
<1>6. NothingBeforeStart /\ LoadedIsCurrent /\ OnePause /\ CallsFit
  BY <1>1, <1>3, <1>4 DEF NothingBeforeStart, LoadedIsCurrent, OnePause, CallsFit
<1>7. ActionsFit /\ ChildrenFresh /\ AllIsOwed
  BY <1>1, <1>2, <1>3 DEF ActionsFit, ChildrenFresh, NoneTriggered, AllIsOwed
<1>8. FollowedUp
  BY <1>1, <1>2 DEF FollowedUp, VerdictFits, Completed
<1> QED
  BY <1>5, <1>6, <1>7, <1>8 DEF AloneInv

\* Every step keeps it.
LEMMA AloneNext ==
    ASSUME Alone, AloneInv, [Next]_vars
    PROVE  AloneInv'
<1> DEFINE Goal == /\ LoadedIsCurrent' /\ OnePause' /\ CallsFit' /\ ActionsFit' /\ AllIsOwed'
                   /\ ChildrenFresh' /\ FollowedUp'
<1>1. ASSUME NEW c \in calls, Handle(c) PROVE Goal
  <2>1. c.op # "request"
    BY AloneTypes DEF AloneInv, Pending
  <2>2. CASE BeginStart(c) \/ BeginDone(c)
    BY <2>2, BeginsAre, CalmNext
  <2>3. CASE Execute(c)
    BY <2>3, ResultsAre, CalmNext
  <2>4. CASE BeginCheck(c)
    BY <2>4, BeginsToCheck, CalmNext
  <2> QED
    BY <1>1, <2>1, <2>2, <2>3, <2>4 DEF Handle, ScheduleRefresh
<1>2. ASSUME NEW x \in txs, Commit(x) PROVE Goal
  <2>1. /\ x.call.op # "refresh"
        /\ x.call.op = "start" => x.seen[x.call.task] = task[x.call.task]
    BY AloneTypes, TxFacts DEF AloneInv, Pending
  <2>2. CASE RunNew(x)
    BY <2>2, RunNewNext, StartsLateAre, CalmNext
  <2>3. CASE RunExisting(x)
    BY <2>3, RunAgainNext, StartsLateAre, CalmNext
  <2>4. CASE OnActionComplete(x)
    <3>1. Ends(x) /\ CompleteTask(x.call.task, x.call.res, task[x.call.task], wf)
      BY <2>4, EndsAre
    <3>2. x.call.task \in Task /\ x.call.res \in ActionEnd
      BY <3>1 DEF Ends
    <3>3. CASE task[x.call.task] \in Completed /\ UNCHANGED <<task, processed, handled, calls>>
      BY <3>1, <3>3, EndsLateNext
    <3>4. ASSUME NEW run, EndsTask(x.call.task, x.call.res, run) PROVE Goal
      BY <3>1, <3>4, EndsTaskNext
    <3> QED
      BY <3>1, <3>2, <3>3, <3>4, EndsCases DEF AloneInv
  <2>5. CASE Pause(x) \/ Stop(x)
    BY <2>5, OperatorDecides, CalmNext
  <2>6. CASE Resume(x)
    BY <2>6, ResumesIs, ResumesNext
  <2>7. CASE CheckStage(x)
    BY <2>7, ChecksAre, CalmNext
  <2> QED
    BY <1>2, <2>1, <2>2, <2>3, <2>4, <2>5, <2>6, <2>7 DEF Commit, CheckStage, RefreshTaskState
<1>3. ASSUME NEW j \in Join, BeginRefresh(j) PROVE Goal
  BY <1>3 DEF Alone
<1>4. ASSUME OperatorStep PROVE Goal
  <2>1. CASE StartWorkflow
    BY <2>1, StartsNext
  <2>2. CASE BeginPause \/ BeginResume \/ \E s \in ActionEnd : BeginStop(s)
    BY <2>2, OperatorLoads, CalmNext
  <2>3. CASE \E t \in Task : \E i \in DOMAIN action[t] : ReportResult(t, i)
    BY <2>3, ResultsAre, CalmNext
  <2> QED
    BY <1>4, <2>1, <2>2, <2>3 DEF OperatorStep
<1>5. ASSUME UNCHANGED vars PROVE Goal
  <2>1. UNCHANGED <<wf, task, processed, handled, action, calls, txs, again, pauses, stops>>
    BY <1>5 DEF vars, taskVars, histVars
  <2>2. LoadedIsCurrent' /\ OnePause'
    BY <2>1 DEF LoadedIsCurrent, OnePause, Unprocessed, Active, AloneInv
  <2>3. Pending' = Pending
    BY <2>1 DEF Pending
  <2>4. Calm
    BY <2>1, <2>3 DEF Calm, ResultComes, CheckComes
  <2> QED
    BY <2>2, <2>4, CalmNext
<1>6. Goal
  BY <1>1, <1>2, <1>3, <1>4, <1>5 DEF Next, SystemStep
<1>7. IInv' /\ NothingBeforeStart'
  BY StepPreserves, NothingBeforeAlone DEF AloneInv
<1> QED
  BY <1>6, <1>7 DEF AloneInv

\* It says what is to be shown: with nothing on its way and nothing in progress, no task
\* is active and no check is to come.
LEMMA AloneSays == ASSUME Alone, AloneInv PROVE PauseInv
<1>0. /\ AllIsOwed /\ FollowedUp /\ ActionsFit /\ task \in [Task -> TaskState]
      /\ handled \subseteq Task
  BY AloneTypes DEF AloneInv
<1>1. RunningHasWork
  <2> SUFFICES ASSUME wf = "RUNNING", calls = {}, txs = {} PROVE FALSE
    BY DEF RunningHasWork
  <2>1. Pending = {}
    BY DEF Pending
  <2>2. ASSUME NEW t \in Task, task[t] = "IDLE" PROVE FALSE
    BY <1>0, <2>1, <2>2 DEF AllIsOwed, StartComes
  <2>3. ASSUME NEW t \in Task, task[t] = "RUNNING" PROVE FALSE
    BY <1>0, <2>1, <2>3 DEF AllIsOwed, ResultComes
  <2>4. ~Active /\ ~CheckComes
    BY <2>1, <2>2, <2>3 DEF Active, CheckComes
  <2> QED
    BY <1>0, <2>4 DEF AllIsOwed
<1>2. VerdictMatchesTasks
  <2> SUFFICES ASSUME stops = 0, again = {}
               PROVE  /\ wf = "SUCCESS" =>
                           \A t \in Task :
                             /\ task[t] \in Completed \cup {"NONE"}
                             /\ task[t] = "ERROR" => t \in handled
                             /\ \A n \in Triggered(t, task[t]) : task[n] \in Completed
                      /\ wf = "ERROR" => \E t \in Task : task[t] = "ERROR" /\ t \notin handled
                      /\ wf = "CANCELLED" => \E t \in Task : task[t] = "CANCELLED"
    BY DEF VerdictMatchesTasks
  <2>1. /\ \A t \in Task \ processed : task[t] \in Completed => wf = "PAUSED"
        /\ \A t \in processed : /\ task[t] \in Completed
                                /\ \A n \in Triggered(t, task[t]) : task[n] # "NONE"
        /\ VerdictFits
    BY <1>0 DEF FollowedUp
  <2>2. ASSUME wf = "SUCCESS", NEW t \in Task, NEW n \in Triggered(t, task[t])
        PROVE  task[n] \in Completed
    <3>1. n \in Task
      BY Forest
    <3>2. task[t] \in Completed
      BY <2>2 DEF Triggered, Completed
    <3>3. t \in processed
      BY <2>1, <2>2, <3>2
    <3>4. task[n] # "NONE"
      BY <2>1, <2>2, <3>3
    <3> QED
      BY <2>1, <2>2, <3>1, <3>4 DEF VerdictFits, Completed
  <2> QED
    BY <2>1, <2>2 DEF VerdictFits, Completed
<1>3. StartedOnce
  BY <1>0 DEF StartedOnce, ActionsFit
<1> QED
  BY <1>1, <1>2, <1>3 DEF PauseInv

\* With one pause, one transaction after another and no joins, for every tree of tasks
\* and whatever is stopped and reported: the invariant,
THEOREM AloneInvariant ==
    ASSUME Serial, Join = {}
    PROVE  EngineSpec => []AloneInv
<1>1. Alone
  BY DEF Alone
<1>2. AloneInv /\ [Next]_vars => AloneInv'
  BY <1>1, AloneNext
<1> QED
  BY <1>2, AloneInit, PTL DEF EngineSpec

\* and what the pause must not break: nothing is forgotten by the resume, what the
\* workflow becomes agrees with its tasks, and no task runs its action twice unless
\* resume found it idle.
THEOREM PauseSafety ==
    ASSUME Serial, Join = {}
    PROVE  EngineSpec => []PauseInv
<1>1. AloneInv => PauseInv
  BY AloneSays DEF Alone
<1> QED
  BY <1>1, AloneInvariant, PTL
=============================================================================
