----------------------------- MODULE TaskPolicies -----------------------------
(***************************************************************************)
(* One regular task with policies: pause-before, wait-before, wait-after,  *)
(* fail-on, retry and timeout, in the order in which the engine applies    *)
(* them.  The policies act before the first start of the task and inside   *)
(* its completion, and continue by jobs of the scheduler.  Results and     *)
(* jobs are handled in transactions that load the state of the task, and   *)
(* change it by UPDATE ... WHERE state = <loaded state>; they overlap.     *)
(*                                                                         *)
(* The state of the workflow is read at the commit (its race with resume   *)
(* is in WorkflowEngine).  Expressions of policies may have any value each *)
(* time they are evaluated.                                                *)
(***************************************************************************)
EXTENDS Integers, Sequences, FiniteSets

CONSTANTS Policies,    (* the combinations of policies to consider           *)
          MaxRetry,    (* bound: the largest retry count in Policies         *)
          MaxPause     (* bound: pauses by the operator                      *)

Policy == [pauseBefore : BOOLEAN, waitBefore : BOOLEAN, waitAfter : BOOLEAN,
           failOn : BOOLEAN, timeout : BOOLEAN, retry : 0..MaxRetry,
           breakOn : BOOLEAN, continueOn : BOOLEAN]

ASSUME PolicyAssumption ==
    /\ MaxRetry \in Nat /\ MaxPause \in Nat
    /\ Policies \subseteq Policy

Completed == {"SUCCESS", "ERROR", "CANCELLED"}
TaskState == {"IDLE", "RUNNING", "DELAYED"} \cup Completed

VARIABLES
    policy,      \* Policy: of this behaviour
    wf,          \* {"RUNNING", "PAUSED"}: the workflow execution
    task,        \* TaskState
    actions,     \* Seq of [state, accepted]: its action executions
    calls,       \* SUBSET {"start", "restart"}: start_task messages
    continues,   \* Nat: _continue_task jobs
    completions, \* SUBSET Completed: _complete_task jobs, by state
    timer,       \* BOOLEAN: a _fail_task_if_incomplete job
    txs,         \* SUBSET Tx: transactions in progress
    waited,      \* BOOLEAN: "skip" of the wait-after policy context
    retryNo,     \* Nat: retry_no of the retry policy context
    processed,   \* BOOLEAN
    dispatched,  \* Nat: history, how often the next tasks were dispatched
    timedOut,    \* BOOLEAN: history, the timeout job failed the task
    pauses       \* Nat: history

jobVars  == <<continues, completions, timer>>
taskVars == <<task, waited, retryNo, processed, dispatched>>
vars == <<policy, wf, taskVars, actions, calls, jobVars, txs, timedOut, pauses>>

Action == [state : {"RUNNING"} \cup Completed, accepted : BOOLEAN]
Tx     == [op : {"result", "continue", "complete", "timeout"}, action : Nat,
           res : {"NONE"} \cup Completed, seen : TaskState]

PolicyTypeOK ==
    /\ policy \in Policy
    /\ wf \in {"RUNNING", "PAUSED"} /\ task \in TaskState
    /\ actions \in Seq(Action)
    /\ calls \subseteq {"start", "restart"}
    /\ continues \in Nat /\ completions \subseteq Completed /\ timer \in BOOLEAN
    /\ txs \subseteq Tx
    /\ waited \in BOOLEAN /\ retryNo \in 0..MaxRetry
    /\ processed \in BOOLEAN /\ dispatched \in Nat
    /\ timedOut \in BOOLEAN /\ pauses \in Nat

\* RunTask was dispatched: an IDLE row and a start_task message.
Init ==
    /\ policy \in Policies
    /\ wf = "RUNNING" /\ task = "IDLE" /\ actions = <<>>
    /\ calls = {"start"}
    /\ continues = 0 /\ completions = {} /\ timer = FALSE
    /\ txs = {}
    /\ waited = FALSE /\ retryNo = 0
    /\ processed = FALSE /\ dispatched = 0
    /\ timedOut = FALSE /\ pauses = 0

NewAction   == [state |-> "RUNNING", accepted |-> FALSE]
Invalid(as) == [i \in DOMAIN as |-> [as[i] EXCEPT !.accepted = FALSE]]

-----------------------------------------------------------------------------
(* before_task_start: the policies, then the action unless they changed the *)
(* state of the task.                                                       *)

StateAfterBefore ==
    IF policy.pauseBefore THEN "IDLE"
    ELSE IF policy.waitBefore THEN "DELAYED" ELSE "RUNNING"

RunNew ==
    /\ "start" \in calls
    /\ calls' = calls \ {"start"}
    /\ task' = StateAfterBefore
    /\ wf' = IF policy.pauseBefore THEN "PAUSED" ELSE wf
    /\ continues' = IF StateAfterBefore = "DELAYED" THEN continues + 1
                                                    ELSE continues
    /\ timer' = policy.timeout
    /\ actions' = IF StateAfterBefore = "RUNNING" THEN <<NewAction>> ELSE actions
    /\ UNCHANGED <<policy, waited, retryNo, processed, dispatched, completions,
                   txs, timedOut, pauses>>

\* _run_existing(), sent by resume for the IDLE task, with reset: no policies
\* again.  (It is sent once, and the task is IDLE until it comes.)
RunExisting ==
    /\ "restart" \in calls
    /\ calls' = calls \ {"restart"}
    /\ task' = "RUNNING"
    /\ processed' = FALSE
    /\ actions' = Append(Invalid(actions), NewAction)
    /\ UNCHANGED <<policy, wf, waited, retryNo, dispatched, jobVars, txs,
                   timedOut, pauses>>

-----------------------------------------------------------------------------
(* after_task_complete, inside Task.complete().                             *)

\* RetryPolicy: another iteration, for a task in state s, when break-on and
\* continue-on evaluate to b and c.
RetriesCancelled(s, b, c) ==                          \* mutant: state ignored
    /\ retryNo < policy.retry
    /\ s = "SUCCESS" => policy.continueOn
    /\ policy.continueOn => c
    /\ ~(s = "ERROR" /\ b)
Retries(s, b, c) ==
    /\ s # "CANCELLED"
    /\ retryNo < policy.retry
    /\ s = "SUCCESS" => policy.continueOn
    /\ policy.continueOn => c
    /\ ~(s = "ERROR" /\ b)

WaitsAfterAlways == policy.waitAfter                  \* mutant: "skip" ignored
WaitsAfter == policy.waitAfter /\ ~waited

\* WaitAfterPolicy: DELAYED, a job completes the task with the same state.
WaitAfter(s) ==
    /\ WaitsAfter
    /\ task' = "DELAYED" /\ waited' = TRUE
    /\ completions' = completions \cup {s}
    /\ UNCHANGED <<retryNo, processed, dispatched, continues, timer>>

\* RetryPolicy: the results are not accepted any more, DELAYED, and a job
\* continues the task.
Retry(acts) ==
    /\ actions' = Invalid(acts)
    /\ task' = "DELAYED" /\ retryNo' = retryNo + 1
    /\ continues' = continues + 1
    /\ UNCHANGED <<waited, processed, dispatched, completions, timer>>

\* The rest of Task.complete(): the next tasks, unless the workflow is paused.
Finish(s) ==
    /\ task' = s
    /\ retryNo' = IF s = "CANCELLED" THEN retryNo ELSE 0
    /\ processed' = (processed \/ wf # "PAUSED")
    /\ dispatched' = IF wf = "PAUSED" THEN dispatched ELSE dispatched + 1
    /\ UNCHANGED <<waited, jobVars>>

UpdateMatchesAny(seen) == TRUE                        \* mutant: plain UPDATE
UpdateMatches(seen)    == task = seen

\* Task.complete(s) of a task loaded in state seen, the actions being acts.
Complete(s, seen, acts) ==
    \/ /\ seen \in Completed \/ ~UpdateMatches(seen)
       /\ actions' = acts
       /\ UNCHANGED <<taskVars, jobVars>>
    \/ /\ seen \notin Completed /\ UpdateMatches(seen)
       /\ WaitAfter(s)
       /\ actions' = acts
    \/ /\ seen \notin Completed /\ UpdateMatches(seen)
       /\ ~WaitsAfter
       /\ \E f, b, c \in BOOLEAN :
             LET end == IF s = "SUCCESS" /\ f THEN "ERROR" ELSE s
             IN  /\ f => policy.failOn
                 /\ b => policy.breakOn
                 /\ c => policy.continueOn
                 /\ \/ Retries(end, b, c) /\ Retry(acts)
                    \/ ~Retries(end, b, c) /\ Finish(end) /\ actions' = acts

-----------------------------------------------------------------------------
(* Transactions.                                                            *)

Loads(op, k, res) == txs' = txs \cup {[op |-> op, action |-> k, res |-> res,
                                       seen |-> task]}

\* on_action_complete(): a result of a RUNNING action.
BeginResult(k, res) ==
    /\ actions[k].state = "RUNNING"
    /\ \A x \in txs : x.op = "result" => x.action # k
    /\ Loads("result", k, res)
    /\ UNCHANGED <<policy, wf, taskVars, actions, calls, jobVars, timedOut, pauses>>

BeginContinue ==
    /\ continues > 0
    /\ continues' = continues - 1
    /\ Loads("continue", continues, "NONE")
    /\ UNCHANGED <<policy, wf, taskVars, actions, calls, completions, timer,
                   timedOut, pauses>>

BeginComplete(s) ==
    /\ s \in completions
    /\ completions' = completions \ {s}
    /\ Loads("complete", 0, s)
    /\ UNCHANGED <<policy, wf, taskVars, actions, calls, continues, timer,
                   timedOut, pauses>>

BeginTimeout ==
    /\ timer
    /\ timer' = FALSE
    /\ Loads("timeout", 0, "ERROR")
    /\ UNCHANGED <<policy, wf, taskVars, actions, calls, continues, completions,
                   timedOut, pauses>>

Result(x) ==
    /\ x.op = "result"
    /\ txs' = txs \ {x}
    /\ Complete(x.res, x.seen,
                [actions EXCEPT ![x.action] = [state |-> x.res, accepted |-> TRUE]])
    /\ UNCHANGED <<policy, wf, calls, timedOut, pauses>>

\* continue_task(): RUNNING without a look at the state, and a new action;
\* failed and cancelled results are not accepted any more.
ContinueTask(x) ==
    /\ x.op = "continue"
    /\ txs' = txs \ {x}
    /\ task' = IF UpdateMatches(x.seen) THEN "RUNNING" ELSE task
    /\ actions' = Append([i \in DOMAIN actions |->
                            IF actions[i].state \in {"ERROR", "CANCELLED"}
                            THEN [actions[i] EXCEPT !.accepted = FALSE]
                            ELSE actions[i]], NewAction)
    /\ UNCHANGED <<policy, wf, waited, retryNo, processed, dispatched, calls,
                   jobVars, timedOut, pauses>>

CompleteTask(x) ==
    /\ x.op = "complete"
    /\ txs' = txs \ {x}
    /\ Complete(x.res, x.seen, actions)
    /\ UNCHANGED <<policy, wf, calls, timedOut, pauses>>

FailTaskIfIncomplete(x) ==
    /\ x.op = "timeout"
    /\ txs' = txs \ {x}
    /\ Complete("ERROR", x.seen, actions)
    /\ timedOut' = (x.seen \notin Completed /\ UpdateMatches(x.seen))
    /\ UNCHANGED <<policy, wf, calls, pauses>>

-----------------------------------------------------------------------------
(* The operator, and the resume after pause-before.                         *)

Pause ==
    /\ wf = "RUNNING" /\ task # "IDLE" /\ pauses < MaxPause
    /\ wf' = "PAUSED" /\ pauses' = pauses + 1
    /\ UNCHANGED <<policy, taskVars, actions, calls, jobVars, txs, timedOut>>

Resume ==
    /\ wf = "PAUSED"
    /\ wf' = "RUNNING"
    /\ calls' = IF task = "IDLE" THEN calls \cup {"restart"} ELSE calls
    /\ LET waits == task \in Completed /\ ~processed
       IN  /\ dispatched' = IF waits THEN dispatched + 1 ELSE dispatched
           /\ processed' = (processed \/ waits)
    /\ UNCHANGED <<policy, task, waited, retryNo, actions, jobVars, txs,
                   timedOut, pauses>>

-----------------------------------------------------------------------------
Commit == \E x \in txs : Result(x) \/ ContinueTask(x) \/ CompleteTask(x)
                         \/ FailTaskIfIncomplete(x)

Finishes == \E k \in DOMAIN actions, res \in Completed : BeginResult(k, res)

Begin == BeginContinue \/ BeginTimeout \/ \E s \in Completed : BeginComplete(s)

Next == RunNew \/ RunExisting \/ Finishes \/ Begin \/ Commit \/ Pause \/ Resume

PolicySpec == Init /\ [][Next]_vars

\* Messages are handled, transactions end, jobs are executed; an action
\* returns, unless there is a timeout, and the operator resumes in the end.
PolicyFairSpec ==
    /\ PolicySpec
    /\ WF_vars(RunNew \/ RunExisting) /\ WF_vars(Begin) /\ WF_vars(Commit)
    /\ WF_vars(Resume)
    /\ WF_vars(~policy.timeout /\ Finishes)

-----------------------------------------------------------------------------
(* Properties.                                                              *)

\* A task has one action at a time, however its retries, delays and pauses
\* are ordered, and no more than its retry count allows.
OneActionAtATime ==
    /\ Cardinality({i \in DOMAIN actions : actions[i].state = "RUNNING"}) <= 1
    /\ Len(actions) <= 1 + policy.retry

\* What a task ended with is what its policies say about its last action: it
\* succeeded, with a result of its own, or it failed after every retry, unless
\* an expression or a timeout ended it before.  Results of former iterations
\* do not count, and nothing follows a cancelled action.
EndMatchesPolicies ==
    LET last == actions[Len(actions)]
    IN  /\ task = "SUCCESS" =>
             /\ last = [state |-> "SUCCESS", accepted |-> TRUE]
             /\ \A i \in 1..(Len(actions) - 1) : ~actions[i].accepted
        /\ task = "CANCELLED" => last.state = "CANCELLED"
        /\ \A i \in 1..(Len(actions) - 1) : actions[i].state # "CANCELLED"
        /\ task = "ERROR" /\ ~timedOut /\ ~policy.breakOn /\ ~policy.continueOn =>
             /\ Len(actions) = 1 + policy.retry
             /\ last.state = "ERROR" \/ policy.failOn

\* The next tasks of a completed task are dispatched exactly once: not again
\* by a timeout, a late result, a job or a resume.
DispatchedOnce ==
    /\ dispatched <= 1
    /\ task \in Completed /\ wf = "RUNNING" => dispatched = 1

PolicyInv == PolicyTypeOK /\ OneActionAtATime /\ DispatchedOnce

\* Every task ends, also one whose action never answers if it has a timeout.
TaskEnds == <>[](task \in Completed)

=============================================================================
