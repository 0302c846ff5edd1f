----------------------------- MODULE SubWorkflows -----------------------------
(***************************************************************************)
(* A root workflow whose tasks run subworkflows, each of which has one     *)
(* task of its own.  Pause, resume, stop and rerun of either end cascade   *)
(* to the other through the tasks of the root; the end of a subworkflow is *)
(* sent to the root by RPC after its transaction, and may be lost; the     *)
(* integrity check of the root finds it again.                             *)
(*                                                                         *)
(* A handler is one transaction and one action here.  What the single      *)
(* workflow does inside (dispatching, joins, races of its handlers) is in  *)
(* WorkflowEngine.                                                         *)
(***************************************************************************)
EXTENDS Integers, FiniteSets

CONSTANTS Sub,       (* the subworkflows                                     *)
          Budgets    (* how much the operator and the faults may do          *)

Budget == [pause : 0..2, stop : 0..2, rerun : 0..2, loss : 0..2,
           viaRpc : BOOLEAN]

ASSUME SubAssumption == IsFiniteSet(Sub) /\ Budgets \subseteq Budget

Completed == {"SUCCESS", "ERROR", "CANCELLED"}
Live      == {"RUNNING", "PAUSED"}

VARIABLES
    root,      \* the root workflow execution
    task,      \* Sub -> state of the task of the root
    sub,       \* Sub -> state of the subworkflow execution, or "NONE"
    work,      \* Sub -> state of the task of the subworkflow
    launches,  \* SUBSET Sub: start_workflow messages
    results,   \* SUBSET Sub: on_action_complete messages to the root
    restarts,  \* Sub -> Nat: start_task messages of reruns
    left,      \* Budget: what is left of the budget
    stopped    \* BOOLEAN: history, the root was stopped by the operator

vars == <<root, task, sub, work, launches, results, restarts, left, stopped>>

SubTypeOK ==
    /\ root \in Live \cup Completed
    /\ task \in [Sub -> Live \cup Completed]
    /\ sub \in [Sub -> {"NONE"} \cup Live \cup Completed]
    /\ work \in [Sub -> {"NONE", "RUNNING"} \cup Completed]
    /\ launches \subseteq {s \in Sub : sub[s] = "NONE"}
    /\ results \subseteq {s \in Sub : sub[s] # "NONE"}
    /\ restarts \in [Sub -> Nat]
    /\ left \in Budget /\ stopped \in BOOLEAN

\* The tasks of the root have started; with start_subworkflows_via_rpc the
\* subworkflows are still to be started.
Init ==
    /\ left \in Budgets
    /\ root = "RUNNING" /\ task = [s \in Sub |-> "RUNNING"]
    /\ IF left.viaRpc
       THEN /\ launches = Sub
            /\ sub = [s \in Sub |-> "NONE"] /\ work = [s \in Sub |-> "NONE"]
       ELSE /\ launches = {}
            /\ sub = [s \in Sub |-> "RUNNING"] /\ work = [s \in Sub |-> "RUNNING"]
    /\ results = {} /\ restarts = [s \in Sub |-> 0] /\ stopped = FALSE

Spend(what) == left[what] > 0 /\ left' = [left EXCEPT ![what] = @ - 1]

-----------------------------------------------------------------------------
(* What check_and_complete() makes of a RUNNING workflow.                   *)

RootVerdict(ts) ==
    IF \E s \in Sub : ts[s] \notin Completed THEN "RUNNING"
    ELSE IF \E s \in Sub : ts[s] = "CANCELLED" THEN "CANCELLED"
    ELSE IF \E s \in Sub : ts[s] = "ERROR" THEN "ERROR" ELSE "SUCCESS"

\* The task of a resumed subworkflow may have ended while it was paused.
ResumedSub(s) == IF work[s] \in Completed THEN work[s] ELSE "RUNNING"

Valid(from, to) ==
    \/ from = to
    \/ from = "RUNNING"
    \/ from = "PAUSED" /\ to \in {"RUNNING", "ERROR", "CANCELLED"}

\* Task.update(): the task takes the state of its subworkflow.
Updated(t, state) ==
    IF t \in Completed \/ ~Valid(t, state) THEN t ELSE state

-----------------------------------------------------------------------------
(* Start and work.                                                          *)

Launch(s) ==
    /\ s \in launches
    /\ launches' = launches \ {s}
    /\ sub' = [sub EXCEPT ![s] = "RUNNING"]
    /\ work' = [work EXCEPT ![s] = "RUNNING"]
    /\ UNCHANGED <<root, task, results, restarts, left, stopped>>

\* The task of a subworkflow ends and, unless the subworkflow is paused or
\* stopped, so does the subworkflow, which sends its result to the root.
Work(s, state) ==
    /\ work[s] = "RUNNING"
    /\ work' = [work EXCEPT ![s] = state]
    /\ IF sub[s] = "RUNNING"
       THEN /\ sub' = [sub EXCEPT ![s] = state]
            /\ results' = results \cup {s}
       ELSE UNCHANGED <<sub, results>>
    /\ UNCHANGED <<root, task, launches, restarts, left, stopped>>

\* RegularTask.on_action_complete() takes the state the subworkflow has now.
\* A completed task ignores it; the root is checked unless it is paused.
TakeFirst(s) ==                     \* mutant: a failure is taken from the message
    /\ task' = [task EXCEPT ![s] = IF @ \in Completed THEN @
                                   ELSE IF sub[s] \in Completed THEN sub[s]
                                   ELSE "ERROR"]
    /\ root' = IF root = "RUNNING" THEN RootVerdict(task') ELSE root
Take(s) ==
    /\ task' = [task EXCEPT ![s] = IF @ \in Completed THEN @ ELSE sub[s]]
    /\ root' = IF root = "RUNNING" THEN RootVerdict(task') ELSE root

OnActionComplete(s) ==
    /\ s \in results
    /\ results' = results \ {s}
    /\ Take(s)
    /\ UNCHANGED <<sub, work, launches, restarts, left, stopped>>

Lose(s) ==
    /\ s \in results /\ Spend("loss")
    /\ results' = results \ {s}
    /\ UNCHANGED <<root, task, sub, work, launches, restarts, stopped>>

\* A RUNNING task with a subworkflow that ended some time ago.
StuckTasksOfRunning == {s \in Sub : root = "RUNNING" /\ task[s] = "RUNNING"
                                    /\ sub[s] = "ERROR"}  \* mutant: failed only
StuckTasks == {s \in Sub : root \in Live /\ task[s] = "RUNNING"
                           /\ sub[s] \in Completed}

CheckAndFixIntegrity(s) ==
    /\ s \in StuckTasks
    /\ Take(s)
    /\ UNCHANGED <<sub, work, launches, results, restarts, left, stopped>>

-----------------------------------------------------------------------------
(* Pause and resume.                                                        *)

PausedSubs(from) == [s \in Sub |-> IF s \in from /\ sub[s] \in Live
                                   THEN "PAUSED" ELSE sub[s]]
PausesNothing(s) ==                 \* mutant: pause does not go up to the root
    /\ sub' = [sub EXCEPT ![s] = "PAUSED"]
    /\ task' = [task EXCEPT ![s] = Updated(@, "PAUSED")]
    /\ UNCHANGED root
\* All live subworkflows and their tasks, then the root; a completed root can
\* not be paused: the tasks whose update reached it are failed.
PausesAll(s) ==
    /\ sub' = PausedSubs(Sub)
    /\ task' = [t \in Sub |->
                  IF sub[t] # "RUNNING" THEN task[t]
                  ELSE IF root \in Completed THEN "ERROR"
                  ELSE Updated(task[t], "PAUSED")]
    /\ root' = IF root \in Completed THEN root ELSE "PAUSED"

Pause ==
    /\ root \in Live /\ Spend("pause")
    /\ \E s \in Sub : PausesAll(s)
    /\ UNCHANGED <<work, launches, results, restarts, stopped>>

PauseSub(s) ==
    /\ sub[s] = "RUNNING" /\ Spend("pause")
    /\ PausesAll(s)
    /\ UNCHANGED <<work, launches, results, restarts, stopped>>

\* The subworkflows of S are resumed, then the root if "up" holds of the tasks.
Resumes(S, up(_)) ==
    /\ sub' = [s \in Sub |-> IF s \in S THEN ResumedSub(s) ELSE sub[s]]
    /\ task' = [s \in Sub |-> IF s \in S THEN Updated(task[s], sub'[s])
                                         ELSE task[s]]
    /\ results' = results \cup {s \in S : sub'[s] \in Completed}
    /\ root' = IF up(task') \/ root = "RUNNING" THEN RootVerdict(task') ELSE root

Resume ==
    /\ root = "PAUSED"
    /\ Resumes({s \in Sub : sub[s] = "PAUSED"}, LAMBDA ts : TRUE)
    /\ UNCHANGED <<work, launches, restarts, left, stopped>>

\* A subworkflow that goes on takes the root with it when it was the last one
\* that was paused.
ResumeSub(s) ==
    /\ sub[s] = "PAUSED"
    /\ Resumes({s}, LAMBDA ts : /\ root = "PAUSED" /\ ResumedSub(s) = "RUNNING"
                                /\ \A t \in Sub : ts[t] # "PAUSED")
    /\ UNCHANGED <<work, launches, restarts, left, stopped>>

-----------------------------------------------------------------------------
(* Stop.                                                                    *)

\* A paused workflow can only be cancelled.
Stoppable(state, to) == \/ state = "RUNNING"
                        \/ state = "PAUSED" /\ to = "CANCELLED"

StopSub(s, to) ==
    /\ Stoppable(sub[s], to) /\ Spend("stop")
    /\ sub' = [sub EXCEPT ![s] = to]
    /\ results' = results \cup {s}
    /\ UNCHANGED <<root, task, work, launches, restarts, stopped>>

CancelsRootOnly(to) == {}           \* mutant: no cascade
CancelsSubs(to) == IF to = "CANCELLED" THEN {s \in Sub : sub[s] \in Live} ELSE {}

\* Only CANCELLED cascades, also from a root that is completed already.
Stop(to) ==
    /\ Spend("stop")
    /\ Stoppable(root, to) \/ (root \in Completed /\ CancelsSubs(to) # {})
    /\ root' = IF root \in Completed THEN root ELSE to
    /\ sub' = [s \in Sub |-> IF s \in CancelsSubs(to) THEN to ELSE sub[s]]
    /\ results' = results \cup CancelsSubs(to)
    /\ stopped' = TRUE
    /\ UNCHANGED <<task, work, launches, restarts>>

-----------------------------------------------------------------------------
(* Rerun and skip of the failed task of a subworkflow.                      *)

\* _recursive_rerun(): subworkflow, root and its task are RUNNING again; a
\* root that succeeded makes the transaction fail.
RerunsUp(s) ==
    /\ sub' = [sub EXCEPT ![s] = "RUNNING"]
    /\ root' = "RUNNING"
    /\ task' = [task EXCEPT ![s] = "RUNNING"]

CanRerun(s) == /\ work[s] = "ERROR"
               /\ sub[s] \in {"RUNNING", "ERROR", "CANCELLED"}
               /\ root # "SUCCESS"

Rerun(s) ==
    /\ CanRerun(s) /\ Spend("rerun")
    /\ RerunsUp(s)
    /\ restarts' = [restarts EXCEPT ![s] = @ + 1]
    /\ UNCHANGED <<work, launches, results, stopped>>

\* For a task that succeeded in the meantime the error rolls the transaction back.
RunExisting(s) ==
    /\ restarts[s] > 0
    /\ restarts' = [restarts EXCEPT ![s] = @ - 1]
    /\ work' = [work EXCEPT ![s] = IF @ = "SUCCESS" THEN "SUCCESS" ELSE "RUNNING"]
    /\ UNCHANGED <<root, task, sub, launches, results, left, stopped>>

\* Skip completes the task at once, and with it the subworkflow.
Skip(s) ==
    /\ CanRerun(s) /\ Spend("rerun")
    /\ root' = "RUNNING"
    /\ task' = [task EXCEPT ![s] = "RUNNING"]
    /\ sub' = [sub EXCEPT ![s] = "SUCCESS"]
    /\ work' = [work EXCEPT ![s] = "SUCCESS"]
    /\ results' = results \cup {s}
    /\ UNCHANGED <<launches, restarts, stopped>>

-----------------------------------------------------------------------------
Operator == \/ Pause
            \/ \E to \in Completed : Stop(to)
            \/ \E s \in Sub : \/ PauseSub(s) \/ ResumeSub(s)
                              \/ Rerun(s) \/ Skip(s)
                              \/ \E to \in Completed : StopSub(s, to)

Next ==
    \/ Operator \/ Resume
    \/ \E s \in Sub : \/ Launch(s) \/ OnActionComplete(s) \/ Lose(s)
                      \/ CheckAndFixIntegrity(s) \/ RunExisting(s)
                      \/ \E state \in Completed : Work(s, state)

SubSpec == Init /\ [][Next]_vars

\* Messages are handled unless they are lost, the integrity check runs, actions
\* return, and the operator resumes what is paused in the end.
SubFairSpec ==
    /\ SubSpec
    /\ WF_vars(Resume)
    /\ \A s \in Sub : /\ WF_vars(Launch(s)) /\ WF_vars(OnActionComplete(s))
                      /\ WF_vars(CheckAndFixIntegrity(s))
                      /\ WF_vars(RunExisting(s))
                      /\ WF_vars(\E state \in Completed : Work(s, state))

-----------------------------------------------------------------------------
(* Properties.                                                              *)

\* A task of the root ends only as its subworkflow ended, also when a result
\* arrives after a rerun; a root that was not stopped ends with the verdict of
\* its tasks, and leaves no subworkflow behind.
VerdictsAgree ==
    /\ \A s \in Sub : ~stopped /\ task[s] \in Completed => sub[s] = task[s]
    /\ ~stopped /\ root \in Completed =>
         /\ root = RootVerdict(task)
         /\ \A s \in Sub : sub[s] \in Completed

SubInv == SubTypeOK /\ VerdictsAgree

\* No subworkflow is paused while the root goes on.
PausedTogether ==
    (\E s \in Sub : sub[s] = "PAUSED") => root # "RUNNING"

\* Nothing is running under a cancelled root but what its messages start later.
CancelReachesAll ==
    root = "CANCELLED" /\ ~left.viaRpc => \A s \in Sub : sub[s] \notin Live

\* The root ends, though results are lost and workflows are paused.
RootEnds == <>[](root \in Completed)
=============================================================================
