------------------------------- MODULE Executions -------------------------------
(***************************************************************************)
(* Workflow executions as the services beside the engine see them: rows    *)
(* that are started by somebody, have running tasks or not, are paused,    *)
(* resumed, rerun, end, and are deleted.  How the engine gets from one of  *)
(* these states to the next is in WorkflowEngine and SubWorkflows.         *)
(***************************************************************************)
EXTENDS Integers, FiniteSets

CONSTANTS MaxExecs,  (* how many executions are ever created                 *)
          Project,   (* the projects that own them                           *)
          Budgets    (* how often the outside world may do what              *)

\* What users, operators and faults do is bounded by a budget.
What == {"cron", "api", "fault", "toggle", "request", "cancel", "expire",
         "trigger", "event", "restart", "delay"}

ASSUME ExecutionsAssumption ==
    /\ MaxExecs \in Nat \ {0}
    /\ Project # {}
    /\ Budgets \subseteq [What -> Nat]

Execs    == 1..MaxExecs
Terminal == {"SUCCESS", "ERROR"}     \* ERROR stands for CANCELLED too

VARIABLES
    state,     \* Execs -> state, "NONE" before and "DELETED" after the row
    busy,      \* SUBSET Execs: the executions with a RUNNING task
    owner,     \* Execs -> Project
    older,     \* Execs -> SUBSET Execs: which completed before it (updated_at)
    reran,     \* SUBSET Execs: history, rerun at some time
    left       \* What -> Nat: what is left of the budget

execVars == <<state, busy, owner, older, reran>>

ExecTypeOK ==
    /\ state \in [Execs -> {"NONE", "RUNNING", "PAUSED", "DELETED"} \cup Terminal]
    /\ busy \subseteq {e \in Execs : state[e] \notin {"NONE", "DELETED"}}
    /\ owner \in [Execs -> Project]
    /\ older \in [Execs -> SUBSET Execs] /\ reran \subseteq Execs
    /\ left \in [What -> Nat]

\* The first execution belongs to one project, the others to that or another.
Home == CHOOSE p \in Project : TRUE

ExecInit ==
    /\ state = [e \in Execs |-> "NONE"] /\ busy = {}
    /\ older = [e \in Execs |-> {}] /\ reran = {}
    /\ left \in Budgets
    /\ \E p, q \in Project :
         /\ p = Home /\ (left["toggle"] = 0 => q = Home)
         /\ owner = [e \in Execs |-> IF e = 1 THEN p ELSE q]

Spend(what) == left[what] > 0 /\ left' = [left EXCEPT ![what] = @ - 1]

Fresh == {e \in Execs : state[e] = "NONE" /\ \A d \in 1..(e - 1) : state[d] # "NONE"}
In(s) == {e \in Execs : state[e] = s}

Completed == {e \in Execs : state[e] \in Terminal}

\* e completes in state s, and e is not completed any more.
Completes(e, s) ==
    /\ state' = [state EXCEPT ![e] = s]
    /\ older' = [older EXCEPT ![e] = Completed]
Unlisted(e) == [d \in Execs |-> IF d = e THEN {} ELSE older[d] \ {e}]

-----------------------------------------------------------------------------
StartWorkflow(e) ==
    /\ e \in Fresh
    /\ state' = [state EXCEPT ![e] = "RUNNING"] /\ busy' = busy \cup {e}
    /\ UNCHANGED <<owner, older, reran>>

\* The last running task ends: a RUNNING execution ends with it, a PAUSED one
\* waits for resume.
TaskEnds(e, s) ==
    /\ e \in busy /\ s \in Terminal
    /\ busy' = busy \ {e}
    /\ IF state[e] = "RUNNING" THEN Completes(e, s) ELSE UNCHANGED <<state, older>>
    /\ UNCHANGED <<owner, reran>>

\* A running task is kept; new ones are not started.
PauseWorkflow(e) ==
    /\ state[e] = "RUNNING"
    /\ state' = [state EXCEPT ![e] = "PAUSED"]
    /\ UNCHANGED <<busy, owner, older, reran>>

\* All of es at once, in one transaction; what was left to do goes on.
ResumeWorkflows(es) ==
    /\ state' = [e \in Execs |-> IF e \in es THEN "RUNNING" ELSE state[e]]
    /\ busy' = busy \cup es
    /\ UNCHANGED <<owner, older, reran>>

CancelWorkflow(e) ==
    /\ state[e] \in {"RUNNING", "PAUSED"}
    /\ Completes(e, "ERROR")
    /\ UNCHANGED <<busy, owner, reran>>

RerunWorkflow(e) ==
    /\ state[e] = "ERROR"
    /\ state' = [state EXCEPT ![e] = "RUNNING"] /\ busy' = busy \cup {e}
    /\ older' = Unlisted(e) /\ reran' = reran \cup {e}
    /\ UNCHANGED owner

\* DELETE by id, whatever the state of the row is by now.
DeleteWorkflow(e) ==
    /\ state[e] \notin {"NONE", "DELETED"}
    /\ state' = [state EXCEPT ![e] = "DELETED"] /\ busy' = busy \ {e}
    /\ older' = Unlisted(e)
    /\ UNCHANGED <<owner, reran>>
=============================================================================
