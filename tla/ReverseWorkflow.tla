---------------------------- MODULE ReverseWorkflow ----------------------------
(***************************************************************************)
(* Reverse workflows: a task may require others, and the engine runs what  *)
(* the target task needs.  Whenever a task completes, the controller looks *)
(* for tasks that have no execution yet and whose requirements succeeded.  *)
(* It reads what is committed: a transaction does not see the completion   *)
(* that another one is about to commit.  Begin... loads and looks, the     *)
(* commit is the second step; in between transactions overlap freely.      *)
(***************************************************************************)
EXTENDS DataFlow

CONSTANTS Task,        (* the names that tasks may have                      *)
          Documents,   (* workflow specifications, see DocumentType          *)
          Budgets      (* bounds: pairs of pauses, and of requests to rerun  *)
                       (* or skip a failed task, that the operator has left  *)

ActionEnd == {"SUCCESS", "ERROR", "CANCELLED"}
Completed == ActionEnd \cup {"SKIPPED"}

\* "tasks" are the ones the document defines; it may name others.
DocumentType ==
    [tasks : SUBSET Task, requires : [Task -> SUBSET Task], defaults : SUBSET Task,
     target : Task, publish : [Task -> Kind], outcome : [Task -> (SUBSET ActionEnd) \ {{}}]]

ASSUME ReverseAssumption ==
    /\ IsFiniteSet(Task) /\ Publisher = Task /\ Nobody \notin Task
    /\ Documents \subseteq DocumentType
    /\ Budgets \subseteq Nat \X Nat

VARIABLES
    doc,        \* the specification
    wf,         \* the state of the workflow execution, "NONE": not started
    rows,       \* Task -> sequence of its executions: [state, ctx, runs]
    calls,      \* messages and post-transaction operations
    txs,        \* transactions that have looked for tasks and not committed
    overlapped, \* history: two were open at once, or one when a rerun was made
    skipped,    \* history: tasks that the operator has skipped
    late,       \* history: a rerun of a task that was not failed any more
    paused,     \* history: the operator has paused the workflow
    pauses, reruns   \* how many of them are left

vars == <<doc, wf, rows, calls, txs, overlapped, skipped, late, paused, pauses, reruns>>

Call(op, t, i, arg) == [op |-> op, task |-> t, row |-> i, arg |-> arg]
Check  == Call("check", Nobody, 0, "NONE")
Resuming(n) == Call("resume", Nobody, n, "NONE")

RowState == {"IDLE", "RUNNING"} \cup Completed

ReverseTypeOK ==
    /\ doc \in Documents
    /\ wf \in {"NONE", "RUNNING", "PAUSED"} \cup ActionEnd
    /\ \A t \in Task : \A i \in DOMAIN rows[t] :
         rows[t][i] \in [state : RowState, ctx : Context, runs : Nat]
    /\ \A c \in calls : c.op \in {"start", "again", "run", "done", "check", "rerun", "skip"}
    /\ \A x \in txs : x.call.op \in {"done", "resume"} /\ DOMAIN x.found \subseteq Task
    /\ overlapped \in BOOLEAN /\ skipped \subseteq Task /\ late \in BOOLEAN
    /\ pauses \in Nat /\ reruns \in Nat /\ paused \in BOOLEAN

Init ==
    /\ doc \in Documents /\ wf = "NONE"
    /\ rows = [t \in Task |-> <<>>]
    /\ calls = {} /\ txs = {} /\ overlapped = FALSE /\ skipped = {} /\ late = FALSE
    /\ paused = FALSE /\ \E b \in Budgets : pauses = b[1] /\ reruns = b[2]

-----------------------------------------------------------------------------
(* The specification.                                                       *)

\* get_task_requires(): the defaults apply to every task but themselves.
Requires(t) == (doc.requires[t] \cup doc.defaults) \ {t}

\* _check_workflow_integrity()
Valid == \A t \in doc.tasks : Requires(t) \subseteq doc.tasks

\* The tasks that t needs, itself included, n steps away at most.
Needs(t) ==
    LET Reach[n \in 0..Cardinality(Task)] ==
          IF n = 0 THEN {t}
          ELSE Reach[n - 1] \cup UNION {Requires(u) \cap doc.tasks : u \in Reach[n - 1]}
    IN  Reach[Cardinality(Task)]

\* u comes before t: what u published has reached t.
Before(u, t) == u # t /\ u \in Needs(t)

\* Accepted all the same.
Cyclic == \E u, t \in Needs(doc.target) : Before(u, t) /\ Before(t, u)

-----------------------------------------------------------------------------
(* ReverseWorkflowController.                                               *)

\* The executions of the tasks in S.
RowsOf(rs, S) == UNION {{t} \X DOMAIN rs[t] : t \in S}

HasState(rs, t, S) == \E i \in DOMAIN rs[t] : rs[t][i].state \in S

\* _is_satisfied_task(), of the tasks that the target needs.
NotStarted(rs, t) == rs[t] = <<>>

Satisfied(rs) ==
    {t \in Needs(doc.target) : /\ NotStarted(rs, t)
                               /\ \A u \in Requires(t) : HasState(rs, u, {"SUCCESS"})}

\* get_task_inbound_context(): of the executions that succeeded, in any order.
Inbound(rs, t) ==
    LET up == {ui \in RowsOf(rs, Requires(t)) : rs[ui[1]][ui[2]].state = "SUCCESS"}
        out(ui) == Outbound(rs[ui[1]][ui[2]].ctx, ui[1], doc.publish[ui[1]])
    IN  {UpstreamContext([k \in DOMAIN s |-> out(s[k])]) : s \in SetToSeqs(up)}

\* _find_next_commands(): RunTask commands, with their contexts.
Finds(rs, found) ==
    /\ DOMAIN found = Satisfied(rs)
    /\ \A t \in DOMAIN found : found[t] \in Inbound(rs, t)

Findings(rs) == {f \in [Satisfied(rs) -> UNION {Inbound(rs, t) : t \in Satisfied(rs)}] :
                   Finds(rs, f)}

-----------------------------------------------------------------------------
(* Dispatching.                                                             *)

Created(rs, found) ==
    [t \in Task |-> IF t \in DOMAIN found
                    THEN Append(rs[t], [state |-> "IDLE", ctx |-> found[t], runs |-> 0])
                    ELSE rs[t]]
Started(rs, found) == {Call("start", t, Len(rs[t]) + 1, "NONE") : t \in DOMAIN found}

Begins(c, found) ==
    /\ txs' = txs \cup {[call |-> c, wf |-> wf, found |-> found,
                         seen |-> IF c.task = Nobody THEN "NONE" ELSE rows[c.task][c.row].state]}
    /\ overlapped' = (overlapped \/ txs # {})
Commits(x) == txs' = txs \ {x} /\ UNCHANGED overlapped

With(rs, t, i, s) == [rs EXCEPT ![t][i].state = s]
RunAction(t, i) ==
    rows' = [rows EXCEPT ![t][i].state = "RUNNING", ![t][i].runs = @ + 1]

\* get_incomplete_task_executions_count()
IncompleteUnlessEnded == RowState \ {"SUCCESS", "ERROR"}   \* mutant: forgets states
Incomplete == {"IDLE", "RUNNING"}

\* check_and_complete(): with two executions of the target an assertion fails and
\* the check is lost.
Verdict(rs) ==
    LET some(S) == \E t \in Task : HasState(rs, t, S)
    IN  IF some(Incomplete) THEN "RUNNING"
        ELSE IF some({"CANCELLED"}) THEN "CANCELLED"
        ELSE IF Len(rs[doc.target]) > 1 THEN "RUNNING"
        ELSE IF some({"ERROR"}) THEN "ERROR" ELSE "SUCCESS"

-----------------------------------------------------------------------------
(* The engine.                                                              *)

\* start_workflow(): refused without a valid target.
StartWorkflow ==
    /\ wf = "NONE" /\ Valid /\ doc.target \in doc.tasks
    /\ wf' = "RUNNING"
    /\ \E found \in Findings(rows) : /\ rows' = Created(rows, found)
                                     /\ calls' = Started(rows, found)
    /\ UNCHANGED <<doc, txs, overlapped, skipped, late, paused, pauses, reruns>>

\* RegularTask._run_new()
RunNew(c) ==
    /\ c.op = "start"
    /\ IF rows[c.task][c.row].state = "IDLE"
       THEN /\ RunAction(c.task, c.row)
            /\ calls' = (calls \ {c})
                 \cup {Call("run", c.task, c.row, rows[c.task][c.row].runs + 1)}
       ELSE calls' = calls \ {c} /\ UNCHANGED rows
    /\ UNCHANGED <<doc, wf, txs, overlapped, skipped, late, paused, pauses, reruns>>

\* Rerunning succeeded tasks is not supported.
MayRunAny(s)   == TRUE                     \* mutant: it is
MayRunAgain(s) == s # "SUCCESS"

\* RegularTask._run_existing(): if the task has succeeded meanwhile, the error rolls
\* the transaction back, and the workflow stays as the rerun left it.
RunExisting(c) ==
    /\ c.op = "again"
    /\ IF MayRunAgain(rows[c.task][c.row].state)
       THEN /\ RunAction(c.task, c.row)
            /\ calls' = (calls \ {c})
                 \cup {Call("run", c.task, c.row, rows[c.task][c.row].runs + 1)}
       ELSE calls' = calls \ {c} /\ UNCHANGED rows
    /\ UNCHANGED <<doc, wf, txs, overlapped, skipped, late, paused, pauses, reruns>>

Execute(c) ==
    /\ c.op = "run"
    /\ \E res \in doc.outcome[c.task] :
         calls' = (calls \ {c}) \cup {Call("done", c.task, c.row, res)}
    /\ UNCHANGED <<doc, wf, rows, txs, overlapped, skipped, late, paused, pauses, reruns>>

\* Task.complete(): the own state is updated before the controller looks.
BeginDone(c) ==
    LET after == With(rows, c.task, c.row, c.arg) IN
    /\ c.op = "done"
    /\ calls' = calls \ {c}
    /\ IF rows[c.task][c.row].state \in Completed
       THEN UNCHANGED <<txs, overlapped>>
       ELSE \E found \in IF wf \in ActionEnd THEN {<<>>} ELSE Findings(after) :
               Begins(c, found)
    /\ UNCHANGED <<doc, wf, rows, skipped, late, paused, pauses, reruns>>

\* A task of a workflow that was paused when the handler loaded it starts nothing.
Dispatches(x) == x.wf = "RUNNING"

Complete(x) ==
    LET t == x.call.task
        after == With(rows, t, x.call.row, x.call.arg)
        start == IF Dispatches(x) THEN x.found ELSE <<>>
    IN  /\ x.call.op = "done" /\ Commits(x)
        /\ IF rows[t][x.call.row].state = x.seen
           THEN /\ rows' = Created(after, start)
                /\ calls' = calls \cup Started(after, start)
                              \cup (IF x.wf = "PAUSED" THEN {} ELSE {Check})
           ELSE UNCHANGED <<rows, calls>>
        /\ UNCHANGED <<doc, wf, skipped, late, paused, pauses, reruns>>

CheckAndComplete(c) ==
    /\ c.op = "check"
    /\ calls' = calls \ {c}
    /\ wf' = IF wf = "RUNNING" THEN Verdict(rows) ELSE wf
    /\ UNCHANGED <<doc, rows, txs, overlapped, skipped, late, paused, pauses, reruns>>

-----------------------------------------------------------------------------
(* The operator.                                                            *)

Pause ==
    /\ wf = "RUNNING" /\ pauses > 0
    /\ wf' = "PAUSED" /\ pauses' = pauses - 1 /\ paused' = TRUE
    /\ UNCHANGED <<doc, rows, calls, txs, overlapped, skipped, late, reruns>>

\* resume_workflow(): IDLE tasks are started again, and it looks for others.
BeginResume ==
    /\ wf = "PAUSED" /\ \A x \in txs : x.call.op # "resume"
    /\ \E found \in Findings(rows) : Begins(Resuming(pauses), found)
    /\ UNCHANGED <<doc, wf, rows, calls, skipped, late, paused, pauses, reruns>>

Idle == {ti \in RowsOf(rows, Task) : rows[ti[1]][ti[2]].state = "IDLE"}

Resume(x) ==
    /\ x.call.op = "resume" /\ Commits(x)
    /\ IF wf = "PAUSED"
       THEN /\ wf' = IF DOMAIN x.found = {} /\ Idle = {} THEN Verdict(rows) ELSE "RUNNING"
            /\ rows' = Created(rows, x.found)
            /\ calls' = calls \cup Started(rows, x.found)
                          \cup {Call("again", ti[1], ti[2], "NONE") : ti \in Idle}
       ELSE UNCHANGED <<wf, rows, calls>>
    /\ UNCHANGED <<doc, skipped, late, paused, pauses, reruns>>

\* PUT /tasks: the state is checked before the engine is asked.
Put(t, i, op) ==
    /\ rows[t][i].state = "ERROR" /\ reruns > 0
    /\ reruns' = reruns - 1
    /\ calls' = calls \cup {Call(op, t, i, "NONE")}
    /\ UNCHANGED <<doc, wf, rows, txs, overlapped, skipped, late, paused, pauses>>

\* Workflow.rerun(): a paused or a successful workflow is not rerun.
Rerun(c) ==
    /\ c.op \in {"rerun", "skip"}
    /\ IF wf \in {"PAUSED", "SUCCESS"}
       THEN calls' = calls \ {c} /\ UNCHANGED <<wf, rows, skipped, late>>
       ELSE /\ wf' = "RUNNING"
            /\ \/ /\ c.op = "rerun"
                  /\ calls' = (calls \ {c}) \cup {[c EXCEPT !.op = "again"]}
                  /\ late' = (late \/ rows[c.task][c.row].state # "ERROR")
                  /\ UNCHANGED <<rows, skipped>>
               \/ /\ c.op = "skip"
                  /\ skipped' = skipped \cup {c.task}
                  /\ UNCHANGED late
                  /\ \E found \in Findings(rows) :
                       /\ rows' = Created(With(rows, c.task, c.row, "SKIPPED"), found)
                       /\ calls' = (calls \ {c}) \cup Started(rows, found) \cup {Check}
    /\ overlapped' = (overlapped \/ txs # {})
    /\ UNCHANGED <<doc, txs, paused, pauses, reruns>>

-----------------------------------------------------------------------------
EngineStep ==
    \/ \E c \in calls : \/ RunNew(c) \/ RunExisting(c) \/ Execute(c) \/ BeginDone(c)
                        \/ CheckAndComplete(c) \/ Rerun(c)
    \/ \E x \in txs : Complete(x) \/ Resume(x)

OperatorStep ==
    \/ StartWorkflow \/ Pause \/ BeginResume
    \/ \E t \in Task : \E i \in DOMAIN rows[t], op \in {"rerun", "skip"} : Put(t, i, op)

Next == EngineStep \/ OperatorStep

ReverseSpec == Init /\ [][Next]_vars

\* Messages are delivered and transactions end.
ReverseFairSpec == ReverseSpec /\ WF_vars(EngineStep)

-----------------------------------------------------------------------------
\* A workflow succeeds only if its target was reached, unless a task was skipped,
\* the requirements have a cycle (a resume that finds nothing to do completes the
\* workflow), two transactions looked for tasks at once, each blind to the
\* completion that the other was about to commit (_find_next_commands), or a late
\* rerun has revived a workflow whose task succeeded after it had ended, when a
\* completion starts nothing.
TargetReached ==
    wf = "SUCCESS" /\ skipped = {} /\ ~late /\ ~Cyclic /\ ~overlapped =>
        HasState(rows, doc.target, {"SUCCESS"})

\* A task has one execution, and it has it after all it requires succeeded, unless
\* transactions overlapped; what succeeded stays so, unless it is skipped, however
\* often and however late it is rerun (_is_satisfied_task, _run_existing).
OneAfterItsRequirements ==
    ~overlapped => \A t \in Task :
        /\ Len(rows[t]) <= 1
        /\ rows[t] # <<>> => \A u \in Requires(t) \ skipped : HasState(rows, u, {"SUCCESS"})

\* Where branches meet, a task never receives a value that one of the tasks
\* before it has already replaced, whatever the order of the rows, if the
\* variable keeps its kind (merge_context_by_version).
Publishers == {t \in doc.tasks : doc.publish[t] # "absent"}
NewestArrives ==
    (\A u, v \in Publishers : doc.publish[u] = doc.publish[v]) =>
      \A t \in Task : \A i \in DOMAIN rows[t] :
        rows[t][i].state \in {"IDLE", "RUNNING"} =>
          LET by == rows[t][i].ctx.by IN
          ~ \E u \in Publishers : Before(u, t) /\ by # Nobody /\ Before(by, u)

ReverseInv == ReverseTypeOK /\ TargetReached /\ OneAfterItsRequirements /\ NewestArrives

\* A started workflow ends or is paused, unless a cycle leaves nothing to start, a
\* resume overlapped a completion (the completion saw PAUSED and dispatched nothing,
\* the resume did not see the completion), or a rerun came too late: it sets the
\* workflow RUNNING for a task that has succeeded, and nothing checks it any more.
Hangs == Cyclic \/ (overlapped /\ paused) \/ late
ReverseEnds == wf = "RUNNING" ~> (wf \in ActionEnd \cup {"PAUSED"} \/ Hangs)
=============================================================================
