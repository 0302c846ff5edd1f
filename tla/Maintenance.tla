------------------------------ MODULE Maintenance ------------------------------
(***************************************************************************)
(* Maintenance mode.  PUT /maintenance sets the status of the cluster and  *)
(* schedules a job that pauses every running execution and waits until no  *)
(* task runs, or one that resumes every paused execution.  While the       *)
(* status is not RUNNING the API refuses requests, but a request that was  *)
(* admitted before still acts, and triggers do not pass through the API.   *)
(***************************************************************************)
EXTENDS Executions

CONSTANT MaxJobs      (* how many jobs are ever scheduled                    *)

ASSUME MaintenanceAssumption == MaxJobs \in Nat

Jobs     == 1..MaxJobs
Phase    == {"none", "select", "pausing", "waiting", "closing", "writing", "done"}
Requests == {"start", "pause", "resume", "rerun"}

VARIABLES
    status,    \* "RUNNING", "PAUSING", "PAUSED"
    job,       \* Jobs -> [kind, phase, list, cur]
    admitted,  \* the request that has passed the hook, or "no": [what, mode]
    chosen,    \* SUBSET Execs: history, paused by a user
    excused    \* SUBSET Execs: history, see ExcusedBy

maintVars == <<status, job, admitted, chosen, excused>>

NoExec    == 0
NoRequest == [what |-> "no", mode |-> "RUNNING"]
NoJob  == [kind |-> "none", phase |-> "none", list |-> {}, cur |-> NoExec]

MaintTypeOK ==
    /\ status \in {"RUNNING", "PAUSING", "PAUSED"}
    /\ job \in [Jobs -> [kind : {"none", "pause", "resume"}, phase : Phase,
                         list : SUBSET Execs, cur : {NoExec} \cup Execs]]
    /\ admitted.what \in Requests \cup {"no"}
    /\ chosen \subseteq Execs /\ excused \subseteq Execs

MaintInit ==
    /\ status = "RUNNING" /\ job = [j \in Jobs |-> NoJob]
    /\ admitted = NoRequest /\ chosen = {} /\ excused = {}

Unfinished(kind) ==
    {j \in Jobs : job[j].kind = kind /\ job[j].phase # "done"}

-----------------------------------------------------------------------------
(* change_maintenance_mode(): the status and the job in one transaction.    *)

\* What may be in the wrong state when the mode is next reached: an execution
\* whose pausing had begun when the mode changed; everything when a second pause
\* job starts beside an unfinished one, which then reports for both, or when the
\* job has read PAUSING and is about to overwrite the new status.
ExcusedBy(new) ==
    IF \/ new = "PAUSED" /\ Unfinished("pause") # {}
       \/ \E j \in Jobs : job[j].phase = "writing"
    THEN Execs
    ELSE {job[j].cur : j \in Unfinished("pause")} \ {NoExec}

ChangeMaintenanceMode(new) ==
    /\ new \in {"PAUSED", "RUNNING"} /\ new # status
    /\ Spend("toggle")
    /\ \E j \in Jobs :
         /\ job[j] = NoJob /\ \A i \in 1..(j - 1) : job[i] # NoJob
         /\ job' = [job EXCEPT ![j] =
                      [kind |-> IF new = "PAUSED" THEN "pause" ELSE "resume",
                       phase |-> "select", list |-> {}, cur |-> NoExec]]
    /\ status' = IF new = "PAUSED" THEN "PAUSING" ELSE "RUNNING"
    /\ excused' = IF new = "PAUSED" /\ Unfinished("pause") = {} THEN {}
                  ELSE excused \cup ExcusedBy(new)
    /\ UNCHANGED <<admitted, chosen>> /\ UNCHANGED execVars

-----------------------------------------------------------------------------
(* The jobs.                                                                *)

To(j, phase) == job' = [job EXCEPT ![j].phase = phase]

Pausing(j, list, cur) ==
    job' = [job EXCEPT ![j] = [kind |-> "pause", phase |-> "pausing",
                               list |-> list, cur |-> cur]]

\* pause_running_executions(): the list, and then one transaction for each,
\* which reads the status before it pauses.
SelectRunning(j) ==
    /\ job[j].kind = "pause" /\ job[j].phase = "select"
    /\ Pausing(j, In("RUNNING"), NoExec)
    /\ UNCHANGED <<status, admitted, chosen, excused, left>>
    /\ UNCHANGED execVars

BeginPause(j, e) ==
    /\ job[j].phase = "pausing" /\ job[j].cur = NoExec /\ e \in job[j].list
    /\ Pausing(j, job[j].list \ {e}, IF status = "PAUSING" THEN e ELSE NoExec)
    /\ UNCHANGED <<status, admitted, chosen, excused, left>>
    /\ UNCHANGED execVars

EndPause(j) ==
    /\ job[j].cur # NoExec
    /\ Pausing(j, job[j].list, NoExec)
    /\ IF state[job[j].cur] = "RUNNING" THEN PauseWorkflow(job[j].cur)
       ELSE UNCHANGED execVars
    /\ UNCHANGED <<status, admitted, chosen, excused, left>>

\* The transaction of one execution fails: logged, and the next one follows.
PauseFails(j) ==
    /\ job[j].cur # NoExec
    /\ Spend("fault")
    /\ Pausing(j, job[j].list, NoExec)
    /\ excused' = excused \cup {job[j].cur}
    /\ UNCHANGED <<status, admitted, chosen>> /\ UNCHANGED execVars

AllPaused(j) ==
    /\ job[j].phase = "pausing" /\ job[j].list = {} /\ job[j].cur = NoExec
    /\ To(j, "waiting")
    /\ UNCHANGED <<status, admitted, chosen, excused, left>>
    /\ UNCHANGED execVars

\* await_pause_executions(): until the status changes or no task is RUNNING.
Awaited(j) ==
    IF status # "PAUSING" THEN "done"
    ELSE IF busy = {} THEN "closing" ELSE "waiting"

AwaitPause(j) ==
    /\ job[j].phase = "waiting" /\ Awaited(j) # "waiting"
    /\ To(j, Awaited(j))
    /\ UNCHANGED <<status, admitted, chosen, excused, left>>
    /\ UNCHANGED execVars

\* The last look at the status and the update are two statements; nothing locks
\* the row in between.
ReadStatus(j) ==
    /\ job[j].phase = "closing"
    /\ To(j, IF status = "PAUSING" THEN "writing" ELSE "done")
    /\ UNCHANGED <<status, admitted, chosen, excused, left>> /\ UNCHANGED execVars

SetPaused(j) ==
    /\ job[j].phase = "writing"
    /\ status' = "PAUSED"
    /\ To(j, "done")
    /\ UNCHANGED <<admitted, chosen, excused, left>> /\ UNCHANGED execVars

\* The engine that runs a job dies: the scheduler runs the job once more.
Restarted == "select"

JobRestarts(j) ==
    /\ job[j].phase \notin {"none", "select", "done"}
    /\ Spend("fault")
    /\ job' = [job EXCEPT ![j].phase = Restarted, ![j].list = {}, ![j].cur = NoExec]
    /\ UNCHANGED <<status, admitted, chosen, excused>> /\ UNCHANGED execVars

\* _resume_executions(): one transaction for all.  The first is read with the
\* context of an administrator, the next ones with the project of the previous
\* one: an execution of another project is not found and nothing is resumed.
ToResumeNone(j) == {}                                  \* mutant: nothing at all
ToResume(j) ==
    IF status # "RUNNING" \/ \E d, e \in In("PAUSED") : owner[d] # owner[e]
    THEN {} ELSE In("PAUSED")

ResumeExecutions(j) ==
    /\ job[j].kind = "resume" /\ job[j].phase = "select"
    /\ To(j, "done")
    /\ ResumeWorkflows(ToResume(j))
    /\ chosen' = chosen \ ToResume(j)
    /\ UNCHANGED <<status, admitted, excused, left>>

-----------------------------------------------------------------------------
(* The API: MaintenanceHook, and the handlers behind it.                    *)

AllowedAlways(what) == TRUE                            \* mutant: no hook
Allowed(what) == status = "RUNNING"

Admit(what) ==
    /\ admitted = NoRequest /\ what \in Requests
    /\ Allowed(what)
    /\ Spend("request")
    /\ admitted' = [what |-> what, mode |-> status]
    /\ UNCHANGED <<status, job, chosen, excused>> /\ UNCHANGED execVars

\* What starts an execution in maintenance without passing the hook then.
Outside(e) == IF status = "RUNNING" THEN excused ELSE excused \cup {e}

\* The handler acts after the hook, whatever the mode has become.
ActOnRequest(e) ==
    /\ \/ admitted.what = "start"  /\ StartWorkflow(e) /\ UNCHANGED chosen
       \/ admitted.what = "pause"  /\ PauseWorkflow(e) /\ chosen' = chosen \cup {e}
       \/ admitted.what = "resume" /\ state[e] = "PAUSED" /\ ResumeWorkflows({e})
          /\ chosen' = chosen \ {e}
       \/ admitted.what = "rerun"  /\ RerunWorkflow(e) /\ UNCHANGED chosen
    /\ admitted' = NoRequest
    /\ excused' = IF admitted.mode = "RUNNING" THEN Outside(e) ELSE excused
    /\ UNCHANGED <<status, job, left>>

\* What was asked for cannot be done any more.
RequestFails ==
    /\ admitted # NoRequest
    /\ admitted' = NoRequest
    /\ UNCHANGED <<status, job, chosen, excused, left>> /\ UNCHANGED execVars

\* Cancelling is allowed in any mode.
CancelByUser(e) ==
    /\ Spend("cancel")
    /\ CancelWorkflow(e)
    /\ UNCHANGED maintVars

-----------------------------------------------------------------------------
\* In maintenance nothing runs, neither an execution nor a task, except what a
\* trigger or a request admitted earlier started, and what could not be paused:
\* the job pauses one execution after the other while requests, tasks and triggers
\* go on, and must not report PAUSED before the last of them.
NothingRunsInMaintenance ==
    status = "PAUSED" => In("RUNNING") \cup busy \subseteq excused

\* What maintenance paused runs again: once the mode is back to RUNNING and the
\* executions belong to one project, none stays PAUSED unless a user paused it, or
\* its pausing overlapped with the change of the mode.
OneProject == \A d, e \in In("PAUSED") : owner[d] = owner[e]
MaintenanceEnds ==
    status = "RUNNING" /\ OneProject ~>
      (status # "RUNNING" \/ ~OneProject
       \/ In("PAUSED") \subseteq chosen \cup excused)
\* Maintenance does not hang in PAUSING while tasks end.
PausingEnds == status = "PAUSING" ~> status # "PAUSING"
=============================================================================
