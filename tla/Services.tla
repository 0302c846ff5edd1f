-------------------------------- MODULE Services --------------------------------
(***************************************************************************)
(* The services beside the engine, together: users, cron triggers and      *)
(* event triggers start executions, maintenance pauses and resumes them,   *)
(* and the expiration policy deletes them when they have completed.  The   *)
(* legacy scheduler runs beside them, on rows of its own.                  *)
(***************************************************************************)
EXTENDS CronTrigger, Maintenance, Expiration, EventEngine, LegacyScheduler

vars == <<execVars, left, cronVars, maintVars, expVars, eventVars, legacyVars>>

ServicesTypeOK ==
    /\ ExecTypeOK /\ CronTypeOK /\ MaintTypeOK /\ ExpTypeOK /\ EventTypeOK
    /\ LegacyTypeOK

Init == ExecInit /\ CronInit /\ MaintInit /\ ExpInit /\ EventInit /\ LegacyInit

\* An execution that completed again is not one that had expired.
StillExpired ==
    expired' = [c \in Cleaner |-> {e \in expired[c] : state'[e] = state[e]}]

NotCron  == UNCHANGED cronVars
NotMaint == UNCHANGED maintVars
NotExp   == UNCHANGED expVars
NotEvent == UNCHANGED eventVars
NotLegacy == UNCHANGED legacyVars

\* A trigger starts a workflow by RPC, past the hook of maintenance.
StartedByTrigger(e) ==
    /\ excused' = Outside(e)
    /\ UNCHANGED <<status, job, admitted, chosen>>

\* The end of an execution lets go of the trust of a trigger that is gone.
ReleaseTrusts(done) ==
    /\ trust' = TrustAfter(done)
    /\ UNCHANGED <<now, trigger, gens, count, copy, step, cause, missed>>

-----------------------------------------------------------------------------
(* Cron triggers.                                                           *)

CronAlone == NotMaint /\ NotExp /\ NotEvent

Time      == Tick /\ CronAlone
Poll(en)  == GetNextCronTriggers(en) /\ CronAlone
Decide(en) == AdvanceCronTrigger(en) /\ CronAlone
Run(en)   == \/ \E e \in Execs : StartByCron(en, e) /\ StartedByTrigger(e)
                                  /\ NotExp /\ NotEvent
             \/ CronFails(en) /\ CronAlone
CronApi   == /\ DeleteCronTrigger \/ \E n \in {1, Unlimited} : CreateCronTrigger(n)
             /\ CronAlone

-----------------------------------------------------------------------------
(* Event triggers.                                                          *)

EventAlone == NotCron /\ NotMaint /\ NotExp

EventApi == /\ EventAlone
            /\ \E t \in Trigger : \/ CreateEventTrigger(t) \/ DeleteEventTrigger(t)
                                  \/ RollbackRequest(t) \/ Notify(t) \/ LoopDies(t)
EventRestart == Restart /\ EventAlone
EventCommit  == (\E t \in Trigger : CommitRequest(t)) /\ EventAlone
EventCall    == (\E call \in calls : HandleCall(call)) /\ EventAlone
EventLoop(t) == \E e \in Execs :
    /\ ProcessEvent(t, e)
    /\ IF t \in known THEN StartedByTrigger(e) ELSE NotMaint
    /\ NotCron /\ NotExp

-----------------------------------------------------------------------------
(* Maintenance, and the executions themselves.                              *)

Ended == {e \in Execs : state[e] \notin Terminal /\ state'[e] \in Terminal}

EngineAlone == /\ ReleaseTrusts(Ended)
               /\ UNCHANGED <<pass, batch, fetched>> /\ StillExpired
               /\ NotEvent

JobStep(j) ==
    /\ \/ SelectRunning(j) \/ \E e \in Execs : BeginPause(j, e)
       \/ EndPause(j) \/ AllPaused(j) \/ AwaitPause(j) \/ ReadStatus(j)
       \/ SetPaused(j) \/ ResumeExecutions(j)
    /\ EngineAlone
JobFault(j) == (PauseFails(j) \/ JobRestarts(j)) /\ EngineAlone

Users == /\ \/ \E new \in {"PAUSED", "RUNNING"} : ChangeMaintenanceMode(new)
            \/ \E what \in Requests : Admit(what)
            \/ \E e \in Execs : ActOnRequest(e) \/ CancelByUser(e)
            \/ RequestFails
         /\ EngineAlone

Ends(e) == /\ \E s \in Terminal : TaskEnds(e, s)
           /\ EngineAlone /\ NotMaint /\ UNCHANGED left

-----------------------------------------------------------------------------
(* Expiration.                                                              *)

Policy(c) ==
    /\ \/ BeginPass(c) \/ Fetch(c) \/ FetchNothing(c) \/ EndBatch(c)
       \/ \E e \in Execs : Delete(c, e)
    /\ NotCron /\ NotMaint /\ NotEvent
PolicyFault(c) == (\E e \in Execs : DeleteFails(c, e))
                    /\ NotCron /\ NotMaint /\ NotEvent

-----------------------------------------------------------------------------
(* The legacy scheduler.                                                    *)

LegacyAlone == UNCHANGED execVars /\ NotCron /\ NotMaint /\ NotExp /\ NotEvent

Caller(j)     == (Schedule(j) \/ EndTransaction(j)) /\ LegacyAlone
CallIsDue(j)  == BecomeDue(j) /\ LegacyAlone
CallsLoop(p)  == LegacyLoop(p) /\ LegacyAlone
CallsFault(p) == (DeletionFails(p) \/ Crash(p)) /\ LegacyAlone

-----------------------------------------------------------------------------
ExecutionsStep ==
    \/ Time \/ CronApi \/ \E en \in Engine : Poll(en) \/ Decide(en) \/ Run(en)
    \/ EventApi \/ EventRestart \/ EventCommit \/ EventCall
    \/ \E t \in Trigger : EventLoop(t)
    \/ Users \/ \E j \in Jobs : JobStep(j) \/ JobFault(j)
    \/ \E e \in Execs : Ends(e)
    \/ \E c \in Cleaner : Policy(c) \/ PolicyFault(c)

Next ==
    \/ ExecutionsStep /\ NotLegacy
    \/ \E j \in Job : Caller(j) \/ CallIsDue(j)
    \/ \E p \in Proc : CallsLoop(p) \/ CallsFault(p)

Spec == Init /\ [][Next]_vars

\* The loops of the services come round; time passes, tasks end, and the
\* scheduler runs its jobs.  Nothing is assumed of users and of faults.
Fairness ==
    /\ WF_vars(Time /\ NotLegacy)
    /\ \A en \in Engine : WF_vars((Poll(en) \/ Decide(en) \/ Run(en)) /\ NotLegacy)
    /\ \A t \in Trigger : WF_vars(EventLoop(t) /\ NotLegacy)
    /\ \A j \in Jobs : WF_vars(JobStep(j) /\ NotLegacy)
    /\ \A e \in Execs : WF_vars(Ends(e) /\ NotLegacy)
    /\ \A c \in Cleaner : WF_vars(Policy(c) /\ NotLegacy)
    /\ \A j \in Job : WF_vars(CallIsDue(j)) /\ WF_vars(EndTransaction(j) /\ LegacyAlone)
    /\ \A p \in Proc : WF_vars(CallsLoop(p))

ServicesFairSpec == Spec /\ Fairness

-----------------------------------------------------------------------------
\* What must hold of the triggers' rows, the trusts and the executions together
\* (see CronTrigger), of what the event engine knows of the table (see
\* EventEngine), and of the legacy scheduler's calls.
ServicesInv  == /\ ServicesTypeOK /\ OncePerDueTime /\ CountAddsUp /\ TrustReleased
                /\ EngineFollowsTable /\ CalledAtMostOnce
\* What the services must bring about in the end: due triggers start, maintenance
\* comes and goes, finished executions are removed, accepted events are processed.
ServicesLive == /\ DueTimesStart /\ MaintenanceEnds /\ PausingEnds
                /\ FinishedAreBounded /\ AcceptedEventsAreProcessed
=============================================================================
