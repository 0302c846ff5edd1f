--------------------------- MODULE Services_proofs ---------------------------
(***************************************************************************)
(* What the services beside the engine keep, for any executions, engines,  *)
(* triggers, jobs and budgets of the outside world: the invariants of the  *)
(* cron triggers, of the event engine, of maintenance mode, of the         *)
(* expiration policy and of the legacy scheduler, whatever the others do   *)
(* to the executions in the meantime.                                      *)
(***************************************************************************)
EXTENDS Services, FiniteSetTheorems, TLAPS

-----------------------------------------------------------------------------
(* The legacy scheduler.                                                    *)

\* A captured call belongs to one loop, which has called it or is going to.
CallsAreTaken ==
    /\ \A p \in Proc : loop[p] = "idle" => taken[p] = {}
    /\ \A p \in Proc : loop[p] # "invoking" => todo[p] = {}
    /\ \A p \in Proc : loop[p] \in {"captured", "invoking"} =>
          \A j \in taken[p] :
             /\ row[j] = "stored" /\ j \in processing
             /\ called[j] = IF loop[p] = "captured" \/ j \in todo[p] THEN 0 ELSE 1
    /\ \A p, q \in Proc :
          /\ p # q /\ loop[p] \in {"captured", "invoking"}
          /\ loop[q] \in {"captured", "invoking"}
          => taken[p] \cap taken[q] = {}
    /\ \A j \in Job : called[j] > 0 => j \in processing
    /\ \A j \in processing : row[j] \in {"stored", "removed"}

LegacyKept == LegacyTypeOK /\ CallsAreTaken /\ CalledAtMostOnce

\* Whose steps change the delayed calls.
LegacyStep ==
    \/ \E j \in Job : Schedule(j) \/ EndTransaction(j) \/ BecomeDue(j)
    \/ \E p \in Proc : LegacyLoop(p) \/ DeletionFails(p) \/ Crash(p)

\* What is not a step of the legacy scheduler leaves its rows and loops alone.
LEMMA LegacySteps == [Next]_vars => LegacyStep \/ UNCHANGED legacyVars
<1>1. CASE ExecutionsStep /\ NotLegacy
  BY <1>1 DEF NotLegacy
<1>2. CASE \E j \in Job : Caller(j) \/ CallIsDue(j)
  BY <1>2 DEF Caller, CallIsDue, LegacyStep
<1>3. CASE \E p \in Proc : CallsLoop(p) \/ CallsFault(p)
  BY <1>3 DEF CallsLoop, CallsFault, LegacyStep
<1>4. CASE UNCHANGED vars
  BY <1>4 DEF vars
<1> QED
  BY <1>1, <1>2, <1>3, <1>4 DEF Next

\* At first no call was made.
LEMMA LegacyInitially == Init => LegacyKept
BY DEF Init, LegacyInit, LegacyKept, LegacyTypeOK, CallsAreTaken, CalledAtMostOnce

\* Every step of the loops keeps a call in one hand.
LEMMA LegacyNext == LegacyKept /\ [Next]_vars => LegacyKept'
<1> SUFFICES ASSUME LegacyKept, [Next]_vars PROVE LegacyKept'
  OBVIOUS
<1> USE DEF LegacyKept, LegacyTypeOK, CallsAreTaken, CalledAtMostOnce
<1>1. CASE UNCHANGED legacyVars
  BY <1>1 DEF legacyVars
<1>2. ASSUME NEW j \in Job, Schedule(j) PROVE LegacyKept'
  BY <1>2 DEF Schedule, loopVars
<1>3. ASSUME NEW j \in Job, EndTransaction(j) PROVE LegacyKept'
  BY <1>3 DEF EndTransaction, loopVars
<1>4. ASSUME NEW j \in Job, BecomeDue(j) PROVE LegacyKept'
  BY <1>4 DEF BecomeDue, loopVars
<1>5. ASSUME NEW p \in Proc, Select(p) PROVE LegacyKept'
  BY <1>5 DEF Select, Eligible
<1>6. ASSUME NEW p \in Proc, Capture(p) PROVE LegacyKept'
  <2>1. LegacyTypeOK'
    BY <1>6 DEF Capture, Won
  <2>2. CallsAreTaken'
    <3>1. \A j \in Won(p) : row[j] = "stored" /\ j \notin processing /\ called[j] = 0
      BY DEF Won
    <3> QED
      BY <1>6, <3>1 DEF Capture
  <2> QED
    BY <1>6, <2>1, <2>2 DEF Capture
<1>7. ASSUME NEW p \in Proc, Prepare(p) PROVE LegacyKept'
  <2>1. GivenUp(p) = {} \/ GivenUp(p) = taken[p]
    BY DEF GivenUp
  <2> QED
    BY <1>7, <2>1 DEF Prepare
<1>8. ASSUME NEW p \in Proc, DeleteCalls(p) PROVE LegacyKept'
  BY <1>8 DEF DeleteCalls, Invoked, Leave
<1>9. ASSUME NEW p \in Proc, NEW j \in Job, Invoke(p, j) PROVE LegacyKept'
  <2>1. j \in taken[p] /\ called[j] = 0 /\ called' = [called EXCEPT ![j] = 1]
    <3>1. j \in taken[p] /\ called[j] = 0
      BY <1>9 DEF Invoke
    <3>2. called' = [called EXCEPT ![j] = called[j] + 1]
      BY <1>9 DEF Invoke
    <3> QED
      BY <3>1, <3>2
  <2>2. LegacyTypeOK'
    BY <1>9, <2>1 DEF Invoke
  <2>3. CallsAreTaken' /\ CalledAtMostOnce'
    BY <1>9, <2>1 DEF Invoke
  <2> QED
    BY <2>2, <2>3
<1>10. ASSUME NEW p \in Proc, DeletionFails(p) PROVE LegacyKept'
  BY <1>10 DEF DeletionFails, Invoked, Leave
<1>11. ASSUME NEW p \in Proc, Crash(p) PROVE LegacyKept'
  BY <1>11 DEF Crash, Leave
<1> QED
  BY <1>1, <1>2, <1>3, <1>4, <1>5, <1>6, <1>7, <1>8, <1>9, <1>10, <1>11, LegacySteps
  DEF LegacyStep, LegacyLoop

\* Several engines compete for the same rows, and still no call is made before the
\* caller's commit, nor forgotten before it was made.
THEOREM LegacyImplementsPromise == Spec => KeepsPromise
<1>1. Init => Promise!Init
  BY DEF Init, LegacyInit, Promise!Init
<1>2. LegacyKept /\ LegacyKept' /\ [Next]_vars
         => [Promise!Next]_<<row, [j \in Job |-> 1..called[j]]>>
  <2> SUFFICES ASSUME LegacyKept, LegacyKept', LegacyStep \/ UNCHANGED legacyVars
               PROVE  Promise!Next \/ UNCHANGED <<row, [j \in Job |-> 1..called[j]]>>
    BY LegacySteps
  <2> USE DEF LegacyKept, LegacyTypeOK, CallsAreTaken
  <2>1. ASSUME \A j \in Job :
                 /\ \/ row'[j] = row[j]
                    \/ row[j] = "none" /\ row'[j] = "open"
                    \/ row[j] = "open" /\ row'[j] \in {"stored", "dropped"}
                    \/ row[j] = "stored" /\ row'[j] = "removed" /\ called[j] = 1
                 /\ \/ called'[j] = called[j]
                    \/ row[j] = "stored" /\ called[j] = 0 /\ called'[j] = 1
        PROVE  Promise!Next
    <3>1. 1..0 = {} /\ 1..1 = {1}
      OBVIOUS
    <3>2. [j \in Job |-> 1..called'[j]] \in [Job -> SUBSET (Nat \ {0})]
      BY DEF LegacyKept
    <3>3. row' \in [Job -> Promise!Stage]
      BY DEF Promise!Stage
    <3>4. ASSUME NEW j \in Job PROVE Promise!Moves(j) /\ Promise!Calls(j)
      <4>1. Promise!Moves(j)
        BY <2>1, <3>1 DEF Promise!Moves
      <4>2. CASE called'[j] = called[j]
        BY <4>1, <4>2 DEF Promise!Calls
      <4>3. CASE row[j] = "stored" /\ called[j] = 0 /\ called'[j] = 1
        <5>1. 1 \in 1..called'[j] /\ 1..called'[j] = (1..called[j]) \cup {1}
          BY <3>1, <4>3
        <5> QED
          BY <4>1, <4>3, <5>1 DEF Promise!Calls
      <4> QED
        BY <2>1, <4>2, <4>3
    <3> QED
      BY <3>2, <3>3, <3>4 DEF Promise!Next
  <2>2. ASSUME NEW j \in Job, Schedule(j) \/ EndTransaction(j) \/ BecomeDue(j)
        PROVE  Promise!Next
    BY <2>1, <2>2 DEF Schedule, EndTransaction, BecomeDue
  <2>3. ASSUME NEW p \in Proc, LegacyLoop(p) PROVE Promise!Next
    BY <2>1, <2>3
    DEF LegacyLoop, Select, Capture, Prepare, DeleteCalls, Invoke, Invoked
  <2>4. ASSUME NEW p \in Proc, DeletionFails(p) \/ Crash(p) PROVE Promise!Next
    BY <2>1, <2>4 DEF DeletionFails, Crash
  <2>5. CASE UNCHANGED legacyVars
    BY <2>5 DEF legacyVars
  <2> QED
    BY <2>2, <2>3, <2>4, <2>5 DEF LegacyStep
<1> QED
  BY <1>1, <1>2, LegacyInitially, LegacyNext, PTL DEF Spec, KeepsPromise, Promise!Spec

-----------------------------------------------------------------------------
(* The event engine.                                                        *)

\* The table as it will be when the open request has committed.
Expected == {t \in Trigger : \/ request[t] = "creating"
                             \/ t \in rows /\ request[t] # "deleting"}

\* Requests that do not overlap: one at most is open and one call at most is on its
\* way, which takes the engine from what it knows to what the table will be.
OneAtATime ==
    /\ \A t, u \in Trigger : request[t] # "none" /\ request[u] # "none" => t = u
    /\ \A c, d \in calls : c = d
    /\ \A c \in calls, t \in Trigger : request[t] # "none" => c.trigger = t
    /\ calls = {} => known = Expected /\ heard = Expected
    /\ \A c \in calls :
          /\ c.events = Expected
          /\ IF c.kind = "create" THEN known \cup {c.trigger} = Expected
             ELSE c.trigger \in known /\ known \ {c.trigger} = Expected

EventKept == EventTypeOK /\ (~disturbed => OneAtATime)

\* Whose steps change what the event engine and its table keep.
EventStep ==
    \/ \E t \in Trigger :
          \/ CreateEventTrigger(t) \/ DeleteEventTrigger(t) \/ RollbackRequest(t)
          \/ Notify(t) \/ LoopDies(t) \/ CommitRequest(t)
          \/ \E e \in Execs : ProcessEvent(t, e)
    \/ Restart
    \/ \E c \in calls : HandleCall(c)

\* What is not a step of the event engine leaves its triggers and queue alone.
LEMMA EventSteps == [Next]_vars => EventStep \/ UNCHANGED eventVars
<1> USE DEF NotEvent
<1>1. CASE \/ Time \/ CronApi \/ \E en \in Engine : Poll(en) \/ Decide(en) \/ Run(en)
  BY <1>1 DEF Time, CronApi, Poll, Decide, Run, CronAlone
<1>2. CASE \/ EventApi \/ EventRestart \/ EventCommit \/ EventCall
           \/ \E t \in Trigger : EventLoop(t)
  BY <1>2 DEF EventApi, EventRestart, EventCommit, EventCall, EventLoop, EventStep
<1>3. CASE \/ Users \/ \E j \in Jobs : JobStep(j) \/ JobFault(j)
           \/ \E e \in Execs : Ends(e)
  BY <1>3 DEF Users, JobStep, JobFault, Ends, EngineAlone
<1>4. CASE \E c \in Cleaner : Policy(c) \/ PolicyFault(c)
  BY <1>4 DEF Policy, PolicyFault
<1>5. CASE \/ \E j \in Job : Caller(j) \/ CallIsDue(j)
           \/ \E p \in Proc : CallsLoop(p) \/ CallsFault(p)
  BY <1>5 DEF Caller, CallIsDue, CallsLoop, CallsFault, LegacyAlone
<1>6. CASE UNCHANGED vars
  BY <1>6 DEF vars
<1> QED
  BY <1>1, <1>2, <1>3, <1>4, <1>5, <1>6 DEF Next, ExecutionsStep

\* At first the engine knows the empty table.
LEMMA EventInitially == Init => EventKept
<1> SUFFICES ASSUME Init PROVE EventKept
  OBVIOUS
<1>1. EventTypeOK
  BY DEF Init, EventInit, EventTypeOK
<1>2. Expected = {}
  BY DEF Init, EventInit, Expected
<1>3. OneAtATime
  BY <1>2 DEF Init, EventInit, OneAtATime
<1> QED
  BY <1>1, <1>3 DEF EventKept

\* A request takes table and engine the same way, unless it is rolled back or
\* overlaps with another.
LEMMA EventNext == EventKept /\ [Next]_vars => EventKept'
<1> SUFFICES ASSUME EventKept, [Next]_vars PROVE EventKept'
  OBVIOUS
<1> USE DEF EventKept, EventTypeOK, Call
<1>1. CASE UNCHANGED eventVars
  BY <1>1 DEF eventVars, OneAtATime, Expected
<1>2. ASSUME NEW t \in Trigger, CreateEventTrigger(t) PROVE EventKept'
  <2>1. EventTypeOK'
    BY <1>2 DEF CreateEventTrigger
  <2>2. ASSUME ~disturbed' PROVE OneAtATime'
    <3>1. ~disturbed /\ calls = {} /\ \A u \in Trigger : request[u] = "none"
      BY <1>2, <2>2 DEF CreateEventTrigger, Disturbs
    <3>2. Expected = rows /\ known = rows
      BY <3>1 DEF OneAtATime, Expected
    <3>3. Expected' = rows \cup {t}
      BY <1>2, <3>1 DEF CreateEventTrigger, Expected
    <3>4. calls' = {[kind |-> "create", trigger |-> t, events |-> rows \cup {t}]}
          /\ known' = known /\ request' = [request EXCEPT ![t] = "creating"]
      BY <1>2, <3>1 DEF CreateEventTrigger
    <3>5. \A c \in calls' : c.kind = "create" /\ c.trigger = t /\ c.events = rows \cup {t}
      BY <3>4
    <3>6. \A u \in Trigger : request'[u] # "none" => u = t
      BY <3>1, <3>4
    <3>7. calls' # {} /\ \A c, d \in calls' : c = d
      BY <3>4
    <3> HIDE DEF EventKept, EventTypeOK
    <3> QED
      BY <3>2, <3>3, <3>4, <3>5, <3>6, <3>7 DEF OneAtATime
  <2> QED
    BY <2>1, <2>2
<1>3. ASSUME NEW t \in Trigger, DeleteEventTrigger(t) PROVE EventKept'
  <2>1. EventTypeOK'
    BY <1>3 DEF DeleteEventTrigger, DeletedEvents
  <2>2. ASSUME ~disturbed' PROVE OneAtATime'
    <3>1. ~disturbed /\ calls = {} /\ \A u \in Trigger : request[u] = "none"
      BY <1>3, <2>2 DEF DeleteEventTrigger, Disturbs
    <3>2. Expected = rows /\ known = rows /\ t \in rows
      BY <1>3, <3>1 DEF OneAtATime, Expected, DeleteEventTrigger
    <3>3. Expected' = rows \ {t}
      BY <1>3, <3>1 DEF DeleteEventTrigger, Expected
    <3>4. calls' = {[kind |-> "delete", trigger |-> t, events |-> rows \ {t}]}
          /\ known' = known /\ request' = [request EXCEPT ![t] = "deleting"]
      BY <1>3, <3>1 DEF DeleteEventTrigger, DeletedEvents
    <3>5. \A c \in calls' : c.kind = "delete" /\ c.trigger = t /\ c.events = rows \ {t}
      BY <3>4
    <3>6. \A u \in Trigger : request'[u] # "none" => u = t
      BY <3>1, <3>4
    <3>7. calls' # {} /\ \A c, d \in calls' : c = d
      BY <3>4
    <3> HIDE DEF EventKept, EventTypeOK
    <3> QED
      BY <3>2, <3>3, <3>4, <3>5, <3>6, <3>7 DEF OneAtATime
  <2> QED
    BY <2>1, <2>2
<1>4. ASSUME NEW t \in Trigger, CommitRequest(t) PROVE EventKept'
  <2>1. EventTypeOK'
    BY <1>4 DEF CommitRequest
  <2>2. ASSUME ~disturbed' PROVE OneAtATime'
    <3>1. Expected' = Expected
      BY <1>4 DEF CommitRequest, Expected
    <3> QED
      BY <1>4, <2>2, <3>1 DEF CommitRequest, OneAtATime
  <2> QED
    BY <2>1, <2>2
<1>5. ASSUME NEW t \in Trigger, RollbackRequest(t) PROVE EventKept'
  BY <1>5 DEF RollbackRequest
<1>6. ASSUME NEW c \in calls, HandleCall(c) PROVE EventKept'
  <2>1. EventTypeOK'
    BY <1>6 DEF HandleCall
  <2>2. ASSUME ~disturbed' PROVE OneAtATime'
    <3>1. calls' = {} /\ Expected' = Expected
      BY <1>6, <2>2 DEF HandleCall, OneAtATime, Expected
    <3>2. known' = Expected /\ heard' = Expected
      BY <1>6, <2>2 DEF HandleCall, OneAtATime
    <3> QED
      BY <1>6, <2>2, <3>1, <3>2 DEF HandleCall, OneAtATime
  <2> QED
    BY <2>1, <2>2
<1>7. ASSUME NEW t \in Trigger,
             \/ Notify(t) \/ LoopDies(t) \/ \E e \in Execs : ProcessEvent(t, e)
      PROVE  EventKept'
  <2>1. UNCHANGED <<rows, request, calls, known, heard, disturbed>>
    BY <1>7 DEF Notify, LoopDies, ProcessEvent
  <2>2. queue' \in [Trigger -> Nat]
    BY <1>7 DEF Notify, LoopDies, ProcessEvent, Taken
  <2>3. firedBy' \in [Execs -> Trigger \cup {NoTrigger}] /\ alive' \in BOOLEAN
    BY <1>7 DEF Notify, LoopDies, ProcessEvent
  <2> QED
    BY <2>1, <2>2, <2>3 DEF OneAtATime, Expected
<1>8. CASE Restart
  <2>1. EventTypeOK'
    BY <1>8 DEF Restart, Loaded
  <2>2. ASSUME ~disturbed' PROVE OneAtATime'
    <3>1. \A t \in Trigger : request[t] = "none"
      BY <1>8, <2>2 DEF Restart
    <3>2. Expected' = rows
      BY <1>8, <3>1 DEF Restart, Expected
    <3> QED
      BY <1>8, <3>1, <3>2 DEF Restart, Loaded, OneAtATime
  <2> QED
    BY <2>1, <2>2
<1> QED
  BY <1>1, <1>2, <1>3, <1>4, <1>5, <1>6, <1>7, <1>8, EventSteps DEF EventStep

\* What the engine knows without requests and calls is what the table says.
LEMMA EventsFollow == EventKept => EngineFollowsTable
BY DEF EventKept, EventTypeOK, OneAtATime, Expected, EngineFollowsTable

-----------------------------------------------------------------------------
(* The executions.                                                          *)

\* What happens to the executions, whoever does it.
ExecStep ==
    \/ \E e \in Execs :
          \/ StartWorkflow(e) \/ PauseWorkflow(e) \/ CancelWorkflow(e)
          \/ RerunWorkflow(e) \/ DeleteWorkflow(e)
          \/ \E s \in Terminal : TaskEnds(e, s)
    \/ \E es \in SUBSET In("PAUSED") : ResumeWorkflows(es)

\* The steps of the cron triggers, the events and the legacy scheduler start an
\* execution at most.
LEMMA StarterSteps ==
    ASSUME \/ Time \/ CronApi \/ \E en \in Engine : Poll(en) \/ Decide(en) \/ Run(en)
           \/ EventApi \/ EventRestart \/ EventCommit \/ EventCall
           \/ \E t \in Trigger : EventLoop(t)
           \/ \E j \in Job : Caller(j) \/ CallIsDue(j)
           \/ \E p \in Proc : CallsLoop(p) \/ CallsFault(p)
    PROVE  \/ UNCHANGED execVars /\ UNCHANGED maintVars
           \/ \E e \in Execs : StartWorkflow(e) /\ StartedByTrigger(e)
<1> USE DEF NotMaint
<1>1. CASE \/ Time \/ CronApi \/ \E en \in Engine : Poll(en) \/ Decide(en)
  BY <1>1 DEF Time, CronApi, Poll, Decide, CronAlone, Tick, GetNextCronTriggers,
     AdvanceCronTrigger, CreateCronTrigger, DeleteCronTrigger
<1>2. ASSUME NEW en \in Engine, Run(en)
      PROVE  \/ UNCHANGED execVars /\ UNCHANGED maintVars
             \/ \E e \in Execs : StartWorkflow(e) /\ StartedByTrigger(e)
  BY <1>2 DEF Run, StartByCron, CronFails, CronAlone
<1>3. CASE EventApi \/ EventRestart \/ EventCommit \/ EventCall
  BY <1>3 DEF EventApi, EventRestart, EventCommit, EventCall, EventAlone,
     CreateEventTrigger, DeleteEventTrigger, RollbackRequest, Notify, LoopDies,
     CommitRequest, HandleCall, Restart
<1>4. ASSUME NEW t \in Trigger, EventLoop(t)
      PROVE  \/ UNCHANGED execVars /\ UNCHANGED maintVars
             \/ \E e \in Execs : StartWorkflow(e) /\ StartedByTrigger(e)
  BY <1>4 DEF EventLoop, ProcessEvent
<1>5. CASE \/ \E j \in Job : Caller(j) \/ CallIsDue(j)
           \/ \E p \in Proc : CallsLoop(p) \/ CallsFault(p)
  BY <1>5 DEF Caller, CallIsDue, CallsLoop, CallsFault, LegacyAlone
<1> QED
  BY <1>1, <1>2, <1>3, <1>4, <1>5

\* The expiration policy deletes an execution at most.
LEMMA PolicySteps ==
    ASSUME NEW c \in Cleaner, Policy(c) \/ PolicyFault(c)
    PROVE  /\ UNCHANGED maintVars
           /\ UNCHANGED execVars \/ \E e \in Execs : DeleteWorkflow(e)
BY DEF Policy, PolicyFault, NotMaint, BeginPass, Fetch, FetchNothing, EndBatch, Delete,
   DeleteFails

\* The job of maintenance pauses one execution or resumes those that are paused.
LEMMA JobSteps ==
    ASSUME NEW j \in Jobs, JobStep(j) \/ JobFault(j), MaintTypeOK
    PROVE  \/ UNCHANGED execVars
           \/ \E e \in Execs : PauseWorkflow(e)
           \/ \E es \in SUBSET In("PAUSED") : ResumeWorkflows(es)
<1>1. CASE EndPause(j)
  <2>1. job[j].cur \in Execs
    BY <1>1 DEF EndPause, MaintTypeOK
  <2> QED
    BY <1>1, <2>1 DEF EndPause
<1>2. CASE ResumeExecutions(j)
  BY <1>2 DEF ResumeExecutions, ToResume
<1>3. CASE ~EndPause(j) /\ ~ResumeExecutions(j)
  BY <1>3 DEF JobStep, JobFault, SelectRunning, BeginPause, AllPaused, AwaitPause,
     ReadStatus, SetPaused, PauseFails, JobRestarts
<1> QED
  BY <1>1, <1>2, <1>3

\* Users start, pause, resume, rerun and cancel; they delete nothing.
LEMMA UserSteps ==
    ASSUME Users
    PROVE  \/ UNCHANGED execVars
           \/ \E e \in Execs : \/ StartWorkflow(e) \/ PauseWorkflow(e)
                               \/ RerunWorkflow(e) \/ CancelWorkflow(e)
           \/ \E es \in SUBSET In("PAUSED") : ResumeWorkflows(es)
<1>1. ASSUME NEW e \in Execs, state[e] = "PAUSED", ResumeWorkflows({e})
      PROVE  \E es \in SUBSET In("PAUSED") : ResumeWorkflows(es)
  BY <1>1 DEF In
<1> QED
  BY <1>1 DEF Users, ChangeMaintenanceMode, Admit, ActOnRequest, CancelByUser, RequestFails

\* Every step of the system is one of these for the executions, or none.
LEMMA ExecSteps ==
    ASSUME [Next]_vars, MaintTypeOK
    PROVE  ExecStep \/ UNCHANGED execVars
<1>1. CASE Users
  BY <1>1, UserSteps DEF ExecStep
<1>2. CASE \E j \in Jobs : JobStep(j) \/ JobFault(j)
  BY <1>2, JobSteps DEF ExecStep
<1>3. CASE \E e \in Execs : Ends(e)
  BY <1>3 DEF Ends, ExecStep
<1>4. CASE \E c \in Cleaner : Policy(c) \/ PolicyFault(c)
  BY <1>4, PolicySteps DEF ExecStep
<1>5. CASE UNCHANGED vars
  BY <1>5 DEF vars
<1> QED
  BY <1>1, <1>2, <1>3, <1>4, <1>5, StarterSteps DEF Next, ExecutionsStep, ExecStep

\* The budgets are spent.
LEMMA LeftNext == left \in [What -> Nat] /\ [Next]_vars => left' \in [What -> Nat]
<1> SUFFICES ASSUME left \in [What -> Nat], [Next]_vars PROVE left' \in [What -> Nat]
  OBVIOUS
<1>1. ASSUME NEW what, Spend(what) PROVE left' \in [What -> Nat]
  <2>1. CASE what \in What
    <3>1. left[what] \in Nat /\ left[what] > 0
      BY <1>1, <2>1 DEF Spend
    <3>2. left[what] - 1 \in Nat
      BY <3>1
    <3> QED
      BY <1>1, <3>2 DEF Spend
  <2>2. CASE what \notin What
    BY <1>1, <2>2 DEF Spend
  <2> QED
    BY <2>1, <2>2
<1>2. ASSUME UNCHANGED left PROVE left' \in [What -> Nat]
  BY <1>2
<1>3. CASE \/ Time \/ CronApi \/ \E en \in Engine : Poll(en) \/ Decide(en) \/ Run(en)
  BY <1>1, <1>2, <1>3 DEF Time, CronApi, Poll, Decide, Run, Tick, GetNextCronTriggers,
     AdvanceCronTrigger, CreateCronTrigger, DeleteCronTrigger, StartByCron, CronFails
<1>4. CASE \/ EventApi \/ EventRestart \/ EventCommit \/ EventCall
           \/ \E t \in Trigger : EventLoop(t)
  BY <1>1, <1>2, <1>4 DEF EventApi, EventRestart, EventCommit, EventCall, EventLoop,
     CreateEventTrigger, DeleteEventTrigger, RollbackRequest, Notify, LoopDies,
     CommitRequest, HandleCall, Restart, ProcessEvent
<1>5. CASE Users \/ \E e \in Execs : Ends(e)
  BY <1>1, <1>2, <1>5 DEF Users, Ends, ChangeMaintenanceMode, Admit, ActOnRequest,
     CancelByUser, RequestFails
<1>6. CASE \E j \in Jobs : JobStep(j) \/ JobFault(j)
  BY <1>1, <1>2, <1>6 DEF JobStep, JobFault, SelectRunning, BeginPause, EndPause,
     AllPaused, AwaitPause, ReadStatus, SetPaused, ResumeExecutions, PauseFails,
     JobRestarts
<1>7. CASE \E c \in Cleaner : Policy(c) \/ PolicyFault(c)
  BY <1>1, <1>2, <1>7 DEF Policy, PolicyFault, BeginPass, Fetch, FetchNothing, EndBatch,
     Delete, DeleteFails
<1>8. CASE LegacyStep
  BY <1>1, <1>2, <1>8 DEF LegacyStep, Schedule, EndTransaction, BecomeDue, LegacyLoop,
     Select, Capture, Prepare, DeleteCalls, Invoke, DeletionFails, Crash
<1>9. CASE UNCHANGED vars
  BY <1>2, <1>9 DEF vars
<1> QED
  BY <1>3, <1>4, <1>5, <1>6, <1>7, <1>8, <1>9
  DEF Next, ExecutionsStep, LegacyStep, Caller, CallIsDue, CallsLoop, CallsFault

\* Rows and their order keep their types.
LEMMA ExecNext ==
    ASSUME ExecTypeOK, MaintTypeOK, [Next]_vars
    PROVE  ExecTypeOK'
<1> USE DEF ExecTypeOK, Terminal
<1>1. left' \in [What -> Nat]
  BY LeftNext
<1>2. ASSUME NEW e \in Execs, StartWorkflow(e) PROVE ExecTypeOK'
  BY <1>1, <1>2 DEF StartWorkflow, Fresh
<1>3. ASSUME NEW e \in Execs, PauseWorkflow(e) PROVE ExecTypeOK'
  BY <1>1, <1>3 DEF PauseWorkflow
<1>4. ASSUME NEW e \in Execs, CancelWorkflow(e) PROVE ExecTypeOK'
  BY <1>1, <1>4 DEF CancelWorkflow, Completes, Completed
<1>5. ASSUME NEW e \in Execs, RerunWorkflow(e) PROVE ExecTypeOK'
  BY <1>1, <1>5 DEF RerunWorkflow, Unlisted
<1>6. ASSUME NEW e \in Execs, DeleteWorkflow(e) PROVE ExecTypeOK'
  BY <1>1, <1>6 DEF DeleteWorkflow, Unlisted
<1>7. ASSUME NEW e \in Execs, NEW s \in Terminal, TaskEnds(e, s) PROVE ExecTypeOK'
  BY <1>1, <1>7 DEF TaskEnds, Completes, Completed
<1>8. ASSUME NEW es \in SUBSET In("PAUSED"), ResumeWorkflows(es) PROVE ExecTypeOK'
  BY <1>1, <1>8 DEF ResumeWorkflows, In
<1>9. CASE UNCHANGED execVars
  BY <1>1, <1>9 DEF execVars
<1> QED
  BY <1>2, <1>3, <1>4, <1>5, <1>6, <1>7, <1>8, <1>9, ExecSteps DEF ExecStep

-----------------------------------------------------------------------------
(* Maintenance mode.                                                        *)

\* The shape of a job: only one that pauses has more phases than two.
JobsAreShaped ==
    \A j \in Jobs :
       /\ job[j].phase \in {"pausing", "waiting", "closing", "writing"}
             => job[j].kind = "pause"
       /\ job[j].cur # NoExec => job[j].phase = "pausing"

\* Each pause job has accounted for every execution that runs and for every task
\* that runs, as far as it has come.
PauseCovers ==
    status = "PAUSING" =>
        \A j \in Jobs :
           /\ job[j].phase = "pausing" =>
                 In("RUNNING") \subseteq job[j].list \cup {job[j].cur} \cup excused
           /\ job[j].phase \in {"waiting", "closing", "writing"} =>
                 In("RUNNING") \subseteq excused
           /\ job[j].phase \in {"closing", "writing"} => busy \subseteq excused

\* A job that is about to write PAUSED over a newer status excuses everything.
LateWriteExcused ==
    status = "RUNNING" /\ (\E j \in Jobs : job[j].phase = "writing") => excused = Execs

MaintKept ==
    /\ ExecTypeOK /\ MaintTypeOK
    /\ admitted.mode = "RUNNING"
    /\ JobsAreShaped /\ PauseCovers /\ LateWriteExcused /\ NothingRunsInMaintenance

\* At first the mode is RUNNING, and no job is there.
LEMMA MaintInitially == Init => MaintKept
<1> SUFFICES ASSUME Init PROVE MaintKept
  OBVIOUS
<1>1. ExecTypeOK
  <2>1. Home \in Project
    BY ExecutionsAssumption DEF Home
  <2> QED
    BY <2>1, ExecutionsAssumption DEF Init, ExecInit, ExecTypeOK
<1>2. MaintTypeOK
  BY DEF Init, MaintInit, MaintTypeOK, NoJob, NoRequest, Phase
<1>3. status = "RUNNING" /\ \A j \in Jobs : job[j] = NoJob
  BY DEF Init, MaintInit
<1> QED
  BY <1>1, <1>2, <1>3 DEF Init, MaintInit, MaintKept, NoRequest, JobsAreShaped, NoJob,
     PauseCovers, LateWriteExcused, NothingRunsInMaintenance

\* A step that starts nothing, or nothing that is not excused, and moves no job.
LEMMA CoverKept ==
    ASSUME MaintKept, ExecTypeOK', UNCHANGED <<status, job>>,
           excused' \subseteq Execs, excused \subseteq excused',
           chosen' \subseteq Execs, admitted'.mode = "RUNNING",
           admitted'.what \in Requests \cup {"no"},
           status # "RUNNING" =>
              /\ In("RUNNING")' \subseteq In("RUNNING") \cup excused'
              /\ busy' \subseteq busy \cup excused'
    PROVE  MaintKept'
<1> USE DEF MaintKept
<1>1. MaintTypeOK' /\ admitted'.mode = "RUNNING"
  BY DEF MaintTypeOK
<1>2. JobsAreShaped'
  BY DEF JobsAreShaped
<1>3. PauseCovers'
  BY DEF PauseCovers
<1>4. LateWriteExcused' /\ NothingRunsInMaintenance'
  BY DEF LateWriteExcused, NothingRunsInMaintenance, MaintTypeOK
<1> QED
  BY <1>1, <1>2, <1>3, <1>4

\* A job moves on, and the executions and the status stay.
LEMMA JobMoveKept ==
    ASSUME MaintKept, ExecTypeOK', NEW j \in Jobs, NEW phase \in Phase,
           NEW list \in SUBSET Execs, NEW cur \in {NoExec} \cup Execs,
           job[j].kind = "pause", UNCHANGED <<status, admitted, chosen>>,
           job' = [job EXCEPT ![j] = [kind |-> "pause", phase |-> phase,
                                      list |-> list, cur |-> cur]],
           In("RUNNING")' \subseteq In("RUNNING"), busy' \subseteq busy,
           excused' \subseteq Execs, excused \subseteq excused',
           cur # NoExec => phase = "pausing",
           phase = "writing" /\ status = "RUNNING" => excused' = Execs,
           status = "PAUSING" =>
              /\ phase = "pausing" =>
                    In("RUNNING")' \subseteq list \cup {cur} \cup excused'
              /\ phase \in {"waiting", "closing", "writing"} =>
                    In("RUNNING")' \subseteq excused'
              /\ phase \in {"closing", "writing"} => busy' \subseteq excused'
    PROVE  MaintKept'
<1> USE DEF MaintKept
<1>1. MaintTypeOK' /\ admitted'.mode = "RUNNING"
  BY DEF MaintTypeOK
<1>2. \A i \in Jobs : job'[i] = IF i = j THEN [kind |-> "pause", phase |-> phase,
                                               list |-> list, cur |-> cur]
                                ELSE job[i]
  BY DEF MaintTypeOK
<1>3. JobsAreShaped'
  BY <1>2 DEF JobsAreShaped
<1>4. PauseCovers'
  <2> SUFFICES ASSUME status = "PAUSING", NEW i \in Jobs
               PROVE  /\ job'[i].phase = "pausing" =>
                            In("RUNNING")' \subseteq
                                job'[i].list \cup {job'[i].cur} \cup excused'
                      /\ job'[i].phase \in {"waiting", "closing", "writing"} =>
                            In("RUNNING")' \subseteq excused'
                      /\ job'[i].phase \in {"closing", "writing"} =>
                            busy' \subseteq excused'
    BY DEF PauseCovers
  <2>1. CASE i = j
    BY <1>2, <2>1
  <2>2. CASE i # j
    BY <1>2, <2>2 DEF PauseCovers
  <2> QED
    BY <2>1, <2>2
<1>5. LateWriteExcused' /\ NothingRunsInMaintenance'
  BY <1>2 DEF LateWriteExcused, NothingRunsInMaintenance, MaintTypeOK
<1> QED
  BY <1>1, <1>3, <1>4, <1>5

\* What an execution step does to those that run.
LEMMA RunningAfter ==
    ASSUME ExecTypeOK, NEW e \in Execs
    PROVE  /\ StartWorkflow(e) \/ RerunWorkflow(e) \/ ResumeWorkflows({e}) =>
                 /\ In("RUNNING")' \subseteq In("RUNNING") \cup {e}
                 /\ busy' \subseteq busy \cup {e}
           /\ \/ PauseWorkflow(e) \/ CancelWorkflow(e) \/ DeleteWorkflow(e)
              \/ \E s \in Terminal : TaskEnds(e, s)
              => /\ In("RUNNING")' \subseteq In("RUNNING")
                 /\ busy' \subseteq busy
           /\ PauseWorkflow(e) => In("RUNNING")' = In("RUNNING") \ {e}
           /\ UNCHANGED execVars => In("RUNNING")' = In("RUNNING") /\ busy' = busy
<1> USE DEF ExecTypeOK, In, Terminal
<1>1. StartWorkflow(e) \/ RerunWorkflow(e) \/ ResumeWorkflows({e}) =>
         /\ In("RUNNING")' \subseteq In("RUNNING") \cup {e}
         /\ busy' \subseteq busy \cup {e}
  BY DEF StartWorkflow, RerunWorkflow, ResumeWorkflows
<1>2. PauseWorkflow(e) => In("RUNNING")' = In("RUNNING") \ {e} /\ busy' = busy
  BY DEF PauseWorkflow
<1>3. CancelWorkflow(e) => In("RUNNING")' \subseteq In("RUNNING") /\ busy' = busy
  BY DEF CancelWorkflow, Completes
<1>4. DeleteWorkflow(e) => In("RUNNING")' \subseteq In("RUNNING") /\ busy' \subseteq busy
  BY DEF DeleteWorkflow
<1>5. ASSUME NEW s \in Terminal, TaskEnds(e, s)
      PROVE  In("RUNNING")' \subseteq In("RUNNING") /\ busy' \subseteq busy
  BY <1>5 DEF TaskEnds, Completes
<1>6. UNCHANGED execVars => In("RUNNING")' = In("RUNNING") /\ busy' = busy
  BY DEF execVars
<1> QED
  BY <1>1, <1>2, <1>3, <1>4, <1>5, <1>6

\* The API: a change of the mode, and requests that passed the hook before it.
LEMMA UsersKeep == ASSUME MaintKept, ExecTypeOK', Users PROVE MaintKept'
<1> USE DEF MaintKept
<1>1. ASSUME NEW new \in {"PAUSED", "RUNNING"}, ChangeMaintenanceMode(new)
      PROVE  MaintKept'
  <2>1. PICK j \in Jobs :
           /\ job[j] = NoJob
           /\ job' = [job EXCEPT ![j] =
                        [kind |-> IF new = "PAUSED" THEN "pause" ELSE "resume",
                         phase |-> "select", list |-> {}, cur |-> NoExec]]
    BY <1>1 DEF ChangeMaintenanceMode, NoJob
  <2>2. \A i \in Jobs : job'[i] =
            IF i = j THEN [kind |-> IF new = "PAUSED" THEN "pause" ELSE "resume",
                           phase |-> "select", list |-> {}, cur |-> NoExec]
            ELSE job[i]
    BY <2>1 DEF MaintTypeOK
  <2>3. /\ status' = IF new = "PAUSED" THEN "PAUSING" ELSE "RUNNING"
        /\ UNCHANGED <<admitted, chosen, state, busy>>
    BY <1>1 DEF ChangeMaintenanceMode, execVars
  <2>4. ExcusedBy(new) \subseteq Execs /\ excused' \subseteq Execs
    BY <1>1 DEF ChangeMaintenanceMode, ExcusedBy, Unfinished, MaintTypeOK
  <2>5. MaintTypeOK' /\ admitted'.mode = "RUNNING"
    BY <2>1, <2>3, <2>4 DEF MaintTypeOK, Phase
  <2>6. JobsAreShaped'
    BY <2>2 DEF JobsAreShaped
  <2>7. new = "PAUSED" =>
           \/ excused' = Execs
           \/ \A i \in Jobs : job[i].kind = "pause" => job[i].phase = "done"
    BY <1>1, <2>4 DEF ChangeMaintenanceMode, ExcusedBy, Unfinished, MaintTypeOK
  <2>8. PauseCovers'
    <3> SUFFICES ASSUME new = "PAUSED", NEW i \in Jobs,
                        job'[i].phase \in {"pausing", "waiting", "closing", "writing"}
                 PROVE  excused' = Execs
      BY <2>3 DEF PauseCovers, In, ExecTypeOK
    <3> QED
      BY <2>2, <2>7 DEF JobsAreShaped
  <2>9. LateWriteExcused'
    <3> SUFFICES ASSUME new = "RUNNING", NEW i \in Jobs, job'[i].phase = "writing"
                 PROVE  excused' = Execs
      BY <2>3 DEF LateWriteExcused
    <3>1. job[i].phase = "writing"
      BY <2>2
    <3>2. ExcusedBy(new) = Execs
      BY <3>1 DEF ExcusedBy
    <3> QED
      BY <1>1, <2>4, <3>2 DEF ChangeMaintenanceMode
  <2> QED
    BY <2>3, <2>5, <2>6, <2>8, <2>9 DEF NothingRunsInMaintenance
<1>2. ASSUME NEW what \in Requests, Admit(what) PROVE MaintKept'
  <2>1. In("RUNNING")' = In("RUNNING") /\ busy' = busy
    BY <1>2 DEF Admit, execVars, In
  <2>2. /\ UNCHANGED <<status, job, chosen, excused>>
        /\ admitted'.mode = "RUNNING" /\ admitted'.what = what
    BY <1>2 DEF Admit, Allowed
  <2> QED
    BY <2>1, <2>2, CoverKept DEF MaintTypeOK
<1>3. ASSUME NEW e \in Execs, ActOnRequest(e) PROVE MaintKept'
  <2>1. /\ UNCHANGED <<status, job>> /\ admitted' = NoRequest
        /\ chosen' \subseteq Execs /\ excused' = Outside(e)
    BY <1>3 DEF ActOnRequest, MaintTypeOK
  <2>2. /\ In("RUNNING")' \subseteq In("RUNNING") \cup {e}
        /\ busy' \subseteq busy \cup {e}
    BY <1>3, RunningAfter DEF ActOnRequest
  <2> QED
    BY <2>1, <2>2, CoverKept DEF MaintTypeOK, NoRequest, Outside
<1>4. ASSUME NEW e \in Execs, CancelByUser(e) PROVE MaintKept'
  <2>1. In("RUNNING")' \subseteq In("RUNNING") /\ busy' \subseteq busy
    BY <1>4, RunningAfter DEF CancelByUser
  <2> QED
    BY <1>4, <2>1, CoverKept DEF CancelByUser, maintVars, MaintTypeOK
<1>5. CASE RequestFails
  <2>1. In("RUNNING")' = In("RUNNING") /\ busy' = busy
    BY <1>5 DEF RequestFails, execVars, In
  <2> QED
    BY <1>5, <2>1, CoverKept DEF RequestFails, NoRequest, MaintTypeOK
<1> HIDE DEF MaintKept
<1> QED
  BY <1>1, <1>2, <1>3, <1>4, <1>5 DEF Users

\* The jobs: each phase accounts for what the next one relies on.
LEMMA JobsKeep ==
    ASSUME MaintKept, ExecTypeOK', NEW j \in Jobs, JobStep(j) \/ JobFault(j)
    PROVE  MaintKept'
<1> USE DEF MaintKept
<1> DEFINE With(phase, list, cur) ==
               job' = [job EXCEPT ![j] = [kind |-> "pause", phase |-> phase,
                                          list |-> list, cur |-> cur]]
<1>0. /\ job \in [Jobs -> [kind : {"none", "pause", "resume"}, phase : Phase,
                           list : SUBSET Execs, cur : {NoExec} \cup Execs]]
      /\ In("RUNNING") \subseteq Execs /\ busy \subseteq Execs /\ excused \subseteq Execs
      /\ NoExec \notin Execs
  BY DEF MaintTypeOK, ExecTypeOK, In, NoExec, Execs
<1>1. UNCHANGED execVars => In("RUNNING")' = In("RUNNING") /\ busy' = busy
  BY DEF execVars, In
<1>2. CASE SelectRunning(j)
  <2>1. With("pausing", In("RUNNING"), NoExec) /\ job[j].kind = "pause"
    BY <1>0, <1>2 DEF SelectRunning, Pausing
  <2> QED
    <3>1. UNCHANGED <<status, admitted, chosen, excused>> /\ UNCHANGED execVars
      BY <1>2 DEF SelectRunning
    <3>2. /\ In("RUNNING")' = In("RUNNING") /\ busy' = busy /\ "pausing" \in Phase
          /\ In("RUNNING") \in SUBSET Execs
      BY <1>0, <1>1, <3>1 DEF Phase
    <3> HIDE DEF MaintKept
    <3> QED BY <1>0, <2>1, <3>1, <3>2, JobMoveKept
<1>3. ASSUME NEW e \in Execs, BeginPause(j, e) PROVE MaintKept'
  <2> DEFINE list == job[j].list \ {e}
             cur == IF status = "PAUSING" THEN e ELSE NoExec
  <2>1. /\ With("pausing", list, cur)
        /\ job[j].kind = "pause" /\ job[j].cur = NoExec /\ job[j].phase = "pausing"
    BY <1>0, <1>3 DEF BeginPause, Pausing, JobsAreShaped
  <2>2. UNCHANGED <<status, admitted, chosen, excused>> /\ UNCHANGED execVars
    BY <1>3 DEF BeginPause
  <2>3. status = "PAUSING" => In("RUNNING") \subseteq job[j].list \cup excused
    BY <1>0, <2>1 DEF PauseCovers
  <2>4. list \in SUBSET Execs /\ cur \in {NoExec} \cup Execs /\ "pausing" \in Phase
    BY <1>0 DEF Phase
  <2>5. status = "PAUSING" => In("RUNNING") \subseteq list \cup {cur} \cup excused
    BY <2>3
  <2> HIDE DEF list, cur
  <2> QED
    BY <1>0, <1>1, <2>1, <2>2, <2>4, <2>5, JobMoveKept
<1>4. CASE EndPause(j)
  <2>1. /\ With("pausing", job[j].list, NoExec)
        /\ job[j].kind = "pause" /\ job[j].phase = "pausing" /\ job[j].cur \in Execs
    BY <1>0, <1>4 DEF EndPause, Pausing, JobsAreShaped
  <2>2. UNCHANGED <<status, admitted, chosen, excused>>
    BY <1>4 DEF EndPause
  <2>3. /\ In("RUNNING")' \subseteq In("RUNNING") \ {job[j].cur}
        /\ busy' \subseteq busy
    <3>1. CASE state[job[j].cur] = "RUNNING"
      BY <1>4, <2>1, <3>1, RunningAfter DEF EndPause
    <3>2. CASE state[job[j].cur] # "RUNNING"
      BY <1>1, <1>4, <3>2 DEF EndPause, In
    <3> QED
      BY <3>1, <3>2
  <2>4. status = "PAUSING" =>
           In("RUNNING") \subseteq job[j].list \cup {job[j].cur} \cup excused
    BY <2>1 DEF PauseCovers
  <2>5. /\ "pausing" \in Phase /\ job[j].list \in SUBSET Execs
        /\ In("RUNNING")' \subseteq In("RUNNING")
        /\ status = "PAUSING" => In("RUNNING")' \subseteq job[j].list \cup {NoExec} \cup excused
    BY <1>0, <2>3, <2>4 DEF Phase
  <2> HIDE DEF MaintKept
  <2> QED
    BY <1>0, <2>1, <2>2, <2>3, <2>5, JobMoveKept
<1>5. CASE PauseFails(j)
  <2>1. /\ With("pausing", job[j].list, NoExec)
        /\ job[j].kind = "pause" /\ job[j].phase = "pausing" /\ job[j].cur \in Execs
    BY <1>0, <1>5 DEF PauseFails, Pausing, JobsAreShaped
  <2>2. /\ UNCHANGED <<status, admitted, chosen>> /\ UNCHANGED execVars
        /\ excused' = excused \cup {job[j].cur}
    BY <1>5 DEF PauseFails
  <2>3. status = "PAUSING" =>
           In("RUNNING") \subseteq job[j].list \cup {job[j].cur} \cup excused
    BY <2>1 DEF PauseCovers
  <2>4. /\ "pausing" \in Phase /\ job[j].list \in SUBSET Execs
        /\ In("RUNNING")' = In("RUNNING") /\ busy' = busy
        /\ excused' \subseteq Execs /\ excused \subseteq excused'
        /\ status = "PAUSING" => In("RUNNING")' \subseteq job[j].list \cup {NoExec} \cup excused'
    BY <1>0, <1>1, <2>1, <2>2, <2>3 DEF Phase
  <2> HIDE DEF MaintKept
  <2> QED
    BY <1>0, <2>1, <2>2, <2>4, JobMoveKept
<1>6. CASE AllPaused(j) \/ AwaitPause(j) \/ ReadStatus(j) \/ JobRestarts(j)
  <2> DEFINE phase == job'[j].phase
             list == job'[j].list
  <2>1. /\ With(phase, list, NoExec) /\ phase \in Phase /\ list \in SUBSET Execs
        /\ job[j].kind = "pause"
        /\ UNCHANGED <<status, admitted, chosen, excused>> /\ UNCHANGED execVars
        /\ phase # "pausing"
    BY <1>0, <1>6 DEF AllPaused, AwaitPause, ReadStatus, JobRestarts, To, Awaited,
       Restarted, Phase, JobsAreShaped
  <2>2. phase = "writing" => status = "PAUSING"
    BY <1>0, <1>6 DEF AllPaused, AwaitPause, ReadStatus, JobRestarts, To, Awaited,
       Restarted
  <2>3. status = "PAUSING" =>
           /\ phase \in {"waiting", "closing", "writing"} => In("RUNNING") \subseteq excused
           /\ phase \in {"closing", "writing"} => busy \subseteq excused
    BY <1>0, <1>6 DEF AllPaused, AwaitPause, ReadStatus, JobRestarts, To, Awaited,
       Restarted, PauseCovers
  <2> HIDE DEF phase, list
  <2> QED
    BY <1>0, <1>1, <2>1, <2>2, <2>3, JobMoveKept
<1>7. CASE SetPaused(j)
  <2>1. /\ job[j].phase = "writing" /\ status' = "PAUSED"
        /\ UNCHANGED <<admitted, chosen, excused>> /\ UNCHANGED execVars
        /\ job' = [job EXCEPT ![j].phase = "done"]
    BY <1>7 DEF SetPaused, To
  <2>2. In("RUNNING") \cup busy \subseteq excused
    BY <1>0, <2>1 DEF PauseCovers, LateWriteExcused, NothingRunsInMaintenance, MaintTypeOK
  <2>3. MaintTypeOK' /\ JobsAreShaped'
    BY <1>0, <2>1 DEF MaintTypeOK, JobsAreShaped, Phase
  <2> QED
    BY <1>1, <2>1, <2>2, <2>3
    DEF PauseCovers, LateWriteExcused, NothingRunsInMaintenance
<1>8. CASE ResumeExecutions(j)
  <2>1. /\ job[j].kind = "resume" /\ job' = [job EXCEPT ![j].phase = "done"]
        /\ UNCHANGED <<status, admitted, excused>> /\ chosen' \subseteq chosen
        /\ ResumeWorkflows(ToResume(j))
    BY <1>8 DEF ResumeExecutions, To
  <2>2. status # "RUNNING" => In("RUNNING")' = In("RUNNING") /\ busy' = busy
    BY <2>1 DEF ResumeWorkflows, ToResume, In, ExecTypeOK
  <2>3. MaintTypeOK' /\ JobsAreShaped'
    BY <1>0, <2>1 DEF MaintTypeOK, JobsAreShaped, Phase
  <2>4. \A i \in Jobs : i # j => job'[i] = job[i]
    BY <1>0, <2>1
  <2>5. job'[j].phase = "done"
    BY <1>0, <2>1
  <2>6. PauseCovers'
    BY <2>1, <2>2, <2>4, <2>5 DEF PauseCovers
  <2> QED
    BY <2>1, <2>2, <2>3, <2>4, <2>5, <2>6
    DEF LateWriteExcused, NothingRunsInMaintenance
<1> QED
  BY <1>2, <1>3, <1>4, <1>5, <1>6, <1>7, <1>8 DEF JobStep, JobFault

\* Whoever takes the next step, the pause jobs still account for what runs.
LEMMA MaintNext == MaintKept /\ [Next]_vars => MaintKept'
<1> SUFFICES ASSUME MaintKept, [Next]_vars PROVE MaintKept'
  OBVIOUS
<1>0. ExecTypeOK /\ MaintTypeOK /\ ExecTypeOK'
  BY ExecNext DEF MaintKept
<1>1. ASSUME UNCHANGED maintVars,
             In("RUNNING")' \subseteq In("RUNNING"), busy' \subseteq busy
      PROVE  MaintKept'
  BY <1>0, <1>1, CoverKept DEF maintVars, MaintKept, MaintTypeOK
<1>2. CASE UNCHANGED maintVars /\ UNCHANGED execVars
  BY <1>1, <1>2 DEF execVars, In
<1>3. ASSUME NEW e \in Execs, StartWorkflow(e), StartedByTrigger(e) PROVE MaintKept'
  <2>1. /\ In("RUNNING")' \subseteq In("RUNNING") \cup {e}
        /\ busy' \subseteq busy \cup {e}
    BY <1>0, <1>3, RunningAfter
  <2> QED
    BY <1>0, <1>3, <2>1, CoverKept DEF StartedByTrigger, Outside, MaintKept, MaintTypeOK
<1>4. ASSUME NEW e \in Execs, Ends(e) PROVE MaintKept'
  BY <1>0, <1>1, <1>4, RunningAfter DEF Ends, NotMaint
<1>5. ASSUME NEW c \in Cleaner, Policy(c) \/ PolicyFault(c) PROVE MaintKept'
  BY <1>0, <1>1, <1>2, <1>5, PolicySteps, RunningAfter
<1>6. CASE Users
  BY <1>0, <1>6, UsersKeep
<1>7. ASSUME NEW j \in Jobs, JobStep(j) \/ JobFault(j) PROVE MaintKept'
  BY <1>0, <1>7, JobsKeep
<1>8. CASE UNCHANGED vars
  BY <1>2, <1>8 DEF vars
<1> QED
  BY <1>2, <1>3, <1>4, <1>5, <1>6, <1>7, <1>8, StarterSteps DEF Next, ExecutionsStep

\* When maintenance reports PAUSED nothing runs that it had to pause, although it
\* pauses one execution after the other while requests, triggers and tasks go on, and
\* the mode may be changed, or its job be restarted, at any time.
THEOREM MaintenanceIsQuiet == Spec => []NothingRunsInMaintenance
<1>1. MaintKept => NothingRunsInMaintenance
  BY DEF MaintKept
<1> QED
  BY <1>1, MaintInitially, MaintNext, PTL DEF Spec

-----------------------------------------------------------------------------
(* Expiration.                                                              *)

\* Executions complete one after the other.
OrderOfCompletion ==
    /\ \A e \in Execs :
          /\ older[e] \subseteq Completed /\ e \notin older[e]
          /\ e \notin Completed => older[e] = {}
    /\ \A d, e \in Execs : d \in older[e] => older[d] \subseteq older[e]

\* What is older than something expired has expired, for the same pass.
ExpiredAreOldest ==
    \A c \in Cleaner :
       /\ expired[c] \subseteq Completed \cup In("DELETED")
       /\ \A e \in expired[c] : older[e] \subseteq expired[c]
       /\ pass[c] # "expired" => expired[c] = {}

\* Expired, or beyond the number to keep.
Removable(e) == \/ \E d \in Cleaner : e \in expired[d]
                \/ Cardinality(NewerThan(e)) >= MaxFinished

\* What a batch still holds may be deleted, or has been deleted by another engine.
BatchesAreRemovable ==
    reran = {} =>
       \A c \in Cleaner : \A e \in batch[c] :
          /\ e \in CompletedRoots \cup In("DELETED")
          /\ e \in CompletedRoots => Removable(e)

ExpKept ==
    /\ ExecTypeOK /\ MaintTypeOK /\ ExpTypeOK /\ fetched \in [Cleaner -> BOOLEAN]
    /\ OrderOfCompletion /\ ExpiredAreOldest /\ BatchesAreRemovable

\* At first nothing has completed, and no pass is under way.
LEMMA ExpInitially == Init => ExpKept
<1> SUFFICES ASSUME Init PROVE ExpKept
  OBVIOUS
<1>1. ExecTypeOK /\ MaintTypeOK
  BY MaintInitially DEF MaintKept
<1> QED
  BY <1>1 DEF Init, ExecInit, ExpInit, ExpKept, ExpTypeOK, OrderOfCompletion,
     ExpiredAreOldest, BatchesAreRemovable

\* The sets of executions are finite.
LEMMA ExecsAreFinite == \A S \in SUBSET Execs : IsFiniteSet(S) /\ Cardinality(S) \in Nat
<1>1. 1 \in Int /\ MaxExecs \in Int
  BY ExecutionsAssumption
<1>2. IsFiniteSet(Execs)
  BY <1>1, FS_Interval DEF Execs
<1> QED
  BY <1>2, FS_Subset, FS_CardinalityType

\* Rows that appear, run, pause or complete leave the completed ones as they are.
LEMMA OthersStay ==
    ASSUME ExecTypeOK, OrderOfCompletion,
           \/ UNCHANGED execVars
           \/ \E e \in Execs : \/ StartWorkflow(e) \/ PauseWorkflow(e)
                               \/ CancelWorkflow(e)
                               \/ \E s \in Terminal : TaskEnds(e, s)
           \/ \E es \in SUBSET In("PAUSED") : ResumeWorkflows(es)
    PROVE  /\ OrderOfCompletion' /\ UNCHANGED reran
           /\ \A e \in Completed \cup In("DELETED") :
                 state'[e] = state[e] /\ older'[e] = older[e]
           /\ \A e \in Execs : NewerThan(e) \subseteq NewerThan(e)'
<1> USE DEF ExecTypeOK, OrderOfCompletion, Completed, Terminal
<1>1. UNCHANGED reran
  BY DEF execVars, StartWorkflow, PauseWorkflow, CancelWorkflow, TaskEnds, ResumeWorkflows
<1>2. \A e \in Completed \cup In("DELETED") :
         state'[e] = state[e] /\ older'[e] = older[e]
  BY DEF execVars, StartWorkflow, PauseWorkflow, CancelWorkflow, TaskEnds,
     ResumeWorkflows, Completes, In, Fresh
<1>3. OrderOfCompletion'
  <2>1. CASE UNCHANGED execVars
    BY <2>1 DEF execVars
  <2>2. ASSUME NEW e \in Execs, NEW s \in Terminal, e \notin Completed, Completes(e, s)
        PROVE  OrderOfCompletion'
    <3>1. Completed' = Completed \cup {e} /\ Completed \subseteq Execs
      BY <2>2 DEF Completes
    <3>2. \A d \in Execs : older'[d] = IF d = e THEN Completed ELSE older[d]
      BY <2>2 DEF Completes
    <3>3. \A d \in Execs : /\ older'[d] \subseteq Completed' /\ d \notin older'[d]
                           /\ d \notin Completed' => older'[d] = {}
      <4> HIDE DEF Completed
      <4> QED
        BY <2>2, <3>1, <3>2
    <3>4. \A d, f \in Execs : d \in older'[f] => older'[d] \subseteq older'[f]
      <4> HIDE DEF Completed
      <4> QED
        BY <2>2, <3>1, <3>2
    <3> QED
      BY <3>3, <3>4
  <2>3. CASE Completed' = Completed /\ older' = older
    BY <2>3
  <2>4. ASSUME NEW e \in Execs, StartWorkflow(e) \/ PauseWorkflow(e)
        PROVE  OrderOfCompletion'
    BY <2>3, <2>4 DEF StartWorkflow, PauseWorkflow, Fresh
  <2>5. ASSUME NEW e \in Execs, CancelWorkflow(e) PROVE OrderOfCompletion'
    BY <2>2, <2>5 DEF CancelWorkflow
  <2>6. ASSUME NEW e \in Execs, NEW s \in Terminal, TaskEnds(e, s)
        PROVE  OrderOfCompletion'
    BY <2>2, <2>3, <2>6 DEF TaskEnds
  <2>7. ASSUME NEW es \in SUBSET In("PAUSED"), ResumeWorkflows(es)
        PROVE  OrderOfCompletion'
    BY <2>3, <2>7 DEF ResumeWorkflows, In
  <2> QED
    BY <2>1, <2>4, <2>5, <2>6, <2>7
<1>4. \A e \in Execs : NewerThan(e) \subseteq NewerThan(e)'
  BY <1>2 DEF NewerThan, CompletedRoots
<1> QED
  BY <1>1, <1>2, <1>3, <1>4

\* A row that is not listed any more leaves the order of the others.
LEMMA UnlistedOrder ==
    ASSUME ExecTypeOK, OrderOfCompletion, NEW x \in Execs, NEW s, s \notin Terminal,
           state' = [state EXCEPT ![x] = s], older' = Unlisted(x)
    PROVE  OrderOfCompletion'
<1>1. Completed' = Completed \ {x}
  BY DEF ExecTypeOK, Completed
<1>2. \A d \in Execs : older'[d] = IF d = x THEN {} ELSE older[d] \ {x}
  BY DEF Unlisted
<1>3. \A d \in Execs : older[d] \subseteq Completed /\ d \notin older[d]
                       /\ (d \notin Completed => older[d] = {})
  BY DEF OrderOfCompletion
<1>4. \A d \in Execs : /\ older'[d] \subseteq Completed' /\ d \notin older'[d]
                       /\ d \notin Completed' => older'[d] = {}
  BY <1>1, <1>2, <1>3
<1>5. ASSUME NEW d \in Execs, NEW e \in Execs, d \in older'[e]
      PROVE  older'[d] \subseteq older'[e]
  <2>1. d # x /\ e # x /\ d \in older[e]
    BY <1>2, <1>5
  <2>2. older[d] \subseteq older[e]
    BY <2>1 DEF OrderOfCompletion
  <2> QED
    BY <1>2, <2>1, <2>2
<1> QED
  BY <1>4, <1>5 DEF OrderOfCompletion

\* The policy's own steps: a deletion takes an execution from what others count, but
\* then they have expired with it or are older than those that it is older than.
LEMMA PolicyKeeps ==
    ASSUME ExpKept, ExecTypeOK', MaintTypeOK', NEW c \in Cleaner, Policy(c) \/ PolicyFault(c)
    PROVE  ExpKept'
<1> USE DEF ExpKept
<1>1. ASSUME UNCHANGED <<state, older, reran, batch>>, ExpTypeOK',
             fetched' \in [Cleaner -> BOOLEAN], ExpiredAreOldest',
             \A d \in Cleaner :
                expired[d] \cap CompletedRoots \subseteq expired'[d] \cap CompletedRoots
      PROVE  ExpKept'
  BY <1>1 DEF OrderOfCompletion, Completed, BatchesAreRemovable, CompletedRoots, In,
     Removable, NewerThan
<1>2. CASE BeginPass(c)
  <2>1. expired[c] = {}
    BY <1>2 DEF BeginPass, ExpiredAreOldest
  <2>2. PICK old \in SUBSET Completed :
           /\ \A e \in old : older[e] \subseteq old
           /\ expired' = [expired EXCEPT ![c] = old]
    BY <1>2 DEF BeginPass
  <2>3. UNCHANGED <<state, older, reran, batch, fetched>>
        /\ pass' = [pass EXCEPT ![c] = "expired"]
    BY <1>2 DEF BeginPass, execVars
  <2>4. ExpTypeOK'
    BY <2>2, <2>3 DEF ExpTypeOK, Completed
  <2>5. ExpiredAreOldest'
    BY <2>2, <2>3 DEF ExpiredAreOldest, ExpTypeOK, Completed, In
  <2> QED
    BY <1>1, <2>1, <2>2, <2>3, <2>4, <2>5 DEF ExpTypeOK
<1>3. CASE FetchNothing(c)
  <2>1. /\ UNCHANGED <<state, older, reran, batch, fetched>>
        /\ expired' = [expired EXCEPT ![c] = {}]
        /\ pass' = [pass EXCEPT ![c] = IF pass[c] = "expired" THEN "superfluous" ELSE "idle"]
    BY <1>3 DEF FetchNothing, execVars
  <2>2. expired[c] \cap CompletedRoots = {}
    BY <1>3 DEF FetchNothing, Found, ExpiredAreOldest
  <2>3. ExpTypeOK' /\ ExpiredAreOldest'
    BY <2>1 DEF ExpTypeOK, ExpiredAreOldest, Completed, In
  <2> QED
    BY <1>1, <2>1, <2>2, <2>3 DEF ExpTypeOK
<1>4. CASE EndBatch(c)
  <2>1. /\ UNCHANGED <<state, older, reran, batch, expired, pass>>
        /\ fetched' = [fetched EXCEPT ![c] = FALSE] /\ batch[c] = {}
    BY <1>4 DEF EndBatch, execVars
  <2>2. ExpTypeOK' /\ ExpiredAreOldest'
    BY <2>1 DEF ExpTypeOK, ExpiredAreOldest, Completed, In
  <2> QED
    BY <1>1, <2>1, <2>2
<1>5. CASE Fetch(c)
  <2>1. PICK b \in Limited(Found(c)) : batch' = [batch EXCEPT ![c] = b]
    BY <1>5 DEF Fetch
  <2>2. /\ UNCHANGED <<state, older, reran, expired, pass>>
        /\ fetched' = [fetched EXCEPT ![c] = TRUE]
    BY <1>5 DEF Fetch, execVars
  <2>3. b \subseteq Found(c) /\ Found(c) \subseteq Execs
    BY <2>1 DEF Limited, Found, Superfluous, CompletedRoots, Completed
  <2>4. ExpTypeOK' /\ fetched' \in [Cleaner -> BOOLEAN]
    BY <2>1, <2>2, <2>3 DEF ExpTypeOK
  <2>5. \A e \in Found(c) : e \in CompletedRoots /\ Removable(e)
    BY DEF Found, Superfluous, Removable
  <2>6. /\ CompletedRoots' = CompletedRoots /\ In("DELETED")' = In("DELETED")
        /\ \A e \in Execs : Removable(e)' = Removable(e)
    BY <2>2 DEF CompletedRoots, Completed, In, Removable, NewerThan
  <2>7. BatchesAreRemovable'
    BY <2>1, <2>2, <2>3, <2>5, <2>6 DEF BatchesAreRemovable, ExpTypeOK
  <2>8. OrderOfCompletion' /\ ExpiredAreOldest'
    BY <2>2 DEF OrderOfCompletion, ExpiredAreOldest, Completed, In
  <2> QED
    BY <2>4, <2>7, <2>8
<1>6. ASSUME NEW x \in Execs, batch' = [batch EXCEPT ![c] = batch[c] \ {x}],
             UNCHANGED <<pass, expired, fetched>>, UNCHANGED execVars
      PROVE  ExpKept'
  <2>1. ExpTypeOK'
    BY <1>6 DEF ExpTypeOK
  <2>2. OrderOfCompletion' /\ ExpiredAreOldest'
    BY <1>6 DEF execVars, OrderOfCompletion, ExpiredAreOldest, Completed, In
  <2>3. /\ CompletedRoots' = CompletedRoots /\ In("DELETED")' = In("DELETED")
        /\ \A e \in Execs : Removable(e)' = Removable(e)
    BY <1>6 DEF execVars, CompletedRoots, Completed, In, Removable, NewerThan
  <2>4. BatchesAreRemovable'
    BY <1>6, <2>3 DEF BatchesAreRemovable, ExpTypeOK, execVars
  <2> QED
    BY <1>6, <2>1, <2>2, <2>4
<1>7. ASSUME NEW x \in Execs, Delete(c, x), DeleteWorkflow(x) PROVE ExpKept'
  <2>1. /\ x \in batch[c] /\ batch' = [batch EXCEPT ![c] = batch[c] \ {x}]
        /\ UNCHANGED <<pass, expired, fetched, reran>>
        /\ state' = [state EXCEPT ![x] = "DELETED"] /\ older' = Unlisted(x)
        /\ state[x] # "DELETED"
    BY <1>7 DEF Delete, DeleteWorkflow
  <2>2. ExpTypeOK'
    BY <2>1 DEF ExpTypeOK
  <2>3. OrderOfCompletion'
    BY <2>1, UnlistedOrder DEF Terminal
  <2>4. /\ CompletedRoots' = CompletedRoots \ {x}
        /\ In("DELETED")' = In("DELETED") \cup {x}
        /\ Completed' = Completed \ {x}
    BY <2>1 DEF CompletedRoots, Completed, In, ExecTypeOK, Terminal
  <2>5. \A d \in Execs : older'[d] = IF d = x THEN {} ELSE older[d] \ {x}
    BY <2>1 DEF Unlisted
  <2>6. ExpiredAreOldest'
    <3>1. ASSUME NEW d \in Cleaner
          PROVE  /\ expired[d] \subseteq Completed' \cup In("DELETED")'
                 /\ \A e \in expired[d] : older'[e] \subseteq expired[d]
                 /\ pass[d] # "expired" => expired[d] = {}
      <4>1. /\ expired[d] \subseteq Completed \cup In("DELETED")
            /\ \A e \in expired[d] : older[e] \subseteq expired[d]
            /\ pass[d] # "expired" => expired[d] = {}
            /\ expired[d] \subseteq Execs
        BY DEF ExpiredAreOldest, ExpTypeOK
      <4> HIDE DEF ExpKept
      <4> QED
        BY <2>4, <2>5, <4>1
    <3> QED
      BY <2>1, <3>1 DEF ExpiredAreOldest
  <2>7. ASSUME reran = {}, NEW e \in CompletedRoots, e # x, Removable(e)
        PROVE  Removable(e)'
    <3>1. x \in CompletedRoots /\ Removable(x)
      BY <2>1, <2>7 DEF BatchesAreRemovable, In
    <3>2. e \in Execs /\ CompletedRoots \subseteq Execs
      BY DEF CompletedRoots, Completed
    <3>3. CASE \E d \in Cleaner : e \in expired[d]
      BY <2>1, <3>3 DEF Removable
    <3>4. CASE x \notin NewerThan(e) /\ Cardinality(NewerThan(e)) >= MaxFinished
      <4>1. NewerThan(e)' = NewerThan(e)
        BY <2>4, <2>5, <2>7, <3>2, <3>4 DEF NewerThan
      <4> QED
        BY <3>4, <4>1 DEF Removable
    <3>5. CASE x \in NewerThan(e) /\ \E d \in Cleaner : x \in expired[d]
      BY <2>1, <3>5 DEF NewerThan, ExpiredAreOldest, Removable
    <3>6. CASE x \in NewerThan(e) /\ Cardinality(NewerThan(x)) >= MaxFinished
      <4>1. NewerThan(x) \subseteq NewerThan(e)'
        <5>1. ASSUME NEW d \in NewerThan(x) PROVE d \in NewerThan(e)'
          <6>1. d \in CompletedRoots /\ x \in older[d] /\ e \in older[x]
            BY <3>6, <5>1 DEF NewerThan
          <6>2. d # x /\ e \in older[d]
            BY <3>1, <3>2, <6>1 DEF OrderOfCompletion
          <6> QED
            BY <2>4, <2>5, <2>7, <3>2, <6>1, <6>2 DEF NewerThan
        <5> QED
          BY <5>1
      <4>2. IsFiniteSet(NewerThan(e)') /\ Cardinality(NewerThan(e)') \in Nat
            /\ Cardinality(NewerThan(x)) \in Nat
        BY <2>4, <3>2, ExecsAreFinite DEF NewerThan
      <4>3. Cardinality(NewerThan(x)) <= Cardinality(NewerThan(e)')
        BY <4>1, <4>2, FS_Subset
      <4>4. Cardinality(NewerThan(e)') >= MaxFinished
        BY <3>6, <4>2, <4>3, ExpirationAssumption
      <4> QED
        BY <4>4 DEF Removable
    <3> QED
      BY <2>7, <3>1, <3>3, <3>4, <3>5, <3>6 DEF Removable
  <2>8. BatchesAreRemovable'
    <3> SUFFICES ASSUME reran = {}, NEW d \in Cleaner, NEW e \in batch'[d]
                 PROVE  /\ e \in CompletedRoots' \cup In("DELETED")'
                        /\ e \in CompletedRoots' => Removable(e)'
      BY <2>1 DEF BatchesAreRemovable
    <3>1. e \in batch[d]
      BY <2>1 DEF ExpTypeOK
    <3>2. e \in CompletedRoots \cup In("DELETED") /\ (e \in CompletedRoots => Removable(e))
      BY <3>1 DEF BatchesAreRemovable
    <3> QED
      BY <2>4, <2>7, <3>2
  <2> QED
    BY <2>1, <2>2, <2>3, <2>6, <2>8
<1>8. ASSUME NEW x \in Execs, Delete(c, x) PROVE ExpKept'
  BY <1>6, <1>7, <1>8 DEF Delete
<1>9. ASSUME NEW x \in Execs, DeleteFails(c, x) PROVE ExpKept'
  BY <1>6, <1>9 DEF DeleteFails
<1> HIDE DEF ExpKept
<1> QED
  BY <1>2, <1>3, <1>4, <1>5, <1>8, <1>9 DEF Policy, PolicyFault

\* Whoever takes the next step, what the batches hold may still be deleted.
LEMMA ExpNext ==
    ASSUME ExpKept, ExecTypeOK', MaintTypeOK', [Next]_vars
    PROVE  ExpKept'
<1> DEFINE Stays == \/ UNCHANGED execVars
                    \/ \E e \in Execs : \/ StartWorkflow(e) \/ PauseWorkflow(e)
                                        \/ CancelWorkflow(e)
                                        \/ \E s \in Terminal : TaskEnds(e, s)
                    \/ \E es \in SUBSET In("PAUSED") : ResumeWorkflows(es)
<1>1. ASSUME UNCHANGED <<pass, batch, fetched>>, Stays,
             UNCHANGED expired \/ StillExpired
      PROVE  ExpKept'
  <2>1. /\ OrderOfCompletion' /\ UNCHANGED reran
        /\ \A e \in Completed \cup In("DELETED") :
              state'[e] = state[e] /\ older'[e] = older[e]
        /\ \A e \in Execs : NewerThan(e) \subseteq NewerThan(e)'
    BY <1>1, OthersStay DEF ExpKept
  <2> HIDE DEF Stays
  <2>2. expired' = expired
    <3>1. CASE StillExpired
      <4>1. \A d \in Cleaner : \A e \in expired[d] : state'[e] = state[e]
        BY <2>1 DEF ExpKept, ExpiredAreOldest
      <4>2. \A d \in Cleaner : {e \in expired[d] : state'[e] = state[e]} = expired[d]
        BY <4>1
      <4> QED
        BY <3>1, <4>2 DEF StillExpired, ExpKept, ExpTypeOK
    <3> QED
      BY <1>1, <3>1
  <2>3. Completed \subseteq Completed' /\ In("DELETED") \subseteq In("DELETED")'
    BY <2>1 DEF Completed, In
  <2>4. ExpTypeOK' /\ ExpiredAreOldest' /\ fetched' \in [Cleaner -> BOOLEAN]
    BY <1>1, <2>1, <2>2, <2>3 DEF ExpTypeOK, ExpiredAreOldest, ExpKept
  <2>5. \A e \in CompletedRoots \cup In("DELETED") :
           /\ e \in CompletedRoots => e \in CompletedRoots'
           /\ e \in In("DELETED") => e \in In("DELETED")' /\ e \notin CompletedRoots'
    BY <2>1 DEF CompletedRoots, Completed, In, Terminal
  <2>6. \A e \in Execs : Removable(e) => Removable(e)'
    <3> SUFFICES ASSUME NEW e \in Execs, Cardinality(NewerThan(e)) >= MaxFinished
                 PROVE  Cardinality(NewerThan(e)') >= MaxFinished
      BY <2>2 DEF Removable
    <3>1. NewerThan(e) \in SUBSET Execs /\ NewerThan(e)' \in SUBSET Execs
      BY DEF NewerThan, CompletedRoots, Completed
    <3>2. /\ Cardinality(NewerThan(e)) \in Nat /\ Cardinality(NewerThan(e)') \in Nat
          /\ IsFiniteSet(NewerThan(e)')
      BY <3>1, ExecsAreFinite
    <3>3. Cardinality(NewerThan(e)) <= Cardinality(NewerThan(e)')
      BY <2>1, <3>2, FS_Subset
    <3> QED
      BY <3>2, <3>3, ExpirationAssumption
  <2>7. BatchesAreRemovable'
    <3> SUFFICES ASSUME reran = {}, NEW d \in Cleaner, NEW e \in batch[d]
                 PROVE  /\ e \in CompletedRoots' \cup In("DELETED")'
                        /\ e \in CompletedRoots' => Removable(e)'
      BY <1>1, <2>1 DEF BatchesAreRemovable
    <3>1. e \in CompletedRoots \cup In("DELETED") /\ (e \in CompletedRoots => Removable(e))
      BY DEF BatchesAreRemovable, ExpKept
    <3>2. e \in Execs
      BY <3>1 DEF CompletedRoots, Completed, In
    <3> QED
      BY <2>5, <2>6, <3>1, <3>2
  <2> QED
    BY <2>1, <2>4, <2>7 DEF ExpKept
<1>2. ASSUME NEW x \in Execs, RerunWorkflow(x), StillExpired,
             UNCHANGED <<pass, batch, fetched>>
      PROVE  ExpKept'
  <2>1. /\ state' = [state EXCEPT ![x] = "RUNNING"] /\ older' = Unlisted(x)
        /\ state[x] = "ERROR" /\ reran' = reran \cup {x}
    BY <1>2 DEF RerunWorkflow
  <2>2. OrderOfCompletion'
    BY <2>1, UnlistedOrder DEF ExpKept, Terminal
  <2>3. \A d \in Cleaner : expired'[d] = {e \in expired[d] : state'[e] = state[e]}
    BY <1>2 DEF StillExpired
  <2>4. \A d \in Cleaner : expired'[d] = expired[d] \ {x}
    BY <2>1, <2>3 DEF ExpKept, ExecTypeOK, ExpTypeOK
  <2>5. /\ Completed' = Completed \ {x} /\ In("DELETED")' = In("DELETED")
        /\ \A d \in Execs : older'[d] = IF d = x THEN {} ELSE older[d] \ {x}
    BY <2>1 DEF ExpKept, ExecTypeOK, Completed, In, Terminal, Unlisted
  <2>6. ExpTypeOK' /\ fetched' \in [Cleaner -> BOOLEAN]
    <3>1. expired' \in [Cleaner -> SUBSET Execs]
      BY <1>2 DEF StillExpired, ExpKept, ExpTypeOK
    <3> QED
      BY <1>2, <3>1 DEF ExpKept, ExpTypeOK
  <2>7. ExpiredAreOldest'
    <3>1. ASSUME NEW d \in Cleaner
          PROVE  /\ expired'[d] \subseteq Completed' \cup In("DELETED")'
                 /\ \A e \in expired'[d] : older'[e] \subseteq expired'[d]
                 /\ pass[d] # "expired" => expired'[d] = {}
      <4>1. /\ expired[d] \subseteq Completed \cup In("DELETED")
            /\ \A e \in expired[d] : older[e] \subseteq expired[d]
            /\ pass[d] # "expired" => expired[d] = {}
            /\ expired[d] \subseteq Execs
        BY DEF ExpKept, ExpiredAreOldest, ExpTypeOK
      <4>2. expired'[d] = expired[d] \ {x}
        BY <2>4
      <4> QED
        BY <2>5, <4>1, <4>2
    <3> QED
      BY <1>2, <3>1 DEF ExpiredAreOldest
  <2>8. BatchesAreRemovable'
    BY <2>1 DEF BatchesAreRemovable
  <2> QED
    BY <2>2, <2>6, <2>7, <2>8 DEF ExpKept
<1>3. CASE Users
  <2>1. UNCHANGED <<pass, batch, fetched>> /\ StillExpired
    BY <1>3 DEF Users, EngineAlone
  <2>2. Stays \/ \E x \in Execs : RerunWorkflow(x)
    BY <1>3, UserSteps
  <2> HIDE DEF Stays
  <2> QED
    BY <1>1, <1>2, <2>1, <2>2
<1>4. ASSUME NEW j \in Jobs, JobStep(j) \/ JobFault(j) PROVE ExpKept'
  <2>1. UNCHANGED <<pass, batch, fetched>> /\ StillExpired
    BY <1>4 DEF JobStep, JobFault, EngineAlone
  <2>2. Stays
    BY <1>4, JobSteps DEF ExpKept
  <2> HIDE DEF Stays
  <2> QED
    BY <1>1, <2>1, <2>2
<1>5. ASSUME NEW e \in Execs, Ends(e) PROVE ExpKept'
  BY <1>1, <1>5 DEF Ends, EngineAlone
<1>6. ASSUME NEW c \in Cleaner, Policy(c) \/ PolicyFault(c) PROVE ExpKept'
  BY <1>6, PolicyKeeps
<1>7. CASE \/ Time \/ CronApi \/ \E en \in Engine : Poll(en) \/ Decide(en) \/ Run(en)
           \/ EventApi \/ EventRestart \/ EventCommit \/ EventCall
           \/ \E t \in Trigger : EventLoop(t)
           \/ \E j \in Job : Caller(j) \/ CallIsDue(j)
           \/ \E p \in Proc : CallsLoop(p) \/ CallsFault(p)
  <2>1. UNCHANGED expVars
    BY <1>7 DEF Time, CronApi, Poll, Decide, Run, CronAlone, EventApi, EventRestart,
       EventCommit, EventCall, EventLoop, EventAlone, Caller, CallIsDue, CallsLoop,
       CallsFault, LegacyAlone, NotExp
  <2>2. Stays
    BY <1>7, StarterSteps
  <2> HIDE DEF Stays
  <2> QED
    BY <1>1, <2>1, <2>2 DEF expVars
<1>8. CASE UNCHANGED vars
  BY <1>1, <1>8 DEF vars, expVars
<1> QED
  BY <1>3, <1>4, <1>5, <1>6, <1>7, <1>8 DEF Next, ExecutionsStep

\* Whatever several engines fetched, and whatever completed or failed in between,
\* the policy deletes what has expired or is older than MaxFinished others.
THEOREM NewestAreKept == Spec => KeepsNewest
<1>1. ASSUME MaintKept, MaintKept', ExpKept, [Next]_vars PROVE ExpKept'
  BY <1>1, ExpNext DEF MaintKept
<1>2. ExpKept => \A c \in Cleaner : \A e \in batch[c] :
         state[e] # "DELETED" /\ reran = {} =>
           /\ state[e] \in Terminal
           /\ \/ \E d \in Cleaner : e \in expired[d]
              \/ Cardinality(NewerThan(e)) >= MaxFinished
  BY DEF ExpKept, BatchesAreRemovable, Removable, CompletedRoots, Completed, In
<1>3. ExpKept => [\A c \in Cleaner : \A e \in batch[c] :
         state[e] # "DELETED" /\ state'[e] = "DELETED" /\ reran = {} =>
           /\ state[e] \in Terminal
           /\ \/ \E d \in Cleaner : e \in expired[d]
              \/ Cardinality(NewerThan(e)) >= MaxFinished]_<<state, batch>>
  BY <1>2
<1> QED
  BY <1>1, <1>3, MaintInitially, MaintNext, ExpInitially, PTL DEF Spec, KeepsNewest

-----------------------------------------------------------------------------
(* Cron triggers.                                                           *)

CronRow == [gen : 0..MaxGen, next : 0..(MaxTime + Lookahead + Period),
            remaining : Nat \cup {Unlimited}]

\* A copy that is in use is of a trigger that was created, and was due when it was
\* loaded; an execution that has not started has no cause, and is in no batch.
CronRows ==
    /\ CronTypeOK /\ trigger \in CronRow /\ copy \in [Engine -> CronRow]
    /\ count \in {1, 2, Unlimited}
    /\ \A en \in Engine : step[en] # "idle" =>
          copy[en].gen \in 1..gens /\ copy[en].next < MaxTime + Lookahead
    /\ \A e \in Execs : state[e] = "NONE" =>
          cause[e] = NoCause /\ \A c \in Cleaner : e \notin batch[c]

\* A copy is what the row is or was: when it is older, its count is higher.
Behind(c) ==
    \/ c.next = trigger.next /\ c.remaining = trigger.remaining
    \/ /\ c.next < trigger.next
       /\ \/ c.remaining = Unlimited /\ trigger.remaining = Unlimited
          \/ trigger.remaining > 0 /\ c.remaining > trigger.remaining

CopiesAreBehind ==
    gens <= 1 /\ trigger.gen = 1 =>
       /\ trigger.remaining # 0 /\ (trigger.remaining = Unlimited <=> count = Unlimited)
       /\ \A en \in Engine : step[en] = "loaded" => Behind(copy[en])

\* Each due time is spent once: started, missed, or won by one engine, and the row
\* has moved past it.
SpentOnce ==
    gens <= 1 =>
       /\ IsFiniteSet(Spent)
       /\ \A s \in Spent : s.gen = 1 /\ (trigger.gen = 1 => s.due < trigger.next)
       /\ \A en \in Engine : step[en] = "won" =>
             /\ CauseOf(en) \notin Started
             /\ \A em \in Engine \ {en} : step[em] = "won" => CauseOf(em) # CauseOf(en)

\* Who will release the trust of a trigger that is gone: the engine that is about
\* to start its workflow, or an execution that nobody is going to delete first.
TrustIsHeld ==
    gens <= 1 /\ missed = {} =>
       \A g \in trust \ {trigger.gen} :
          \/ \E en \in Engine : step[en] = "won" /\ copy[en].gen = g
          \/ \E e \in Execs : /\ cause[e].gen = g /\ state[e] \in {"RUNNING", "PAUSED"}
                              /\ \A c \in Cleaner : e \notin batch[c]

CronKept == CronRows /\ CopiesAreBehind /\ SpentOnce /\ OncePerDueTime /\ CountAddsUp

-----------------------------------------------------------------------------

\* Whose steps change the triggers and the copies of the engines.
CronStep ==
    \/ Tick \/ DeleteCronTrigger \/ \E n \in {1, Unlimited} : CreateCronTrigger(n)
    \/ \E en \in Engine :
          \/ GetNextCronTriggers(en) \/ AdvanceCronTrigger(en) \/ CronFails(en)
          \/ \E e \in Execs : StartByCron(en, e)

\* Everything but the trusts, which the engine releases.
CronAside == UNCHANGED <<now, trigger, gens, count, copy, step, cause, missed>>

\* The cron triggers' own steps, and what the other services do to their state.
LEMMA CronSteps ==
    ASSUME [Next]_vars
    PROVE  CronStep \/ (CronAside /\ (UNCHANGED trust \/ ReleaseTrusts(Ended)))
<1>1. CASE Time \/ CronApi \/ \E en \in Engine : Poll(en) \/ Decide(en) \/ Run(en)
  BY <1>1 DEF Time, CronApi, Poll, Decide, Run, CronStep
<1>2. CASE \/ EventApi \/ EventRestart \/ EventCommit \/ EventCall
           \/ \E t \in Trigger : EventLoop(t)
           \/ \E c \in Cleaner : Policy(c) \/ PolicyFault(c)
           \/ \E j \in Job : Caller(j) \/ CallIsDue(j)
           \/ \E p \in Proc : CallsLoop(p) \/ CallsFault(p)
  <2>1. UNCHANGED cronVars
    BY <1>2 DEF EventApi, EventRestart, EventCommit, EventCall, EventLoop, EventAlone,
       Policy, PolicyFault, Caller, CallIsDue, CallsLoop, CallsFault, LegacyAlone, NotCron
  <2> QED
    BY <2>1 DEF cronVars, CronAside
<1>3. CASE Users \/ (\E j \in Jobs : JobStep(j) \/ JobFault(j)) \/ \E e \in Execs : Ends(e)
  <2>1. ReleaseTrusts(Ended)
    BY <1>3 DEF Users, JobStep, JobFault, Ends, EngineAlone
  <2> QED
    BY <2>1 DEF ReleaseTrusts, CronAside
<1>4. CASE UNCHANGED vars
  BY <1>4 DEF vars, cronVars, CronAside
<1> QED
  BY <1>1, <1>2, <1>3, <1>4 DEF Next, ExecutionsStep

\* Only completed executions get into a batch.
LEMMA BatchesAreFetched ==
    ASSUME ExpKept, [Next]_vars
    PROVE  \A c \in Cleaner : batch'[c] \subseteq batch[c] \cup Completed
<1> USE DEF ExpKept
<1>1. ASSUME NEW c \in Cleaner, Policy(c) \/ PolicyFault(c)
      PROVE  \A d \in Cleaner : batch'[d] \subseteq batch[d] \cup Completed
  <2>1. \A b \in Limited(Found(c)) : b \subseteq Completed
    BY DEF Limited, Found, Superfluous, CompletedRoots
  <2> QED
    BY <1>1, <2>1 DEF Policy, PolicyFault, BeginPass, Fetch, FetchNothing, EndBatch, Delete,
       DeleteFails, ExpTypeOK
<1>2. ASSUME UNCHANGED batch PROVE \A d \in Cleaner : batch'[d] \subseteq batch[d]
  BY <1>2
<1>3. (\E c \in Cleaner : Policy(c) \/ PolicyFault(c)) \/ UNCHANGED batch
  <2>1. CASE Time \/ CronApi \/ \E en \in Engine : Poll(en) \/ Decide(en) \/ Run(en)
    BY <2>1 DEF Time, CronApi, Poll, Decide, Run, CronAlone, NotExp, expVars
  <2>2. CASE \/ EventApi \/ EventRestart \/ EventCommit \/ EventCall
             \/ \E t \in Trigger : EventLoop(t)
    BY <2>2 DEF EventApi, EventRestart, EventCommit, EventCall, EventLoop, EventAlone,
       NotExp, expVars
  <2>3. CASE \/ \E j \in Job : Caller(j) \/ CallIsDue(j)
             \/ \E p \in Proc : CallsLoop(p) \/ CallsFault(p)
    BY <2>3 DEF Caller, CallIsDue, CallsLoop, CallsFault, LegacyAlone, NotExp, expVars
  <2>4. CASE Users \/ (\E j \in Jobs : JobStep(j) \/ JobFault(j))
             \/ \E x \in Execs : Ends(x)
    BY <2>4 DEF Users, JobStep, JobFault, Ends, EngineAlone
  <2>5. CASE UNCHANGED vars
    BY <2>5 DEF vars, expVars
  <2> QED
    BY <2>1, <2>2, <2>3, <2>4, <2>5 DEF Next, ExecutionsStep
<1> QED
  BY <1>1, <1>2, <1>3

\* An execution starts once.
LEMMA NoneIsFirst ==
    ASSUME ExpKept, [Next]_vars, NEW e \in Execs, state'[e] = "NONE"
    PROVE  state[e] = "NONE"
<1>1. ExecStep \/ UNCHANGED execVars
  BY ExecSteps DEF ExpKept
<1> QED
  BY <1>1 DEF ExpKept, ExecStep, execVars, StartWorkflow, PauseWorkflow, CancelWorkflow,
     Completes, RerunWorkflow, DeleteWorkflow, TaskEnds, ResumeWorkflows, ExecTypeOK, Terminal

\* The next time of the pattern is later, by at most a period.
LEMMA NextTimeIsLater ==
    ASSUME NEW t \in Nat
    PROVE  NextTime(t) \in Nat /\ t < NextTime(t) /\ NextTime(t) <= t + Period
<1> DEFINE q == t \div Period
           r == t % Period
<1>0. Period \in Nat \ {0}
  BY CronAssumption
<1>1. q \in Int /\ r \in 0..(Period - 1) /\ t = Period * q + r
  BY <1>0
<1>2. (q + 1) * Period = Period * q + Period
  BY <1>0, <1>1
<1>3. Period * q \in Int
  BY <1>0, <1>1
<1> HIDE DEF q, r
<1> QED
  BY <1>0, <1>1, <1>2, <1>3 DEF NextTime, q

\* What one step of a trigger's loop does to the row.
LEMMA AdvanceEffect ==
    ASSUME CronRows, NEW en \in Engine, AdvanceCronTrigger(en)
    PROVE  LET c == copy[en] IN
           /\ step[en] = "loaded" /\ UNCHANGED <<now, gens, count, cause, missed, trust>>
           /\ UNCHANGED execVars
           /\ \/ /\ step' = [step EXCEPT ![en] = "idle"]
                 /\ copy' = [copy EXCEPT ![en] = NoRow]
                 /\ \/ trigger.gen = 0 /\ trigger' = NoRow
                    \/ trigger.gen # 0 /\ trigger' = trigger /\ trigger.next # c.next
              \/ /\ trigger.gen # 0 /\ copy' = copy /\ step' = [step EXCEPT ![en] = "won"]
                 /\ \/ trigger' = NoRow /\ Decremented(c.remaining) = 0
                    \/ /\ trigger' = Advanced(c) /\ trigger.next = c.next
                       /\ Decremented(c.remaining) # 0
<1> DEFINE c == copy[en]
           a == Advance(c)
<1>1. /\ step[en] = "loaded" /\ UNCHANGED <<now, gens, count, cause, missed, trust>>
      /\ UNCHANGED execVars
      /\ trigger' = a.row
      /\ step' = [step EXCEPT ![en] = IF a.modified THEN "won" ELSE "idle"]
      /\ copy' = [copy EXCEPT ![en] = IF a.modified THEN c ELSE NoRow]
  BY DEF AdvanceCronTrigger
<1>2. copy = [copy EXCEPT ![en] = c]
  BY DEF CronRows
<1>3. CASE trigger.gen = 0
  <2>1. a.row = NoRow /\ a.modified = FALSE
    BY <1>3 DEF Advance
  <2> HIDE DEF a
  <2> QED
    BY <1>1, <1>3, <2>1
<1>4. CASE trigger.gen # 0 /\ Decremented(c.remaining) = 0
  <2>1. a.row = NoRow /\ a.modified = TRUE
    BY <1>4 DEF Advance
  <2> HIDE DEF a
  <2> QED
    BY <1>1, <1>2, <1>4, <2>1
<1>5. CASE trigger.gen # 0 /\ Decremented(c.remaining) # 0 /\ trigger.next # c.next
  <2>1. a.row = trigger /\ a.modified = FALSE
    BY <1>5 DEF Advance
  <2> HIDE DEF a
  <2> QED
    BY <1>1, <1>5, <2>1
<1>6. CASE trigger.gen # 0 /\ Decremented(c.remaining) # 0 /\ trigger.next = c.next
  <2>1. a.row = Advanced(c) /\ a.modified = TRUE
    BY <1>6 DEF Advance
  <2> HIDE DEF a
  <2> QED
    BY <1>1, <1>2, <1>6, <2>1
<1> QED
  BY <1>3, <1>4, <1>5, <1>6

\* An advanced row is a row, and later than the copy it was advanced from.
LEMMA AdvancedIsLater ==
    ASSUME CronRows, NEW en \in Engine, step[en] = "loaded"
    PROVE  /\ Advanced(copy[en]) \in CronRow
           /\ copy[en].next < Advanced(copy[en]).next
           /\ Advanced(copy[en]).gen = trigger.gen
           /\ Advanced(copy[en]).remaining = Decremented(copy[en].remaining)
<1> DEFINE c == copy[en]
           t == IF now > c.next THEN now ELSE c.next
<1>1. /\ c \in CronRow /\ c.next < MaxTime + Lookahead /\ now \in 0..MaxTime
      /\ trigger \in CronRow
  BY DEF CronRows, CronTypeOK
<1>2. {Period, Lookahead, MaxTime, MaxGen} \subseteq Nat \ {0}
  BY CronAssumption
<1>3. c.next \in Nat /\ c.remaining \in Nat \cup {Unlimited} /\ now \in Nat
  BY <1>1, <1>2 DEF CronRow
<1>4. t \in Nat /\ t < MaxTime + Lookahead /\ c.next <= t
  BY <1>1, <1>2, <1>3
<1> HIDE DEF t
<1>5. /\ NextTime(t) \in 0..(MaxTime + Lookahead + Period) /\ c.next < NextTime(t)
  BY <1>2, <1>3, <1>4, NextTimeIsLater
<1>6. Decremented(c.remaining) \in Nat \cup {Unlimited}
  BY <1>3 DEF Decremented, Unlimited
<1>7. Advanced(c) = [gen |-> trigger.gen, next |-> NextTime(t),
                     remaining |-> Decremented(c.remaining)]
  BY DEF Advanced, t
<1> QED
  BY <1>1, <1>5, <1>6, <1>7 DEF CronRow

\* Rows, copies and causes keep their types.
LEMMA CronRowsNext ==
    ASSUME CronRows, ExpKept, ExecTypeOK', [Next]_vars
    PROVE  CronRows'
<1> USE DEF CronRows, CronTypeOK
<1>0. {Period, Lookahead, MaxTime, MaxGen} \subseteq Nat \ {0}
  BY CronAssumption
<1>1. ASSUME NEW e \in Execs, state'[e] = "NONE", cause'[e] = cause[e]
      PROVE  cause'[e] = NoCause /\ \A c \in Cleaner : e \notin batch'[c]
  BY <1>1, NoneIsFirst, BatchesAreFetched DEF Completed, Terminal
<1>2. NoRow \in CronRow /\ NoRow.gen = 0
  BY <1>0 DEF NoRow, CronRow
<1>3. \A en \in Engine : step[en] = "idle" <=> copy[en].gen = 0
  BY <1>2 DEF NoRow
<1>4. CASE CronAside /\ (UNCHANGED trust \/ ReleaseTrusts(Ended))
  <2>1. trust' \subseteq trust
    BY <1>4 DEF ReleaseTrusts, TrustAfter
  <2> QED
    BY <1>1, <1>4, <2>1 DEF CronAside, CronRow
<1>5. CASE Tick
  BY <1>0, <1>1, <1>5 DEF Tick
<1>6. CASE DeleteCronTrigger
  <2>1. trigger' = NoRow /\ trigger'.gen = 0 /\ trigger'.remaining = 0
    BY <1>6 DEF DeleteCronTrigger, NoRow
  <2>2. UNCHANGED <<now, gens, count, copy, step, cause, missed>> /\ trust' \subseteq trust
    BY <1>6 DEF DeleteCronTrigger
  <2>3. CronTypeOK'
    BY <2>1, <2>2
  <2> QED
    BY <1>1, <1>2, <2>1, <2>2, <2>3
<1>7. ASSUME NEW n \in {1, Unlimited}, CreateCronTrigger(n) PROVE CronRows'
  <2>1. gens' = gens + 1 /\ gens' \in 0..MaxGen /\ trust' = trust \cup {gens'}
        /\ trigger' = Row(gens', n) /\ UNCHANGED <<now, count, copy, step, cause, missed>>
    BY <1>0, <1>7 DEF CreateCronTrigger
  <2>2. NextTime(now) \in 0..(MaxTime + Lookahead + Period)
    BY <1>0, NextTimeIsLater
  <2>3. trigger' \in CronRow /\ trigger'.gen = gens' /\ trigger'.remaining = n
    BY <2>1, <2>2 DEF Row, CronRow
  <2>4. trust' \subseteq 1..gens' /\ 1..gens \subseteq 1..gens'
    BY <1>0, <2>1
  <2> QED
    BY <1>1, <2>1, <2>3, <2>4
<1>8. ASSUME NEW en \in Engine, GetNextCronTriggers(en) PROVE CronRows'
  <2>1. /\ copy' = [copy EXCEPT ![en] = trigger] /\ step' = [step EXCEPT ![en] = "loaded"]
        /\ UNCHANGED <<now, trigger, gens, count, cause, missed, trust>>
        /\ trigger.gen # 0 /\ trigger.next < now + Lookahead
    BY <1>8 DEF GetNextCronTriggers, Due
  <2>2. trigger.gen \in 1..gens /\ trigger.next < MaxTime + Lookahead /\ trigger # NoRow
    BY <1>0, <1>2, <2>1 DEF CronRow
  <2> QED
    BY <1>1, <2>1, <2>2
<1>9. ASSUME NEW en \in Engine, AdvanceCronTrigger(en) PROVE CronRows'
  <2>1. trigger' \in CronRow /\ trigger'.gen \in {0, gens}
    BY <1>2, <1>9, AdvanceEffect, AdvancedIsLater
  <2>2. /\ UNCHANGED <<now, gens, count, cause, missed, trust>>
        /\ \/ step' = [step EXCEPT ![en] = "idle"] /\ copy' = [copy EXCEPT ![en] = NoRow]
           \/ copy' = copy /\ step' = [step EXCEPT ![en] = "won"]
        /\ step[en] = "loaded"
    BY <1>9, AdvanceEffect
  <2>3. trigger'.remaining \in Nat \cup {Unlimited}
    BY <2>1 DEF CronRow
  <2>4. CronTypeOK'
    BY <1>2, <2>1, <2>2, <2>3
  <2>5. \A e \in Engine : step'[e] # "idle" =>
           copy'[e].gen \in 1..gens' /\ copy'[e].next < MaxTime + Lookahead
    BY <2>2
  <2>6. copy' \in [Engine -> CronRow]
    BY <1>2, <2>2
  <2> QED
    BY <1>1, <2>1, <2>2, <2>4, <2>5, <2>6
<1>10. ASSUME NEW en \in Engine, step[en] # "idle", Rest(en),
              UNCHANGED <<now, trigger, gens, count, trust>>,
              missed' \subseteq missed \cup {CauseOf(en)},
              \/ cause' = cause
              \/ \E e \in Execs : /\ cause' = [cause EXCEPT ![e] = CauseOf(en)]
                                  /\ state'[e] # "NONE"
       PROVE  CronRows'
  <2>1. CauseOf(en) \in Cause
    BY <1>0, <1>10 DEF CauseOf, Cause, CronRow
  <2>2. cause' \in [Execs -> Cause] /\ missed' \subseteq Cause
    BY <1>10, <2>1
  <2>3. \A e \in Execs : state'[e] = "NONE" => cause'[e] = cause[e]
    BY <1>10
  <2> QED
    BY <1>1, <1>2, <1>10, <2>2, <2>3 DEF Rest
<1>11. ASSUME NEW en \in Engine, NEW e \in Execs, StartByCron(en, e) PROVE CronRows'
  <2>1. state'[e] = "RUNNING"
    BY <1>11 DEF StartByCron, StartWorkflow, ExpKept, ExecTypeOK
  <2> QED
    BY <1>10, <1>11, <2>1 DEF StartByCron
<1>12. ASSUME NEW en \in Engine, CronFails(en) PROVE CronRows'
  BY <1>10, <1>12 DEF CronFails
<1> HIDE DEF CronRows, CronTypeOK
<1> QED
  BY <1>4, <1>5, <1>6, <1>7, <1>8, <1>9, <1>11, <1>12, CronSteps DEF CronStep

\* The first trigger's counts, when nothing that they speak of changes but the row.
LEMMA CountsFrame ==
    ASSUME CronRows, CronKept, UNCHANGED <<gens, count, copy, step, cause, missed>>,
           trigger' = trigger \/ trigger'.gen = 0
    PROVE  CopiesAreBehind' /\ SpentOnce' /\ OncePerDueTime' /\ CountAddsUp'
<1> USE DEF CronKept
<1>1. Spent' = Spent /\ Started' = Started /\ \A en \in Engine : CauseOf(en)' = CauseOf(en)
  BY DEF Spent, Started, CauseOf
<1>2. CopiesAreBehind'
  BY DEF CopiesAreBehind, Behind
<1>3. SpentOnce' /\ OncePerDueTime'
  BY <1>1 DEF SpentOnce, OncePerDueTime
<1>4. CountAddsUp'
  <2>1. CASE trigger' = trigger
    BY <1>1, <2>1 DEF CountAddsUp
  <2>2. ASSUME trigger'.gen = 0, gens = 1, count # Unlimited
        PROVE  Cardinality(Spent) <= count
    <3>1. IsFiniteSet(Spent) /\ Cardinality(Spent) \in Nat
      BY <2>2, FS_CardinalityType DEF SpentOnce
    <3>2. trigger.remaining \in Nat \cup {Unlimited} /\ count \in Nat
      BY <2>2 DEF CronRows, CronTypeOK, Unlimited
    <3>3. CASE trigger.gen = 1
      <4>1. trigger.remaining \in Nat
        BY <2>2, <3>2, <3>3 DEF CopiesAreBehind
      <4>2. Cardinality(Spent) + trigger.remaining = count
        BY <2>2, <3>3 DEF CountAddsUp
      <4> QED
        BY <3>1, <3>2, <4>1, <4>2
    <3>4. CASE trigger.gen # 1
      BY <2>2, <3>4 DEF CountAddsUp
    <3> QED
      BY <3>3, <3>4
  <2> QED
    BY <1>1, <2>1, <2>2 DEF CountAddsUp
<1> QED
  BY <1>2, <1>3, <1>4

\* An engine that loads the row has the newest copy.
LEMMA CountsPoll ==
    ASSUME CronKept, NEW en \in Engine, GetNextCronTriggers(en)
    PROVE  CopiesAreBehind' /\ SpentOnce' /\ OncePerDueTime' /\ CountAddsUp'
<1> USE DEF CronKept
<1>1. /\ copy' = [copy EXCEPT ![en] = trigger] /\ step' = [step EXCEPT ![en] = "loaded"]
      /\ UNCHANGED <<trigger, gens, count, cause, missed>> /\ step[en] = "idle"
      /\ copy \in [Engine -> CronRow] /\ step \in [Engine -> {"idle", "loaded", "won"}]
  BY DEF GetNextCronTriggers, CronRows, CronTypeOK
<1>2. \A em \in Engine : /\ step'[em] = "won" <=> step[em] = "won"
                         /\ step[em] = "won" => copy'[em] = copy[em]
  BY <1>1
<1>3. Started' = Started
  BY <1>1 DEF Started
<1>4. \A em \in Engine : step[em] = "won" => CauseOf(em)' = CauseOf(em)
  BY <1>2 DEF CauseOf
<1>5. Spent' = Spent
  BY <1>1, <1>2, <1>3, <1>4 DEF Spent
<1>6. CopiesAreBehind'
  <2>1. \A c \in CronRow : Behind(c)' = Behind(c)
    BY <1>1 DEF Behind
  <2>2. Behind(trigger) /\ trigger \in CronRow
    BY DEF Behind, CronRows
  <2> QED
    BY <1>1, <2>1, <2>2 DEF CopiesAreBehind
<1> QED
  BY <1>1, <1>2, <1>3, <1>4, <1>5, <1>6 DEF SpentOnce, OncePerDueTime, CountAddsUp

\* An engine that wins spends a due time that nobody has spent, and one of the count.
LEMMA CountsAdvance ==
    ASSUME CronKept, CronRows', NEW en \in Engine, AdvanceCronTrigger(en)
    PROVE  CopiesAreBehind' /\ SpentOnce' /\ OncePerDueTime' /\ CountAddsUp'
<1> USE DEF CronKept
<1> DEFINE c == copy[en]
<1>0. /\ copy \in [Engine -> CronRow] /\ step \in [Engine -> {"idle", "loaded", "won"}]
      /\ step[en] = "loaded" /\ UNCHANGED <<gens, count, cause, missed>>
      /\ gens \in Nat /\ trigger.gen \in {0, gens} /\ trigger \in CronRow /\ c \in CronRow
      /\ c.gen \in 1..gens
  BY AdvanceEffect DEF CronRows, CronTypeOK
<1>1. Started' = Started
  BY <1>0 DEF Started
<1>2. CASE gens > 1
  BY <1>0, <1>2 DEF CopiesAreBehind, SpentOnce, OncePerDueTime, CountAddsUp
<1>3. CASE /\ gens <= 1 /\ step' = [step EXCEPT ![en] = "idle"]
           /\ copy' = [copy EXCEPT ![en] = NoRow]
           /\ \/ trigger' = trigger
              \/ trigger' = NoRow /\ trigger.gen = 0
  <2>1. \A em \in Engine : /\ step'[em] = "won" <=> step[em] = "won"
                           /\ step[em] = "won" => copy'[em] = copy[em]
                           /\ step'[em] = "loaded" =>
                                 step[em] = "loaded" /\ copy'[em] = copy[em]
    BY <1>0, <1>3
  <2>2. \A em \in Engine : step[em] = "won" => CauseOf(em)' = CauseOf(em)
    BY <2>1 DEF CauseOf
  <2>3. Spent' = Spent
    BY <1>0, <1>1, <2>1, <2>2 DEF Spent
  <2>4. CASE trigger' = trigger
    <3>1. CopiesAreBehind'
      BY <1>0, <2>1, <2>4 DEF CopiesAreBehind, Behind
    <3> QED
      BY <1>0, <1>1, <2>1, <2>2, <2>3, <2>4, <3>1 DEF SpentOnce, OncePerDueTime, CountAddsUp
  <2>5. CASE trigger' = NoRow /\ trigger.gen = 0
    <3>1. trigger'.gen = 0
      BY <2>5 DEF NoRow
    <3> QED
      BY <1>0, <1>1, <2>1, <2>2, <2>3, <2>5, <3>1
      DEF CopiesAreBehind, SpentOnce, OncePerDueTime, CountAddsUp
  <2> QED
    BY <1>3, <2>4, <2>5
<1>4. CASE /\ gens <= 1 /\ trigger.gen # 0 /\ copy' = copy
           /\ step' = [step EXCEPT ![en] = "won"]
           /\ \/ trigger' = NoRow /\ Decremented(c.remaining) = 0
              \/ /\ trigger' = Advanced(c) /\ trigger.next = c.next
                 /\ Decremented(c.remaining) # 0
  <2>1. gens = 1 /\ trigger.gen = 1 /\ c.gen = 1
    BY <1>0, <1>4
  <2>2. /\ trigger.remaining # 0 /\ (trigger.remaining = Unlimited <=> count = Unlimited)
        /\ Behind(c)
        /\ trigger.remaining \in Nat \cup {Unlimited} /\ trigger.next \in Int
        /\ c.remaining \in Nat \cup {Unlimited} /\ c.next \in Int
        /\ count \in {1, 2, Unlimited}
    BY <1>0, <2>1 DEF CopiesAreBehind, CronRow, CronRows
  <2>3. c.next = trigger.next /\ c.remaining = trigger.remaining
    <3>1. CASE Decremented(c.remaining) = 0
      BY <2>2, <3>1 DEF Decremented, Behind, Unlimited
    <3>2. CASE trigger.next = c.next
      BY <2>2, <3>2 DEF Behind
    <3> QED
      BY <1>4, <3>1, <3>2
  <2>4. CauseOf(en) = [gen |-> 1, due |-> trigger.next]
    BY <2>1, <2>3 DEF CauseOf
  <2>5. CauseOf(en) \notin Spent
    <3>1. \A s \in Spent : s.due < trigger.next
      BY <2>1 DEF SpentOnce
    <3>2. CauseOf(en).due = trigger.next /\ ~(trigger.next < trigger.next)
      BY <2>2, <2>4
    <3> QED
      BY <3>1, <3>2
  <2>6. \A em \in Engine : /\ CauseOf(em)' = CauseOf(em)
                           /\ step'[em] = "won" <=> step[em] = "won" \/ em = en
                           /\ step'[em] = "loaded" <=> step[em] = "loaded" /\ em # en
    BY <1>0, <1>4 DEF CauseOf
  <2>7. Spent' = Spent \cup {CauseOf(en)}
    BY <1>0, <1>1, <2>6 DEF Spent
  <2>8. /\ IsFiniteSet(Spent') /\ Cardinality(Spent') = Cardinality(Spent) + 1
        /\ Cardinality(Spent) \in Nat
    BY <2>1, <2>5, <2>7, FS_AddElement, FS_CardinalityType DEF SpentOnce
  <2>9. \A em \in Engine : step[em] = "won" => CauseOf(em) # CauseOf(en)
    BY <2>5 DEF Spent
  <2>10. CauseOf(en) \notin Started
    BY <2>5 DEF Spent
  <2>11. \A em \in Engine : step'[em] = "won" =>
            /\ CauseOf(em)' \notin Started'
            /\ \A ex \in Engine \ {em} : step'[ex] = "won" => CauseOf(ex)' # CauseOf(em)'
    <3>1. \A em \in Engine : step[em] = "won" =>
             /\ CauseOf(em) \notin Started
             /\ \A ex \in Engine \ {em} : step[ex] = "won" => CauseOf(ex) # CauseOf(em)
      BY <2>1 DEF SpentOnce
    <3> QED
      BY <1>1, <2>6, <2>9, <2>10, <3>1
  <2>12. OncePerDueTime'
    BY <1>0 DEF OncePerDueTime
  <2>13. CASE trigger' = NoRow /\ Decremented(c.remaining) = 0
    <3>1. trigger'.gen = 0
      BY <2>13 DEF NoRow
    <3>2. \A s \in Spent' : s.gen = 1
      BY <2>1, <2>4, <2>7 DEF SpentOnce
    <3>3. SpentOnce'
      BY <2>8, <2>11, <3>1, <3>2 DEF SpentOnce
    <3>4. trigger.remaining = 1
      BY <2>2, <2>3, <2>13 DEF Decremented, Unlimited
    <3>5. CountAddsUp'
      <4>1. count # Unlimited => Cardinality(Spent) + 1 = count
        BY <2>1, <3>4 DEF CountAddsUp
      <4> QED
        BY <1>0, <2>8, <3>1, <4>1 DEF CountAddsUp
    <3>6. CopiesAreBehind'
      BY <3>1 DEF CopiesAreBehind
    <3> QED
      BY <2>12, <3>3, <3>5, <3>6
  <2>14. CASE trigger' = Advanced(c) /\ Decremented(c.remaining) # 0
    <3>1. /\ trigger'.gen = 1 /\ c.next < trigger'.next /\ trigger'.next \in Int
          /\ trigger'.remaining = Decremented(c.remaining)
      BY <1>0, <2>1, <2>14, AdvancedIsLater DEF CronRow
    <3>2. \A s \in Spent' : s.gen = 1 /\ s.due < trigger'.next
      <4>1. \A s \in Spent : s.gen = 1 /\ s.due \in Int /\ s.due < trigger.next
        <5>1. \A s \in Spent : s.gen = 1 /\ s.due < trigger.next
          BY <2>1 DEF SpentOnce
        <5>2. \A s \in Spent : s \in Cause
          BY <1>0 DEF Spent, Started, CauseOf, CronRows, CronTypeOK, Cause, CronRow
        <5>3. \A s \in Cause : s.due \in Int
          BY DEF Cause
        <5> QED
          BY <5>1, <5>2, <5>3
      <4>2. CauseOf(en).gen = 1 /\ CauseOf(en).due = c.next
        BY <2>3, <2>4
      <4> QED
        BY <2>2, <2>3, <2>7, <3>1, <4>1, <4>2
    <3>3. SpentOnce'
      BY <2>8, <2>11, <3>1, <3>2 DEF SpentOnce
    <3>4. \/ trigger.remaining = Unlimited /\ trigger'.remaining = Unlimited
          \/ /\ trigger.remaining \in Nat /\ trigger'.remaining = trigger.remaining - 1
             /\ trigger'.remaining \in Nat /\ trigger'.remaining > 0
      BY <2>2, <2>3, <2>14, <3>1 DEF Decremented, Unlimited
    <3>5. CountAddsUp'
      <4>1. count # Unlimited => Cardinality(Spent) + trigger.remaining = count
        BY <2>1 DEF CountAddsUp
      <4> QED
        BY <1>0, <2>2, <2>8, <3>1, <3>4, <4>1 DEF CountAddsUp
    <3>6. CopiesAreBehind'
      <4>1. trigger'.remaining # 0
            /\ (trigger'.remaining = Unlimited <=> count' = Unlimited)
        BY <1>0, <2>2, <3>4 DEF Unlimited
      <4>2. ASSUME NEW em \in Engine, step'[em] = "loaded" PROVE Behind(copy[em])'
        <5>1. Behind(copy[em]) /\ copy'[em] = copy[em] /\ copy[em] \in CronRow
          BY <1>0, <1>4, <2>1, <2>6, <4>2 DEF CopiesAreBehind
        <5>2. copy[em].next \in Int /\ copy[em].remaining \in Int
          BY <5>1 DEF CronRow, Unlimited
        <5>3. copy[em].next < trigger'.next
          BY <2>2, <2>3, <3>1, <5>1, <5>2 DEF Behind
        <5>4. \/ copy[em].remaining = Unlimited /\ trigger'.remaining = Unlimited
              \/ trigger'.remaining > 0 /\ copy[em].remaining > trigger'.remaining
          BY <3>4, <5>1, <5>2 DEF Behind, Unlimited
        <5> QED
          BY <5>1, <5>3, <5>4 DEF Behind
      <4> QED
        BY <4>1, <4>2 DEF CopiesAreBehind
    <3> QED
      BY <2>12, <3>3, <3>5, <3>6
  <2> QED
    BY <1>4, <2>13, <2>14
<1> HIDE DEF c, CronKept
<1> QED
  BY <1>0, <1>2, <1>3, <1>4, AdvanceEffect DEF c, CronKept

\* A winner starts the workflow or fails to: what is spent stays spent.
LEMMA CountsRest ==
    ASSUME CronKept, NEW en \in Engine, step[en] # "idle", Rest(en),
           UNCHANGED <<trigger, gens, count>>,
           \/ step[en] = "loaded" /\ UNCHANGED <<cause, missed>>
           \/ step[en] = "won" /\ UNCHANGED cause /\ missed' = missed \cup {CauseOf(en)}
           \/ /\ step[en] = "won" /\ UNCHANGED missed
              /\ \E e \in Execs : /\ cause[e] = NoCause
                                  /\ cause' = [cause EXCEPT ![e] = CauseOf(en)]
    PROVE  CopiesAreBehind' /\ SpentOnce' /\ OncePerDueTime' /\ CountAddsUp'
<1> USE DEF CronKept
<1>0. /\ copy \in [Engine -> CronRow] /\ step \in [Engine -> {"idle", "loaded", "won"}]
      /\ cause \in [Execs -> Cause] /\ copy[en].gen \in 1..gens
  BY DEF CronRows, CronTypeOK
<1>1. \A em \in Engine : /\ step'[em] = IF em = en THEN "idle" ELSE step[em]
                         /\ em # en => copy'[em] = copy[em]
  BY <1>0 DEF Rest
<1>2. \A em \in Engine \ {en} : CauseOf(em)' = CauseOf(em)
  BY <1>1 DEF CauseOf
<1>3. CauseOf(en) # NoCause
  BY <1>0 DEF CauseOf, NoCause
<1>4. /\ Started' \subseteq Started \cup {CauseOf(en)} /\ Started \subseteq Started'
      /\ Started' # Started => step[en] = "won" /\ CauseOf(en) \in Started'
  <2>1. CASE UNCHANGED cause
    BY <2>1 DEF Started
  <2>2. ASSUME NEW e \in Execs, cause[e] = NoCause, step[en] = "won",
               cause' = [cause EXCEPT ![e] = CauseOf(en)]
        PROVE  Started' = Started \cup {CauseOf(en)} /\ step[en] = "won"
    <3>1. \A d \in Execs : cause'[d] = IF d = e THEN CauseOf(en) ELSE cause[d]
      BY <1>0, <2>2
    <3> QED
      BY <1>3, <2>2, <3>1 DEF Started
  <2> QED
    BY <2>1, <2>2
<1>5. Spent' = Spent
  <2>1. CASE step[en] = "loaded" /\ UNCHANGED <<cause, missed>>
    BY <1>1, <1>2, <1>4, <2>1 DEF Spent
  <2>2. CASE step[en] = "won" /\ UNCHANGED cause /\ missed' = missed \cup {CauseOf(en)}
    <3>1. Started' = Started
      BY <2>2 DEF Started
    <3> QED
      BY <1>1, <1>2, <2>2, <3>1 DEF Spent
  <2>3. ASSUME NEW e \in Execs, cause[e] = NoCause, step[en] = "won", UNCHANGED missed,
               cause' = [cause EXCEPT ![e] = CauseOf(en)]
        PROVE  Spent' = Spent
    <3>1. Started' = Started \cup {CauseOf(en)}
      <4>1. \A d \in Execs : cause'[d] = IF d = e THEN CauseOf(en) ELSE cause[d]
        BY <1>0, <2>3
      <4> QED
        BY <1>3, <2>3, <4>1 DEF Started
    <3> QED
      BY <1>1, <1>2, <2>3, <3>1 DEF Spent
  <2> QED
    BY <2>1, <2>2, <2>3
<1>6. CopiesAreBehind'
  BY <1>1 DEF CopiesAreBehind, Behind
<1>7. SpentOnce'
  <2>1. ASSUME gens <= 1, NEW em \in Engine, step'[em] = "won"
        PROVE  /\ CauseOf(em)' \notin Started'
               /\ \A ex \in Engine \ {em} : step'[ex] = "won" => CauseOf(ex)' # CauseOf(em)'
    <3>1. em # en /\ step[em] = "won" /\ CauseOf(em)' = CauseOf(em)
      BY <1>1, <1>2, <2>1
    <3>2. /\ CauseOf(em) \notin Started
          /\ \A ex \in Engine \ {em} : step[ex] = "won" => CauseOf(ex) # CauseOf(em)
      BY <2>1, <3>1 DEF SpentOnce
    <3> QED
      BY <1>1, <1>2, <1>4, <3>1, <3>2
  <2> QED
    BY <1>5, <2>1 DEF SpentOnce
<1>8. OncePerDueTime'
  <2>1. CASE UNCHANGED cause
    BY <2>1 DEF OncePerDueTime
  <2>2. ASSUME NEW e \in Execs, cause[e] = NoCause, step[en] = "won",
               cause' = [cause EXCEPT ![e] = CauseOf(en)]
        PROVE  OncePerDueTime'
    <3>1. gens <= 1 => \A d \in Execs : cause[d] # CauseOf(en)
      BY <1>3, <2>2 DEF SpentOnce, Started
    <3>2. \A d \in Execs : cause'[d] = IF d = e THEN CauseOf(en) ELSE cause[d]
      BY <1>0, <2>2
    <3> QED
      BY <2>2, <3>1, <3>2 DEF OncePerDueTime
  <2> QED
    BY <2>1, <2>2
<1>9. CountAddsUp'
  BY <1>5 DEF CountAddsUp
<1> QED
  BY <1>6, <1>7, <1>8, <1>9

\* Whoever takes the next step, no due time is spent twice and the count adds up.
LEMMA CronNext ==
    ASSUME CronKept, ExpKept, ExecTypeOK', [Next]_vars
    PROVE  CronKept'
<1> SUFFICES CopiesAreBehind' /\ SpentOnce' /\ OncePerDueTime' /\ CountAddsUp'
  BY CronRowsNext DEF CronKept
<1>0. CronRows /\ CronRows'
  BY CronRowsNext DEF CronKept
<1>1. CASE CronAside \/ Tick
  <2>1. UNCHANGED <<trigger, gens, count, copy, step, cause, missed>>
    BY <1>1 DEF CronAside, Tick
  <2> QED
    BY <1>0, <2>1, CountsFrame
<1>2. CASE DeleteCronTrigger
  <2>1. UNCHANGED <<gens, count, copy, step, cause, missed>> /\ trigger'.gen = 0
    BY <1>2 DEF DeleteCronTrigger, NoRow
  <2> QED
    BY <1>0, <2>1, CountsFrame
<1>3. ASSUME NEW n \in {1, Unlimited}, CreateCronTrigger(n)
      PROVE  CopiesAreBehind' /\ SpentOnce' /\ OncePerDueTime' /\ CountAddsUp'
  <2>1. gens' > 1
    BY <1>0, <1>3 DEF CreateCronTrigger, CronRows, CronTypeOK
  <2>2. ~(gens' <= 1) /\ gens' # 1
    BY <1>0, <2>1 DEF CronRows, CronTypeOK
  <2> QED
    BY <2>2 DEF CopiesAreBehind, SpentOnce, OncePerDueTime, CountAddsUp
<1>4. ASSUME NEW en \in Engine, NEW e \in Execs, StartByCron(en, e)
      PROVE  CopiesAreBehind' /\ SpentOnce' /\ OncePerDueTime' /\ CountAddsUp'
  <2>1. cause[e] = NoCause
    BY <1>0, <1>4 DEF StartByCron, StartWorkflow, Fresh, CronRows
  <2> QED
    BY <1>4, <2>1, CountsRest DEF StartByCron
<1>5. ASSUME NEW en \in Engine, CronFails(en)
      PROVE  CopiesAreBehind' /\ SpentOnce' /\ OncePerDueTime' /\ CountAddsUp'
  <2>1. step[en] \in {"loaded", "won"}
    BY <1>0, <1>5 DEF CronFails, CronRows, CronTypeOK
  <2> QED
    BY <1>5, <2>1, CountsRest DEF CronFails
<1> QED
  BY <1>0, <1>1, <1>2, <1>3, <1>4, <1>5, CountsPoll, CountsAdvance, CronSteps DEF CronStep

\* At first no due time is spent, and the row has the whole count.
LEMMA CronInitially == Init => CronKept
<1> SUFFICES ASSUME Init PROVE CronKept
  OBVIOUS
<1>0. {Period, Lookahead, MaxTime, MaxGen} \subseteq Nat \ {0}
  BY CronAssumption
<1>1. /\ copy = [en \in Engine |-> NoRow] /\ step = [en \in Engine |-> "idle"]
      /\ cause = [e \in Execs |-> NoCause] /\ missed = {} /\ now = 0
      /\ gens = trigger.gen /\ trust = 1..gens
      /\ batch = [c \in Cleaner |-> {}]
  BY DEF Init, CronInit, ExpInit
<1>2. NextTime(0) \in 0..(MaxTime + Lookahead + Period)
  BY <1>0, NextTimeIsLater
<1>3. /\ trigger \in CronRow /\ trigger.gen \in {0, 1} /\ count \in {1, 2, Unlimited}
      /\ trigger.gen = 1 => trigger.remaining = count
  <2>1. CASE left["cron"] = 0
    BY <1>0, <2>1 DEF Init, CronInit, CronRow, NoRow
  <2>2. CASE left["cron"] # 0
    BY <1>0, <1>2, <2>2 DEF Init, CronInit, CronRow
  <2> QED
    BY <2>1, <2>2
<1>4. NoRow \in CronRow /\ NoCause \in Cause
  BY <1>0 DEF NoRow, CronRow, NoCause, Cause
<1>5. CronTypeOK
  BY <1>0, <1>1, <1>3, <1>4 DEF CronTypeOK, CronRow
<1>6. CronRows
  BY <1>1, <1>3, <1>4, <1>5 DEF CronRows
<1>7. Spent = {} /\ Started = {}
  BY <1>1 DEF Spent, Started
<1>8. IsFiniteSet(Spent) /\ Cardinality(Spent) = 0
  BY <1>7, FS_EmptySet
<1>9. CopiesAreBehind
  BY <1>1, <1>3 DEF CopiesAreBehind, Unlimited
<1>10. SpentOnce /\ OncePerDueTime
  BY <1>1, <1>7, <1>8 DEF SpentOnce, OncePerDueTime
<1>11. CountAddsUp
  BY <1>1, <1>3, <1>8 DEF CountAddsUp, Unlimited
<1> QED
  BY <1>6, <1>9, <1>10, <1>11 DEF CronKept

\* An execution that holds a trust goes on, or ends and releases it.
LEMMA HoldersStay ==
    ASSUME ExpKept, ExecTypeOK', [Next]_vars, NEW e \in Execs,
           state[e] \in {"RUNNING", "PAUSED"}, \A c \in Cleaner : e \notin batch[c]
    PROVE  \/ /\ state'[e] \in {"RUNNING", "PAUSED"}
              /\ \A c \in Cleaner : e \notin batch'[c]
           \/ e \in Ended /\ ReleaseTrusts(Ended)
<1> USE DEF ExpKept
<1>1. \A c \in Cleaner : e \notin batch'[c]
  BY BatchesAreFetched DEF Completed, Terminal
<1>2. ASSUME UNCHANGED state PROVE state'[e] \in {"RUNNING", "PAUSED"}
  BY <1>2
<1>3. ASSUME \/ UNCHANGED execVars
             \/ \E x \in Execs : \/ StartWorkflow(x) \/ PauseWorkflow(x)
                                 \/ RerunWorkflow(x) \/ CancelWorkflow(x)
                                 \/ \E s \in Terminal : TaskEnds(x, s)
             \/ \E es \in SUBSET In("PAUSED") : ResumeWorkflows(es),
             ReleaseTrusts(Ended)
      PROVE  state'[e] \in {"RUNNING", "PAUSED"} \/ e \in Ended
  <2>1. state'[e] \in {"RUNNING", "PAUSED"} \cup Terminal
    BY <1>3 DEF execVars, StartWorkflow, PauseWorkflow, RerunWorkflow, CancelWorkflow,
       TaskEnds, Completes, ResumeWorkflows, ExecTypeOK, Terminal
  <2> QED
    BY <2>1 DEF Ended, Terminal
<1>4. CASE Users \/ (\E j \in Jobs : JobStep(j) \/ JobFault(j)) \/ \E x \in Execs : Ends(x)
  <2>1. ReleaseTrusts(Ended)
    BY <1>4 DEF Users, JobStep, JobFault, Ends, EngineAlone
  <2>2. \/ UNCHANGED execVars
        \/ \E x \in Execs : \/ StartWorkflow(x) \/ PauseWorkflow(x)
                            \/ RerunWorkflow(x) \/ CancelWorkflow(x)
                            \/ \E s \in Terminal : TaskEnds(x, s)
        \/ \E es \in SUBSET In("PAUSED") : ResumeWorkflows(es)
    BY <1>4, UserSteps, JobSteps DEF Ends
  <2> QED
    BY <1>1, <1>3, <2>1, <2>2
<1>5. ASSUME NEW c \in Cleaner, Policy(c) \/ PolicyFault(c)
      PROVE  state'[e] \in {"RUNNING", "PAUSED"}
  <2>1. UNCHANGED execVars \/ \E x \in batch[c] : DeleteWorkflow(x)
    BY <1>5 DEF Policy, PolicyFault, BeginPass, Fetch, FetchNothing, EndBatch, Delete,
       DeleteFails
  <2> QED
    BY <2>1 DEF execVars, DeleteWorkflow, ExecTypeOK
<1>6. CASE \/ Time \/ CronApi \/ \E en \in Engine : Poll(en) \/ Decide(en) \/ Run(en)
           \/ EventApi \/ EventRestart \/ EventCommit \/ EventCall
           \/ \E t \in Trigger : EventLoop(t)
           \/ \E j \in Job : Caller(j) \/ CallIsDue(j)
           \/ \E p \in Proc : CallsLoop(p) \/ CallsFault(p)
  <2>1. UNCHANGED execVars \/ \E x \in Execs : StartWorkflow(x)
    BY <1>6, StarterSteps
  <2>2. state'[e] = state[e]
    BY <2>1 DEF execVars, StartWorkflow, Fresh, ExecTypeOK
  <2> QED
    BY <1>1, <2>2
<1>7. CASE UNCHANGED vars
  BY <1>1, <1>2, <1>7 DEF vars, execVars
<1> QED
  BY <1>1, <1>4, <1>5, <1>6, <1>7 DEF Next, ExecutionsStep

\* Whoever takes the next step, the trust of a trigger that is gone is held by
\* somebody who will release it.
LEMMA TrustNext ==
    ASSUME TrustIsHeld, CronRows, CronRows', ExpKept, ExecTypeOK', [Next]_vars
    PROVE  TrustIsHeld'
<1> DEFINE Winner(en, g) == step[en] = "won" /\ copy[en].gen = g
           Holder(e, g)  == /\ cause[e].gen = g /\ state[e] \in {"RUNNING", "PAUSED"}
                            /\ \A c \in Cleaner : e \notin batch[c]
<1> SUFFICES ASSUME gens' <= 1, missed' = {}, NEW g \in trust' \ {trigger'.gen}
             PROVE  \/ \E en \in Engine : Winner(en, g)'
                    \/ \E e \in Execs : Holder(e, g)'
  BY DEF TrustIsHeld
<1>0. /\ copy \in [Engine -> CronRow] /\ step \in [Engine -> {"idle", "loaded", "won"}]
      /\ gens \in Nat /\ trust \subseteq 1..gens /\ trigger.gen \in {0, gens}
      /\ cause \in [Execs -> Cause]
  BY DEF CronRows, CronTypeOK
<1>1. ASSUME gens <= 1, missed = {}, g \in trust, g # trigger.gen
      PROVE  (\E en \in Engine : Winner(en, g)) \/ \E e \in Execs : Holder(e, g)
  BY <1>1 DEF TrustIsHeld
<1>2. ASSUME NEW e \in Execs, Holder(e, g), cause'[e] = cause[e],
             ReleaseTrusts(Ended) => g # trigger.gen /\ g \in trust
      PROVE  Holder(e, g)'
  <2>1. ~(e \in Ended /\ ReleaseTrusts(Ended))
    BY <1>2 DEF ReleaseTrusts, TrustAfter
  <2> QED
    BY <1>2, <2>1, HoldersStay
<1> HIDE DEF Winner, Holder
<1>3. CASE CronAside /\ (UNCHANGED trust \/ ReleaseTrusts(Ended))
  <2>1. /\ gens <= 1 /\ missed = {} /\ g \in trust /\ g # trigger.gen
        /\ UNCHANGED <<cause, step, copy>>
    BY <1>3 DEF CronAside, ReleaseTrusts, TrustAfter
  <2>2. \A en \in Engine : Winner(en, g)' <=> Winner(en, g)
    BY <2>1 DEF Winner
  <2> QED
    BY <1>1, <1>2, <2>1, <2>2
<1>4. ~ReleaseTrusts(Ended) \/ ~CronStep \/ (g \in trust /\ g # trigger.gen)
  <2>1. ReleaseTrusts(Ended) => trust' \subseteq trust /\ trigger' = trigger
    BY DEF ReleaseTrusts, TrustAfter
  <2> QED
    BY <2>1
<1>5. ASSUME CronStep, missed' = missed, gens' = gens, trust' = trust, g # trigger.gen,
             \A en \in Engine : Winner(en, g) =>
                \/ Winner(en, g)'
                \/ \E e \in Execs : Holder(e, g)',
             \A e \in Execs : Holder(e, g) => cause'[e] = cause[e]
      PROVE  \/ \E en \in Engine : Winner(en, g)'
             \/ \E e \in Execs : Holder(e, g)'
  BY <1>1, <1>2, <1>4, <1>5
<1>6. CASE Tick
  BY <1>5, <1>6 DEF Tick, Winner, CronStep
<1>7. CASE DeleteCronTrigger
  BY <1>0, <1>7 DEF DeleteCronTrigger
<1>8. ASSUME NEW n \in {1, Unlimited}, CreateCronTrigger(n) PROVE FALSE
  BY <1>0, <1>8 DEF CreateCronTrigger
<1>9. ASSUME NEW en \in Engine, GetNextCronTriggers(en)
      PROVE  (\E em \in Engine : Winner(em, g)') \/ \E e \in Execs : Holder(e, g)'
  <2>1. \A em \in Engine : Winner(em, g) => Winner(em, g)'
    BY <1>0, <1>9 DEF GetNextCronTriggers, Winner
  <2> QED
    BY <1>5, <1>9, <2>1 DEF GetNextCronTriggers, CronStep
<1>10. ASSUME NEW en \in Engine, AdvanceCronTrigger(en)
       PROVE  (\E em \in Engine : Winner(em, g)') \/ \E e \in Execs : Holder(e, g)'
  <2>1. /\ step[en] = "loaded" /\ UNCHANGED <<now, gens, count, cause, missed, trust>>
        /\ \/ /\ step' = [step EXCEPT ![en] = "idle"]
              /\ copy' = [copy EXCEPT ![en] = NoRow]
              /\ trigger'.gen = trigger.gen
           \/ /\ trigger.gen # 0 /\ copy' = copy /\ step' = [step EXCEPT ![en] = "won"]
    BY <1>10, AdvanceEffect DEF NoRow
  <2>2. \A em \in Engine : Winner(em, g) => Winner(em, g)'
    BY <1>0, <2>1 DEF Winner
  <2>3. CASE g # trigger.gen
    BY <1>5, <1>10, <2>1, <2>2, <2>3 DEF CronStep
  <2>4. CASE g = trigger.gen
    <3>1. copy' = copy /\ step' = [step EXCEPT ![en] = "won"]
      BY <2>1, <2>4
    <3>2. g = 1 /\ copy[en].gen \in 1..gens /\ gens <= 1
      BY <1>0, <2>1 DEF CronRows
    <3>3. copy[en].gen = g
      BY <1>0, <3>2
    <3> QED
      BY <1>0, <3>1, <3>3 DEF Winner
  <2> QED
    BY <2>3, <2>4
<1>11. ASSUME NEW en \in Engine, NEW e \in Execs, StartByCron(en, e)
       PROVE  (\E em \in Engine : Winner(em, g)') \/ \E x \in Execs : Holder(x, g)'
  <2>1. /\ state[e] = "NONE" /\ state'[e] = "RUNNING"
        /\ cause' = [cause EXCEPT ![e] = CauseOf(en)]
        /\ UNCHANGED <<trigger, gens, missed, trust>> /\ step[en] = "won"
        /\ step' = [step EXCEPT ![en] = "idle"] /\ copy' = [copy EXCEPT ![en] = NoRow]
    BY <1>11 DEF StartByCron, StartWorkflow, Fresh, Rest, ExpKept, ExecTypeOK
  <2>2. Winner(en, g) => Holder(e, g)'
    <3>1. \A c \in Cleaner : e \notin batch'[c]
      BY <2>1, BatchesAreFetched DEF CronRows, Completed, Terminal
    <3>2. cause'[e].gen = copy[en].gen
      BY <1>0, <2>1 DEF CauseOf
    <3> QED
      BY <2>1, <3>1, <3>2 DEF Winner, Holder
  <2>3. \A em \in Engine : Winner(em, g) => Winner(em, g)' \/ em = en
    BY <1>0, <2>1 DEF Winner
  <2>4. \A x \in Execs : Holder(x, g) => cause'[x] = cause[x]
    BY <1>0, <2>1 DEF Holder
  <2> QED
    BY <1>5, <1>11, <2>1, <2>2, <2>3, <2>4 DEF CronStep
<1>12. ASSUME NEW en \in Engine, CronFails(en)
       PROVE  (\E em \in Engine : Winner(em, g)') \/ \E e \in Execs : Holder(e, g)'
  <2>1. step[en] = "loaded" /\ missed' = missed
    BY <1>0, <1>12 DEF CronFails
  <2>2. \A em \in Engine : Winner(em, g) => Winner(em, g)'
    BY <1>0, <1>12, <2>1 DEF CronFails, Rest, Winner
  <2> QED
    BY <1>5, <1>12, <2>1, <2>2 DEF CronFails, CronStep
<1> QED
  BY <1>3, <1>6, <1>7, <1>8, <1>9, <1>10, <1>11, <1>12, CronSteps DEF CronStep

\* At first there is a trust when there is a trigger.
LEMMA TrustInitially == Init => TrustIsHeld
<1> SUFFICES ASSUME Init PROVE TrustIsHeld
  OBVIOUS
<1>1. trust = 1..gens /\ gens = trigger.gen /\ trigger.gen \in {0, 1}
  BY CronInitially DEF Init, CronInit, NoRow
<1>2. trust \ {trigger.gen} = {}
  BY <1>1
<1> QED
  BY <1>2 DEF TrustIsHeld

-----------------------------------------------------------------------------
(* All of them together.                                                    *)

ServicesKept == MaintKept /\ ExpKept /\ CronKept /\ TrustIsHeld /\ EventKept /\ LegacyKept

\* What a trigger is created for is what is started, won, missed and left, each due
\* time once; a trust is released; the event engine follows the table; a delayed call
\* is made once: in every interleaving of the services, for any number of engines.
THEOREM ServicesSafety == Spec => []ServicesInv
<1>1. Init => ServicesKept
  BY MaintInitially, ExpInitially, CronInitially, TrustInitially, EventInitially,
     LegacyInitially DEF ServicesKept
<1>2. ASSUME ServicesKept, [Next]_vars PROVE ServicesKept'
  <2>1. MaintKept' /\ ExecTypeOK' /\ MaintTypeOK'
    BY <1>2, MaintNext DEF ServicesKept, MaintKept
  <2>2. ExpKept'
    BY <1>2, <2>1, ExpNext DEF ServicesKept
  <2>3. CronKept'
    BY <1>2, <2>1, CronNext DEF ServicesKept
  <2>4. TrustIsHeld'
    BY <1>2, <2>1, <2>3, TrustNext DEF ServicesKept, CronKept
  <2> QED
    BY <1>2, <2>1, <2>2, <2>3, <2>4, EventNext, LegacyNext DEF ServicesKept
<1>3. ServicesKept => ServicesInv
  <2>1. TrustIsHeld => TrustReleased
    BY DEF TrustIsHeld, TrustReleased
  <2> QED
    BY <2>1, EventsFollow DEF ServicesKept, ServicesInv, ServicesTypeOK, MaintKept, ExpKept,
       CronKept, CronRows, EventKept, LegacyKept
<1> QED
  BY <1>1, <1>2, <1>3, PTL DEF Spec

=============================================================================
