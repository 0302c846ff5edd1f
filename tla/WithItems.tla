------------------------------- MODULE WithItems -------------------------------
(***************************************************************************)
(* One with-items task: an action execution for each item, at most         *)
(* "concurrency" of them at a time, the retry of the whole task and the    *)
(* operator's rerun of a failed task.                                      *)
(*                                                                         *)
(* A result only changes the action execution and schedules a job; the job *)
(* decides, in one transaction under the lock of the task and on a         *)
(* refreshed row, whether the task is complete and which items come next.  *)
(* The decision counts executions; the capacity in the runtime context     *)
(* counts the jobs that were handled.  Every handler is one action here,   *)
(* the lock makes it one.                                                  *)
(***************************************************************************)
EXTENDS Integers, Sequences, FiniteSets

CONSTANTS Modes,      (* what kinds of tasks to consider                     *)
          MaxCount,   (* bound: items                                        *)
          MaxRetry,   (* bound: retries                                      *)
          MaxRerun,   (* bound: reruns by the operator                       *)
          MaxAgain    (* bound: jobs executed once more                      *)

\* concurrency 0: no such property, there is no capacity to count.
Mode == [count : 0..MaxCount, concurrency : 0..MaxCount, retry : 0..MaxRetry,
         badItem : BOOLEAN, timeout : BOOLEAN, again : BOOLEAN,
         rerun : {"none", "reset", "keep"}]

ASSUME ItemsAssumption ==
    /\ {MaxCount, MaxRetry, MaxRerun, MaxAgain} \subseteq Nat
    /\ Modes \subseteq Mode

\* A second iteration, by retry or rerun, works without concurrency, one item
\* at a time, or all at once; otherwise the indexes that run already are taken
\* again.  A job that is executed twice frees capacity twice.  What a timeout
\* or a bad item leaves running is not seen by a second iteration.
Supported ==
    {m \in Mode :
        /\ m.rerun # "keep"
        /\ m.retry > 0 \/ m.rerun # "none" =>
             /\ m.concurrency \in {0, 1} \/ m.concurrency >= m.count
             /\ ~m.timeout /\ ~m.badItem
        /\ m.again => m.concurrency = 0
        /\ m.retry > 0 => m.rerun = "none"
        /\ ~(m.timeout /\ m.badItem)}

Completed == {"SUCCESS", "ERROR", "CANCELLED"}
Item == 0..(MaxCount - 1)

VARIABLES
    mode,       \* Mode: of this behaviour
    task,       \* {"IDLE", "RUNNING", "DELAYED"} \cup Completed
    execs,      \* Seq of [index, state, accepted]: the action executions
    capacity,   \* Nat: runtime_context.with_items.capacity
    jobs,       \* SUBSET Nat: _scheduled_on_action_complete, by execution
    continues,  \* Nat: _continue_task jobs of the retry policy
    timer,      \* BOOLEAN: a _fail_task_if_incomplete job
    restart,    \* BOOLEAN: a start_task message of a rerun
    retryNo,    \* Nat: retry_no of the retry policy
    reruns,     \* Nat: history
    agains,     \* Nat: history
    broken      \* BOOLEAN: history, a timeout or a bad item failed the task

itemsVars == <<mode, task, execs, capacity, jobs, continues, timer, restart,
             retryNo, reruns, agains, broken>>
others == <<mode, jobs, reruns, agains>>

Exec == [index : Item, state : {"RUNNING"} \cup Completed, accepted : BOOLEAN]

ItemsTypeOK ==
    /\ mode \in Mode
    /\ task \in {"IDLE", "RUNNING", "DELAYED"} \cup Completed
    /\ execs \in Seq(Exec)
    /\ capacity \in 0..mode.concurrency
    /\ jobs \subseteq DOMAIN execs
    /\ continues \in Nat /\ timer \in BOOLEAN
    /\ restart \in BOOLEAN /\ broken \in BOOLEAN
    /\ retryNo \in 0..MaxRetry
    /\ reruns \in 0..MaxRerun /\ agains \in 0..MaxAgain

ItemsInit ==
    /\ mode \in Modes
    /\ task = "IDLE" /\ execs = <<>> /\ capacity = mode.concurrency
    /\ jobs = {} /\ continues = 0 /\ timer = FALSE /\ restart = FALSE
    /\ retryNo = 0 /\ reruns = 0 /\ agains = 0 /\ broken = FALSE

-----------------------------------------------------------------------------
(* What the task computes from its executions es.                          *)

Select(es, P(_)) == {k \in DOMAIN es : P(es[k])}
IndexesOf(es, K) == {es[k].index : k \in K}
Accepted(es)     == Select(es, LAMBDA e : e.accepted)
Ends(es, state)  == \E k \in Accepted(es) : es[k].state = state

\* Completed executions that are accepted, or not.
AcceptedIndexes(es)   == IndexesOf(es, Select(es,
                            LAMBDA e : e.accepted /\ e.state \in Completed))
UnacceptedIndexes(es) == IndexesOf(es, Select(es,
                            LAMBDA e : ~e.accepted /\ e.state \in Completed))

NextStartIndex(es) ==
    Cardinality(Select(es, LAMBDA e : e.accepted \/ e.state = "RUNNING"))

From(i) == {j \in Item : i <= j /\ j < mode.count}

\* All indexes that are to be run: those that ran without an accepted result
\* and all that follow, or the next that never ran.
IndexesFromAccepted(es) ==                    \* mutant: running ones forgotten
    From(Cardinality(Accepted(es)))
IndexesToRun(es) ==
    LET candidates == UnacceptedIndexes(es) \ AcceptedIndexes(es)
    IN  IF candidates = {} THEN From(NextStartIndex(es))
        ELSE candidates \cup
             {j \in From(0) : \A i \in candidates : i < j}

\* The first n elements of a set of indexes, in order.
Lowest(I, n) == {i \in I : Cardinality({j \in I : j < i}) < n}

NextIndexes(es, cap) ==
    IF mode.concurrency = 0 THEN IndexesToRun(es)
                            ELSE Lowest(IndexesToRun(es), cap)

HasMoreIterations(es) == mode.count > NextStartIndex(es)

\* A completed action may still have its job pending: full capacity shows
\* that the jobs of all actions were handled.
IsCompletedByAny(es, cap) ==                  \* mutant: any error ends the task
    \/ Ends(es, "CANCELLED") \/ Ends(es, "ERROR")
    \/ /\ Cardinality(Accepted(es)) = IF mode.count = 0 THEN 1 ELSE mode.count
       /\ mode.concurrency = 0 \/ cap = mode.concurrency
IsCompleted(es, cap) ==
    \/ Ends(es, "CANCELLED")
    \/ /\ Cardinality(Accepted(es)) = IF mode.count = 0 THEN 1 ELSE mode.count
       /\ mode.concurrency = 0 \/ cap = mode.concurrency

FinalState(es) == IF Ends(es, "CANCELLED") THEN "CANCELLED"
                  ELSE IF Ends(es, "ERROR") THEN "ERROR" ELSE "SUCCESS"

InvalidKept(es) == es                         \* mutant: no invalidate_result
Invalid(es) == [k \in DOMAIN es |-> [es[k] EXCEPT !.accepted = FALSE]]

Increases(cap) == IF cap < mode.concurrency THEN cap + 1 ELSE cap

Decreases(cap, n) == IF mode.concurrency = 0 THEN cap ELSE cap - n

\* es with an execution for every index of I, in order.
Started(es, I) ==
    LET at(n) == CHOOSE i \in I : Cardinality({j \in I : j < i}) = n - Len(es) - 1
    IN  [n \in 1..(Len(es) + Cardinality(I)) |->
            IF n <= Len(es) THEN es[n]
            ELSE [index |-> at(n), state |-> "RUNNING", accepted |-> FALSE]]

-----------------------------------------------------------------------------
(* The steps the handlers are made of.                                      *)

\* Task.complete(s) with the retry policy, n jobs of which are left.
Complete(s, es, cap, n) ==
    /\ capacity' = cap
    /\ \/ /\ s = "ERROR" /\ retryNo < mode.retry
          /\ task' = "DELAYED" /\ continues' = n + 1
          /\ retryNo' = retryNo + 1
          /\ execs' = Invalid(es)
       \/ /\ ~(s = "ERROR" /\ retryNo < mode.retry)
          /\ task' = s /\ continues' = n
          /\ retryNo' = IF s = "CANCELLED" THEN retryNo ELSE 0
          /\ execs' = es

\* The actions of the next indexes, each of which takes one of the capacity.
\* An item with a bad input fails the task after the items before it started.
ScheduleActions(es, cap, n) ==
    LET next == NextIndexes(es, cap)
    IN  \/ /\ next = {}
           /\ Complete("SUCCESS", es, cap, n)
           /\ UNCHANGED broken
        \/ /\ next # {}
           /\ task' = "RUNNING" /\ continues' = n
           /\ execs' = Started(es, next)
           /\ capacity' = Decreases(cap, Cardinality(next))
           /\ UNCHANGED <<retryNo, broken>>
        \/ /\ mode.badItem
           /\ \E bad \in next :
                LET before == {i \in next : i < bad}
                IN  Complete("ERROR", Started(es, before),
                             Decreases(cap, Cardinality(before)), n)
           /\ broken' = TRUE

-----------------------------------------------------------------------------
(* The handlers.                                                            *)

\* start_task: the task starts for the first time.
Run ==
    /\ task = "IDLE"
    /\ timer' = mode.timeout
    /\ ScheduleActions(execs, mode.concurrency, continues)
    /\ UNCHANGED <<others, restart>>

\* A result is stored and accepted; the rest is left to a job.
Result(k, s) ==
    /\ k \in DOMAIN execs /\ execs[k].state = "RUNNING"
    /\ execs' = [execs EXCEPT ![k].state = s, ![k].accepted = TRUE]
    /\ jobs' = jobs \cup {k}
    /\ UNCHANGED <<mode, task, capacity, continues, timer, restart, retryNo,
                   reruns, agains, broken>>

\* WithItemsTask.on_action_complete().
HandleCompletion(cap) ==
    \/ /\ task \in Completed
       /\ UNCHANGED <<task, execs, capacity, continues, retryNo, broken>>
    \/ /\ task \notin Completed /\ IsCompleted(execs, cap)
       /\ Complete(FinalState(execs), execs, cap, continues)
       /\ UNCHANGED broken
    \/ /\ task \notin Completed /\ ~IsCompleted(execs, cap)
       /\ HasMoreIterations(execs) /\ mode.concurrency > 0
       /\ ScheduleActions(execs, cap, continues)
    \/ /\ task \notin Completed /\ ~IsCompleted(execs, cap)
       /\ ~HasMoreIterations(execs) \/ mode.concurrency = 0
       /\ capacity' = cap
       /\ UNCHANGED <<task, execs, continues, retryNo, broken>>

\* The job; the scheduler may execute it once more.
OnActionComplete(k) ==
    /\ k \in jobs
    /\ \/ jobs' = jobs \ {k} /\ UNCHANGED agains
       \/ /\ mode.again /\ agains < MaxAgain
          /\ agains' = agains + 1 /\ UNCHANGED jobs
    /\ HandleCompletion(Increases(capacity))
    /\ UNCHANGED <<mode, timer, restart, reruns>>

\* Failed and cancelled results are not accepted any more, or none is.
ResetActions(es, all) ==
    [k \in DOMAIN es |-> [es[k] EXCEPT !.accepted =
        @ /\ ~all /\ es[k].state \notin {"ERROR", "CANCELLED"}]]

\* The job of the retry policy; it does not look at the state of the task.
ContinueTask ==
    /\ continues > 0
    /\ ScheduleActions(ResetActions(execs, FALSE), capacity, continues - 1)
    /\ UNCHANGED <<others, timer, restart>>

\* The timeout policy's job, _fail_task_if_incomplete().
Timeout ==
    /\ timer /\ timer' = FALSE
    /\ \/ task \in Completed /\ UNCHANGED <<task, execs, capacity, continues,
                                            retryNo, broken>>
       \/ /\ task \notin Completed
          /\ Complete("ERROR", execs, capacity, continues)
          /\ broken' = TRUE
    /\ UNCHANGED <<others, restart>>

\* PUT /tasks/<id>: the runtime context is cleared and the task is sent to
\* itself as a start_task message.
Rerun ==
    /\ mode.rerun # "none" /\ reruns < MaxRerun
    /\ task = "ERROR" /\ ~restart
    /\ restart' = TRUE /\ reruns' = reruns + 1
    /\ capacity' = mode.concurrency /\ retryNo' = 0
    /\ UNCHANGED <<mode, task, execs, jobs, continues, timer, agains, broken>>

RunExisting ==
    /\ restart
    /\ restart' = FALSE
    /\ timer' = mode.timeout
    /\ ScheduleActions(ResetActions(execs, mode.rerun = "reset"), capacity,
                       continues)
    /\ UNCHANGED others

ItemsNext ==
    \/ Run \/ ContinueTask \/ Timeout \/ Rerun \/ RunExisting
    \/ \E k \in DOMAIN execs : OnActionComplete(k)
    \/ \E k \in DOMAIN execs, s \in Completed : Result(k, s)

ItemsSpec == ItemsInit /\ [][ItemsNext]_itemsVars

\* Messages and jobs are handled in the end, and every action returns.
ItemsFairSpec ==
    /\ ItemsSpec
    /\ WF_itemsVars(Run \/ ContinueTask \/ RunExisting)
    /\ \A k \in 1..(MaxCount * (MaxRetry + MaxRerun + 1)) :
         /\ WF_itemsVars(OnActionComplete(k))
         /\ WF_itemsVars(\E s \in Completed : Result(k, s))

-----------------------------------------------------------------------------
(* Properties.                                                              *)

Running == Select(execs, LAMBDA e : e.state = "RUNNING")

\* A task is successful only if each of its items has one accepted result and
\* this is a success; it has failed or was cancelled because of an item, unless
\* a timeout or a bad input ended it.  An error lets the other items run.
VerdictCoversItems ==
    LET ran == {execs[k].index : k \in Accepted(execs)}
    IN  /\ task = "SUCCESS" =>
             /\ ran = From(0) /\ Cardinality(Accepted(execs)) = mode.count
             /\ \A k \in Accepted(execs) : execs[k].state = "SUCCESS"
        /\ task = "ERROR" /\ ~broken /\ ~restart =>
             /\ ran = From(0) /\ Ends(execs, "ERROR")
             /\ retryNo = 0
        /\ task = "CANCELLED" => Ends(execs, "CANCELLED")

\* No item is running twice, and none whose result is accepted runs again.
NoItemTwice ==
    \A k \in Running, l \in DOMAIN execs :
        k # l /\ execs[k].index = execs[l].index =>
            execs[l].state # "RUNNING" /\ ~execs[l].accepted

\* "a max number of actions running simultaneously", in spite of retries and of
\* results that arrive in any order; the capacity is what is left of it when
\* the results that wait for their jobs are counted as running.
CapacityIsFree ==
    mode.concurrency > 0 =>
        /\ Cardinality(Running) <= mode.concurrency
        /\ task = "RUNNING" =>
             capacity + Cardinality(Running) + Cardinality(jobs)
                = mode.concurrency

ItemsInv == ItemsTypeOK /\ NoItemTwice /\ CapacityIsFree

\* The task ends, whatever the order of the results and of their jobs.
ItemsEnd == <>[](task \in Completed)

=============================================================================
