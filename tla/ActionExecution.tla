---------------------------- MODULE ActionExecution ----------------------------
(***************************************************************************)
(* How an action gets a result although its executor, the engine or a      *)
(* message may be lost.  The engine stores an action execution and, after  *)
(* the commit, sends run_action to an executor.  The executor reports that *)
(* it works on the action by heartbeats, runs it in a thread, and sends    *)
(* the result.  A checker in the engine fails the RUNNING synchronous      *)
(* actions whose last heartbeat is too old.  Delivery is at most once.     *)
(*                                                                         *)
(* The timestamp last_heartbeat is abstracted to what the checker sees:    *)
(* "first" (set at creation, first_heartbeat_timeout in the future),       *)
(* "fresh", or "expired" (max_missed_heartbeats intervals old).            *)
(***************************************************************************)
EXTENDS Integers, Sequences, FiniteSets

CONSTANTS Action,      (* the action executions                              *)
          Sync,        (* those whose action is synchronous                  *)
          Owned,       (* those that belong to a task, not started by hand   *)
          Together,    (* the sets of actions that occur in one behaviour    *)
          Executor, NoExecutor,
          MaxFault,    (* bound: crashes, stops and lost messages            *)
          MaxLate,     (* bound: heartbeats that are late although the       *)
                       (* executor or the message is alive                   *)
          MaxReport    (* bound: results reported through the API            *)

ASSUME ActionAssumption ==
    /\ Sync \subseteq Action /\ Owned \subseteq Action
    /\ Together \subseteq SUBSET Action
    /\ NoExecutor \notin Executor
    /\ MaxFault \in Nat /\ MaxLate \in Nat /\ MaxReport \in Nat

Completed   == {"SUCCESS", "ERROR", "CANCELLED"}
ActionState == {"none", "RUNNING", "deleted"} \cup Completed

VARIABLES
    state,     \* [Action -> ActionState]: the row of the action execution
    task,      \* [Action -> ActionState]: the state of its task
    beat,      \* [Action -> {"first", "fresh", "expired"}]: last_heartbeat
    msgs,      \* SUBSET Msg: post-transaction operations and RPC messages
    txs,       \* SUBSET Tx: transactions that loaded RUNNING actions
    up,        \* [Executor -> {"up", "stopping", "down"}]
    thread,    \* [Action -> {"none", "running", "sent"}]
    place,     \* [Action -> Executor \cup {NoExecutor}]: who took it
    tracked,   \* SUBSET Action: _running_actions of their executor
    accepted,  \* [Action -> Seq(Completed)]: history, the results written
    call,      \* [Action -> {"none", "asked", "over"}]: it runs within the request
               \* that starts it
    late,      \* SUBSET Action: history, their heartbeat was late
    gone,      \* SUBSET Action: history, their row was deleted
    occur,     \* Together: the actions of this behaviour
    faults, reports

engineVars   == <<state, task, accepted>>
executorVars == <<up, thread, place, tracked>>
handVars     == <<call, gone, occur>>
histVars     == <<handVars, late, faults, reports>>
vars == <<engineVars, beat, msgs, txs, executorVars, histVars>>

Msg == [op : {"post", "run"}, action : Action, res : {"none"}]
       \cup [op : {"done"}, action : Action, res : Completed]
Tx  == [batch : SUBSET Action, res : Completed, checker : BOOLEAN]

ActionTypeOK ==
    /\ state \in [Action -> ActionState] /\ task \in [Action -> ActionState]
    /\ beat \in [Action -> {"first", "fresh", "expired"}]
    /\ msgs \subseteq Msg /\ txs \subseteq Tx
    /\ up \in [Executor -> {"up", "stopping", "down"}]
    /\ thread \in [Action -> {"none", "running", "sent"}]
    /\ place \in [Action -> Executor \cup {NoExecutor}]
    /\ tracked \subseteq Action
    /\ accepted \in [Action -> Seq(Completed)]
    /\ call \in [Action -> {"none", "asked", "over"}]
    /\ late \subseteq Action /\ gone \subseteq Action /\ occur \in Together
    /\ faults \in Nat /\ reports \in Nat

Init ==
    /\ state = [a \in Action |-> "none"] /\ task = [a \in Action |-> "none"]
    /\ beat = [a \in Action |-> "first"]
    /\ msgs = {} /\ txs = {}
    /\ up = [e \in Executor |-> "up"]
    /\ thread = [a \in Action |-> "none"]
    /\ place = [a \in Action |-> NoExecutor]
    /\ tracked = {}
    /\ accepted = [a \in Action |-> <<>>]
    /\ call = [a \in Action |-> "none"] /\ gone = {} /\ occur \in Together
    /\ late = {} /\ faults = 0 /\ reports = 0

Post(a)      == [op |-> "post", action |-> a, res |-> "none"]
Run(a)       == [op |-> "run", action |-> a, res |-> "none"]
Done(a, res) == [op |-> "done", action |-> a, res |-> res]

-----------------------------------------------------------------------------
(* The engine creates and sends.                                            *)

\* RegularAction.schedule(), by a task or by start_action(): the row and the
\* registration of _run_action in the post-transaction queue.
Schedule(a) ==
    /\ a \in occur /\ state[a] = "none" /\ call[a] = "none"
    /\ state' = [state EXCEPT ![a] = "RUNNING"]
    /\ task' = IF a \in Owned THEN [task EXCEPT ![a] = "RUNNING"] ELSE task
    /\ msgs' = msgs \cup {Post(a)}
    /\ UNCHANGED <<accepted, beat, txs, executorVars, histVars>>

\* _run_action(), after the commit.
SendRun(a) ==
    /\ Post(a) \in msgs
    /\ msgs' = (msgs \ {Post(a)}) \cup {Run(a)}
    /\ UNCHANGED <<engineVars, beat, txs, executorVars, histVars>>

\* The engine dies before the operation, or a message is lost or refused.
Lose(m) ==
    /\ faults < MaxFault
    /\ faults' = faults + 1
    /\ msgs' = msgs \ {m}
    /\ UNCHANGED <<engineVars, beat, txs, executorVars, handVars, late, reports>>

-----------------------------------------------------------------------------
(* POST and DELETE /v2/action_executions.                                   *)

\* start_action() of a synchronous action whose result is not to be saved, or with
\* run_sync: the engine asks an executor and waits, within its transaction.  There
\* is no row yet, and the executor sends no heartbeats for it.
CallExecutor(a) ==
    /\ a \in (occur \cap Sync) \ Owned /\ state[a] = "none" /\ call[a] = "none"
    /\ call' = [call EXCEPT ![a] = "asked"]
    /\ UNCHANGED <<engineVars, beat, msgs, txs, executorVars, gone, occur, late,
                   faults, reports>>

\* create_action_execution() with the result, if it is to be saved.
AnswerCall(a, res, save) ==
    /\ call[a] = "asked"
    /\ call' = [call EXCEPT ![a] = "over"]
    /\ IF save THEN /\ state' = [state EXCEPT ![a] = res]
                    /\ accepted' = [accepted EXCEPT ![a] = Append(@, res)]
               ELSE UNCHANGED <<state, accepted>>
    /\ UNCHANGED <<task, beat, msgs, txs, executorVars, gone, occur, late, faults,
                   reports>>

\* The executor or the engine is lost and the request fails, or the database fails
\* and start_action() is made again: the action runs a second time.
FailCall(a, again) ==
    /\ call[a] = "asked" /\ faults < MaxFault
    /\ faults' = faults + 1
    /\ call' = [call EXCEPT ![a] = IF again THEN "asked" ELSE "over"]
    /\ UNCHANGED <<engineVars, beat, msgs, txs, executorVars, gone, occur, late,
                   reports>>

\* With allow_action_execution_deletion: a completed action without a task.
DeleteAction(a) ==
    /\ a \notin Owned /\ state[a] \in Completed
    /\ state' = [state EXCEPT ![a] = "deleted"]
    /\ gone' = gone \cup {a}
    /\ UNCHANGED <<task, accepted, beat, msgs, txs, executorVars, call, occur, late,
                   faults, reports>>

-----------------------------------------------------------------------------
(* The executor.                                                            *)

\* run_action(): add_action() reports a first heartbeat, the thread starts.
Take(e, a) ==
    /\ up[e] = "up" /\ Run(a) \in msgs
    /\ msgs' = msgs \ {Run(a)}
    /\ beat' = [beat EXCEPT ![a] = "fresh"]
    /\ tracked' = tracked \cup {a}
    /\ thread' = [thread EXCEPT ![a] = "running"]
    /\ place' = [place EXCEPT ![a] = e]
    /\ UNCHANGED <<engineVars, txs, up, histVars>>

\* The action returns, raises, or returns after its timeout, which makes it
\* an error.  An asynchronous one has its result reported by somebody else.
Return(a, res) ==
    /\ thread[a] = "running"
    /\ thread' = [thread EXCEPT ![a] = "sent"]
    /\ msgs' = IF a \in Sync \/ res = "ERROR" THEN msgs \cup {Done(a, res)}
                                              ELSE msgs
    /\ UNCHANGED <<engineVars, beat, txs, up, place, tracked, histVars>>

\* The "finally" clause of run_action(): remove_action().
RemoveKept(a) ==                                      \* mutant: it stays in the set
    /\ thread[a] = "sent"
    /\ thread' = [thread EXCEPT ![a] = "none"]
    /\ UNCHANGED <<engineVars, beat, msgs, txs, up, place, tracked, histVars>>

Remove(a) ==
    /\ thread[a] = "sent"
    /\ thread' = [thread EXCEPT ![a] = "none"]
    /\ tracked' = tracked \ {a}
    /\ UNCHANGED <<engineVars, beat, msgs, txs, up, place, histVars>>

\* The executor still reports a.
Beating(a) == a \in tracked /\ up[place[a]] = "up"

\* send_action_heartbeats() and process_action_heartbeats() in the engine.
Heartbeat(a) ==
    /\ Beating(a) /\ beat[a] # "fresh"
    /\ beat' = [beat EXCEPT ![a] = "fresh"]
    /\ UNCHANGED <<engineVars, msgs, txs, executorVars, histVars>>

\* stop(): the heartbeat sender stops at once, running threads are awaited.
StopExecutor(e) ==
    /\ up[e] = "up" /\ faults < MaxFault
    /\ faults' = faults + 1
    /\ up' = [up EXCEPT ![e] = "stopping"]
    /\ UNCHANGED <<engineVars, beat, msgs, txs, thread, place, tracked, handVars,
                   late, reports>>

\* The process ends: killed at any time, or a stopped one that is idle.
EndExecutor(e) ==
    LET mine == {a \in Action : place[a] = e}
    IN  /\ \/ up[e] = "up" /\ faults < MaxFault /\ faults' = faults + 1
           \/ /\ up[e] = "stopping" /\ \A a \in mine : thread[a] = "none"
              /\ UNCHANGED faults
        /\ up' = [up EXCEPT ![e] = "down"]
        /\ thread' = [a \in Action |-> IF a \in mine THEN "none" ELSE thread[a]]
        /\ tracked' = tracked \ mine
        /\ UNCHANGED <<engineVars, beat, msgs, txs, place, handVars, late, reports>>

StartExecutor(e) ==
    /\ up[e] = "down"
    /\ up' = [up EXCEPT ![e] = "up"]
    /\ UNCHANGED <<engineVars, beat, msgs, txs, thread, place, tracked, histVars>>

-----------------------------------------------------------------------------
(* Results.                                                                 *)

\* PUT /v2/action_executions/<id> with a final state.
Report(a, res) ==
    /\ state[a] \notin {"none", "deleted"} /\ reports < MaxReport
    /\ reports' = reports + 1
    /\ msgs' = msgs \cup {Done(a, res)}
    /\ UNCHANGED <<engineVars, beat, txs, executorVars, handVars, late, faults>>

\* on_action_complete() loads the action; Action.complete() raises if it has
\* a result.
BeginDone(m) ==
    /\ m.op = "done"
    /\ msgs' = msgs \ {m}
    /\ txs' = IF state[m.action] = "RUNNING"
              THEN txs \cup {[batch |-> {m.action}, res |-> m.res, checker |-> FALSE]}
              ELSE txs
    /\ UNCHANGED <<engineVars, beat, executorVars, histVars>>

\* Time passes since the last heartbeat.  It expires without delay when
\* nobody works on the action any more, and is late otherwise.
Silent(a) == ~Beating(a) /\ Post(a) \notin msgs /\ Run(a) \notin msgs

Expire(a) ==
    /\ state[a] = "RUNNING" /\ beat[a] # "expired"
    /\ beat' = [beat EXCEPT ![a] = "expired"]
    /\ \/ Silent(a) /\ UNCHANGED late
       \/ ~Silent(a) /\ Cardinality(late) < MaxLate /\ late' = late \cup {a}
    /\ UNCHANGED <<engineVars, msgs, txs, executorVars, handVars, faults, reports>>

\* get_running_expired_sync_action_executions(): no limit (the result of
\* query.limit() is dropped).
ExpiredOfAnyKind == {a \in Action : state[a] = "RUNNING" /\ beat[a] = "expired"}
                                                      \* mutant: is_sync ignored
Expired == {a \in Sync : state[a] = "RUNNING" /\ beat[a] = "expired"}

\* handle_expired_actions() loads the batch and skips the actions without a
\* task: get_task_execution(None) finds nothing.
CheckHeartbeats ==
    /\ Expired \cap Owned # {}
    /\ \A x \in txs : ~x.checker
    /\ txs' = txs \cup {[batch |-> Expired \cap Owned, res |-> "ERROR",
                         checker |-> TRUE]}
    /\ UNCHANGED <<engineVars, beat, msgs, executorVars, histVars>>

TaskTakesAlways(a, res) == res                        \* mutant: plain UPDATE

\* Task.complete() on an UPDATE ... WHERE state = <the loaded state>.
TaskTakes(a, res) == IF task[a] = "RUNNING" THEN res ELSE task[a]

\* The rows that the UPDATE of x finds: it raises for a row that was deleted.
RowsAsLoaded(x) == x.batch                            \* mutant: the row is merged
Rows(x) == {a \in x.batch : state[a] # "deleted"}

\* The transaction of a result or of the checker commits: the action rows are
\* written without a condition, the tasks are completed with one.
Write(x) ==
    /\ x \in txs
    /\ txs' = txs \ {x}
    /\ state' = [a \in Action |-> IF a \in Rows(x) THEN x.res ELSE state[a]]
    /\ accepted' = [a \in Action |->
                      IF a \in Rows(x) THEN Append(accepted[a], x.res) ELSE accepted[a]]
    /\ task' = [a \in Action |->
                  IF a \in x.batch \cap Owned THEN TaskTakes(a, x.res) ELSE task[a]]
    /\ UNCHANGED <<beat, msgs, executorVars, histVars>>

-----------------------------------------------------------------------------
ExecutorStep(e) ==
    \/ StopExecutor(e) \/ EndExecutor(e) \/ StartExecutor(e)
    \/ \E a \in Action : Take(e, a)

Next ==
    \/ \E a \in Action :
          \/ Schedule(a) \/ SendRun(a) \/ Remove(a) \/ Heartbeat(a) \/ Expire(a)
          \/ \E res \in Completed : Report(a, res)
          \/ CallExecutor(a) \/ DeleteAction(a)
          \/ \E res \in {"SUCCESS", "ERROR"} :
                Return(a, res) \/ \E save \in BOOLEAN : AnswerCall(a, res, save)
          \/ \E again \in BOOLEAN : FailCall(a, again)
    \/ \E m \in msgs : BeginDone(m) \/ Lose(m)
    \/ CheckHeartbeats
    \/ \E x \in txs : Write(x)
    \/ \E e \in Executor : ExecutorStep(e)

ActionSpec == Init /\ [][Next]_vars

\* Operations and transactions go on, an action returns, heartbeats are sent,
\* time passes, the checker looks, executors are started again.
ActionFairness ==
    /\ \A a \in Action :
         /\ WF_vars(SendRun(a)) /\ WF_vars(Remove(a)) /\ WF_vars(Heartbeat(a))
         /\ WF_vars(\E res \in {"SUCCESS", "ERROR"} : Return(a, res))
         /\ WF_vars(Silent(a) /\ Expire(a))
         /\ WF_vars(\E e \in Executor : Take(e, a))
    /\ \A e \in Executor : WF_vars(up[e] # "up" /\ (EndExecutor(e) \/ StartExecutor(e)))
    /\ WF_vars(CheckHeartbeats)
    /\ WF_vars(\E m \in msgs : BeginDone(m))
    /\ WF_vars(\E x \in txs : Write(x))

ActionFairSpec == ActionSpec /\ ActionFairness

-----------------------------------------------------------------------------
(* Properties.                                                              *)

\* An action that a living executor works on, whose run_action is still
\* queued, or that somebody else works on (asynchronous), is failed only by a
\* result or after a late heartbeat: first_heartbeat_timeout covers the queue,
\* the heartbeats cover the run.  An executor that is being stopped is the
\* exception: it stops its heartbeats before its actions end.
AtWork(a) == \/ thread[a] = "running" /\ up[place[a]] = "up"
             \/ Run(a) \in msgs
             \/ a \notin Sync

LivingNotFailed ==
    [][\A a \in Action :
         state[a] = "RUNNING" /\ state'[a] = "ERROR" /\ AtWork(a)
           => a \in late \/ \E x \in txs \ txs' : ~x.checker]_vars

\* The task follows the first result that was written, whichever of an
\* executor, an operator and the checker wins, although a concurrent result
\* may replace the state of the action (transactions overlap).
TaskTakesFirst ==
    \A a \in Owned : task[a] \in Completed => task[a] = accepted[a][1]

\* An action started by hand that was deleted stays deleted, whatever results are
\* still on their way or in a transaction that loaded it before (DELETE checks the
\* state, on_action_complete loads the row without a lock).
DeletedForGood == \A a \in gone : state[a] = "deleted"

ActionInv == ActionTypeOK /\ TaskTakesFirst /\ DeletedForGood

\* The task of a synchronous action is a Lifecycle: it begins once, ends once
\* and, whatever crash, stop or lost message comes between, it does end.
verdict == [a \in Sync \cap Owned |->
              IF task[a] = "none" THEN "new"
              ELSE IF task[a] = "RUNNING" THEN "active" ELSE task[a]]
Verdict == INSTANCE Lifecycle WITH Execution <- Sync \cap Owned,
                                   Final <- Completed, status <- verdict
TaskLifecycle    == Verdict!Spec
SyncTasksEnd     == Verdict!Ends
=============================================================================
