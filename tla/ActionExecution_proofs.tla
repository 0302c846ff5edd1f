------------------------ MODULE ActionExecution_proofs ------------------------
(***************************************************************************)
(* The safety of ActionExecution for any number of actions and executors,  *)
(* and any number of crashes, lost messages, late heartbeats and results.  *)
(***************************************************************************)
EXTENDS ActionExecution, SequenceTheorems, TLAPS

\* Nobody will work on the action any more, or its executor is being stopped:
\* run_action is neither to be sent nor in a queue.
Lost(a) ==
    /\ Post(a) \notin msgs /\ Run(a) \notin msgs
    /\ thread[a] = "running" => up[place[a]] = "stopping"

\* A thread runs on an executor that lives and that knows of it.
ThreadsAreTracked ==
    \A a \in Action :
        thread[a] = "running" => /\ a \in tracked
                                 /\ place[a] \in Executor
                                 /\ up[place[a]] # "down"

\* What the checker may fail: the heartbeat expired because nobody works on the
\* action, or it was late.
ExpiredIsLost ==
    /\ \A a \in Action :
          beat[a] = "expired" => state[a] # "none" /\ (a \in late \/ Lost(a))
    /\ \A x \in txs : x.checker => \A a \in x.batch : a \in Sync /\ (a \in late \/ Lost(a))

\* A transaction of a result or of the checker has loaded rows that exist.
LoadedIsStored == \A x \in txs : \A a \in x.batch : state[a] # "none"

\* The task of an action against the row and the results that were written.
TaskFollowsRow ==
    \A a \in Owned :
        /\ state[a] # "deleted"
        /\ task[a] = "none" <=> state[a] = "none"
        /\ task[a] \in Completed <=> accepted[a] # <<>>
        /\ task[a] # "deleted"

\* An action within the request that starts it is not of a task, and has no row.
CallsAreByHand ==
    \A a \in Action :
        /\ call[a] # "none" => a \notin Owned
        /\ call[a] = "asked" => state[a] = "none"

\* The inductive invariant.
IInv ==
    /\ ActionInv
    /\ ThreadsAreTracked
    /\ ExpiredIsLost
    /\ LoadedIsStored
    /\ TaskFollowsRow
    /\ CallsAreByHand
-----------------------------------------------------------------------------
\* A result that was written stays in the history.
LEMMA WrittenIsKept ==
    ASSUME ActionTypeOK, NEW a \in Action, NEW r \in Completed
    PROVE  /\ Append(accepted[a], r) \in Seq(Completed)
           /\ Append(accepted[a], r) # <<>>
           /\ accepted[a] # <<>> => Append(accepted[a], r)[1] = accepted[a][1]
  <1>1. accepted[a] \in Seq(Completed)
    BY DEF ActionTypeOK
  <1>2. /\ Append(accepted[a], r) \in Seq(Completed) /\ Append(accepted[a], r) # <<>>
        /\ \A i \in 1..Len(accepted[a]) : Append(accepted[a], r)[i] = accepted[a][i]
    BY <1>1, AppendProperties
  <1>3. accepted[a] # <<>> => 1 \in 1..Len(accepted[a])
    BY <1>1
  <1> QED  BY <1>2, <1>3

\* The type invariant is inductive by itself.
LEMMA TypeInit == Init => ActionTypeOK
  BY ActionAssumption DEF Init, ActionTypeOK, ActionState, Completed

\* No step writes anything that is not of its type.
LEMMA TypeNext == ActionTypeOK /\ [Next]_vars => ActionTypeOK'
  <1> SUFFICES ASSUME ActionTypeOK, [Next]_vars PROVE ActionTypeOK'
    OBVIOUS
  <1> USE ActionAssumption
  <1> USE DEF ActionTypeOK, ActionState, Completed, Msg, Tx, Post, Run, Done,
        engineVars, executorVars, handVars, histVars
  <1>1. ASSUME NEW a \in Action, Schedule(a) PROVE ActionTypeOK'
    BY <1>1 DEF Schedule
  <1>2. ASSUME NEW a \in Action, SendRun(a) PROVE ActionTypeOK'
    BY <1>2 DEF SendRun
  <1>3. ASSUME NEW a \in Action, CallExecutor(a) PROVE ActionTypeOK'
    BY <1>3 DEF CallExecutor
  <1>4. ASSUME NEW a \in Action, NEW res \in {"SUCCESS", "ERROR"},
     NEW save \in BOOLEAN, AnswerCall(a, res, save) PROVE ActionTypeOK'
    <2>1. state' \in [Action -> ActionState] /\ accepted' \in [Action -> Seq(Completed)]
      <3>0. res \in Completed /\ Append(accepted[a], res) \in Seq(Completed)
        OBVIOUS
      <3>1. CASE save
        <4>1. /\ state' = [state EXCEPT ![a] = res]
              /\ accepted' = [accepted EXCEPT ![a] = Append(@, res)]
          BY <1>4, <3>1 DEF AnswerCall
        <4> QED  BY <3>0, <4>1
      <3>2. CASE ~save
        BY <1>4, <3>2 DEF AnswerCall
      <3> QED  BY <3>1, <3>2
    <2> QED  BY <1>4, <2>1 DEF AnswerCall
  <1>5. ASSUME NEW a \in Action, NEW again \in BOOLEAN, FailCall(a,
     again) PROVE ActionTypeOK'
    BY <1>5 DEF FailCall
  <1>6. ASSUME NEW a \in Action, DeleteAction(a) PROVE ActionTypeOK'
    BY <1>6 DEF DeleteAction
  <1>7. ASSUME NEW a \in Action, NEW res \in {"SUCCESS", "ERROR"}, Return(a,
     res) PROVE ActionTypeOK'
    BY <1>7 DEF Return
  <1>8. ASSUME NEW a \in Action, Remove(a) PROVE ActionTypeOK'
    BY <1>8 DEF Remove
  <1>9. ASSUME NEW a \in Action, Heartbeat(a) PROVE ActionTypeOK'
    BY <1>9 DEF Heartbeat
  <1>10. ASSUME NEW a \in Action, NEW res \in Completed, Report(a,
     res) PROVE ActionTypeOK'
    BY <1>10 DEF Report
  <1>11. ASSUME NEW a \in Action, Expire(a) PROVE ActionTypeOK'
    BY <1>11 DEF Expire
  <1>12. ASSUME NEW m \in msgs, BeginDone(m) PROVE ActionTypeOK'
    <2>1. m.action \in Action /\ m.res \in Completed
      BY <1>12 DEF BeginDone
    <2>2. [batch |-> {m.action}, res |-> m.res, checker |-> FALSE] \in Tx
      BY <2>1
    <2>3. txs' \subseteq Tx /\ msgs' \subseteq Msg
      BY <1>12, <2>2 DEF BeginDone
    <2> QED  BY <1>12, <2>3 DEF BeginDone
  <1>13. ASSUME NEW m \in msgs, Lose(m) PROVE ActionTypeOK'
    BY <1>13 DEF Lose
  <1>14. CASE CheckHeartbeats
    <2>1. [batch |-> Expired \cap Owned, res |-> "ERROR", checker |-> TRUE] \in Tx
      BY DEF Expired
    <2>2. txs' \subseteq Tx
      BY <1>14, <2>1 DEF CheckHeartbeats
    <2> QED  BY <1>14, <2>2 DEF CheckHeartbeats
  <1>15. ASSUME NEW x \in txs, Write(x) PROVE ActionTypeOK'
    <2>1. x.res \in Completed /\ txs' \subseteq Tx
      BY <1>15 DEF Write
    <2>2. state' \in [Action -> ActionState]
      BY <1>15, <2>1 DEF Write
    <2>3. accepted' \in [Action -> Seq(Completed)]
      <3>1. \A a \in Action : Append(accepted[a], x.res) \in Seq(Completed)
        BY <2>1
      <3> QED  BY <1>15, <3>1 DEF Write
    <2>4. task' \in [Action -> ActionState]
      BY <1>15, <2>1 DEF Write, TaskTakes
    <2> QED  BY <1>15, <2>1, <2>2, <2>3, <2>4 DEF Write
  <1>16. ASSUME NEW e \in Executor, NEW a \in Action, Take(e, a) PROVE ActionTypeOK'
    BY <1>16 DEF Take
  <1>17. ASSUME NEW e \in Executor, StopExecutor(e) PROVE ActionTypeOK'
    BY <1>17 DEF StopExecutor
  <1>18. ASSUME NEW e \in Executor, EndExecutor(e) PROVE ActionTypeOK'
    BY <1>18 DEF EndExecutor
  <1>19. ASSUME NEW e \in Executor, StartExecutor(e) PROVE ActionTypeOK'
    BY <1>19 DEF StartExecutor
  <1>20. CASE UNCHANGED vars
    BY <1>20 DEF vars
  <1> QED
    BY <1>1, <1>2, <1>3, <1>4, <1>5, <1>6, <1>7, <1>8, <1>9, <1>10, <1>11, <1>12,
       <1>13, <1>14, <1>15, <1>16, <1>17, <1>18, <1>19, <1>20 DEF Next, ExecutorStep

\* A thread is tracked from Take() on, as long as it runs.
LEMMA ThreadsNext ==
    ActionTypeOK /\ ThreadsAreTracked /\ [Next]_vars
        => ThreadsAreTracked'
  <1> SUFFICES ASSUME ActionTypeOK, ThreadsAreTracked, [Next]_vars
               PROVE  ThreadsAreTracked'
    OBVIOUS
  <1> USE DEF ThreadsAreTracked, ActionTypeOK, engineVars, executorVars, handVars,
     histVars
  <1>1. ASSUME NEW a \in Action, Schedule(a) PROVE ThreadsAreTracked'
    BY <1>1 DEF Schedule
  <1>2. ASSUME NEW a \in Action, SendRun(a) PROVE ThreadsAreTracked'
    BY <1>2 DEF SendRun
  <1>3. ASSUME NEW a \in Action, CallExecutor(a) PROVE ThreadsAreTracked'
    BY <1>3 DEF CallExecutor
  <1>4. ASSUME NEW a \in Action, NEW res \in {"SUCCESS", "ERROR"},
     NEW save \in BOOLEAN, AnswerCall(a, res, save) PROVE ThreadsAreTracked'
    BY <1>4 DEF AnswerCall
  <1>5. ASSUME NEW a \in Action, NEW again \in BOOLEAN, FailCall(a,
     again) PROVE ThreadsAreTracked'
    BY <1>5 DEF FailCall
  <1>6. ASSUME NEW a \in Action, DeleteAction(a) PROVE ThreadsAreTracked'
    BY <1>6 DEF DeleteAction
  <1>7. ASSUME NEW a \in Action, NEW res \in {"SUCCESS", "ERROR"}, Return(a,
     res) PROVE ThreadsAreTracked'
    BY <1>7 DEF Return
  <1>8. ASSUME NEW a \in Action, Remove(a) PROVE ThreadsAreTracked'
    BY <1>8 DEF Remove
  <1>9. ASSUME NEW a \in Action, Heartbeat(a) PROVE ThreadsAreTracked'
    BY <1>9 DEF Heartbeat
  <1>10. ASSUME NEW a \in Action, NEW res \in Completed, Report(a,
     res) PROVE ThreadsAreTracked'
    BY <1>10 DEF Report
  <1>11. ASSUME NEW a \in Action, Expire(a) PROVE ThreadsAreTracked'
    BY <1>11 DEF Expire
  <1>12. ASSUME NEW m \in msgs, BeginDone(m) PROVE ThreadsAreTracked'
    BY <1>12 DEF BeginDone
  <1>13. ASSUME NEW m \in msgs, Lose(m) PROVE ThreadsAreTracked'
    BY <1>13 DEF Lose
  <1>14. CASE CheckHeartbeats
    BY <1>14 DEF CheckHeartbeats
  <1>15. ASSUME NEW x \in txs, Write(x) PROVE ThreadsAreTracked'
    BY <1>15 DEF Write
  <1>16. ASSUME NEW e \in Executor, NEW a \in Action, Take(e,
     a) PROVE ThreadsAreTracked'
    BY <1>16 DEF Take
  <1>17. ASSUME NEW e \in Executor, StopExecutor(e) PROVE ThreadsAreTracked'
    BY <1>17 DEF StopExecutor
  <1>18. ASSUME NEW e \in Executor, EndExecutor(e) PROVE ThreadsAreTracked'
    BY <1>18 DEF EndExecutor
  <1>19. ASSUME NEW e \in Executor, StartExecutor(e) PROVE ThreadsAreTracked'
    BY <1>19 DEF StartExecutor
  <1>20. CASE UNCHANGED vars
    BY <1>20 DEF vars
  <1> QED
    BY <1>1, <1>2, <1>3, <1>4, <1>5, <1>6, <1>7, <1>8, <1>9, <1>10, <1>11, <1>12,
       <1>13, <1>14, <1>15, <1>16, <1>17, <1>18, <1>19, <1>20 DEF Next, ExecutorStep

\* A row that a transaction has loaded does not disappear: a deleted one is remembered.
LEMMA LoadedNext == ActionTypeOK /\ LoadedIsStored /\ [Next]_vars => LoadedIsStored'
  <1> SUFFICES ASSUME ActionTypeOK, LoadedIsStored, [Next]_vars
               PROVE  LoadedIsStored'
    OBVIOUS
  <1> USE DEF LoadedIsStored, ActionTypeOK, Tx, Completed, engineVars, executorVars,
     handVars, histVars
  <1>1. ASSUME NEW a \in Action, Schedule(a) PROVE LoadedIsStored'
    BY <1>1 DEF Schedule
  <1>2. ASSUME NEW a \in Action, SendRun(a) PROVE LoadedIsStored'
    BY <1>2 DEF SendRun
  <1>3. ASSUME NEW a \in Action, CallExecutor(a) PROVE LoadedIsStored'
    BY <1>3 DEF CallExecutor
  <1>4. ASSUME NEW a \in Action, NEW res \in {"SUCCESS", "ERROR"},
     NEW save \in BOOLEAN, AnswerCall(a, res, save) PROVE LoadedIsStored'
    BY <1>4 DEF AnswerCall
  <1>5. ASSUME NEW a \in Action, NEW again \in BOOLEAN, FailCall(a,
     again) PROVE LoadedIsStored'
    BY <1>5 DEF FailCall
  <1>6. ASSUME NEW a \in Action, DeleteAction(a) PROVE LoadedIsStored'
    BY <1>6 DEF DeleteAction
  <1>7. ASSUME NEW a \in Action, NEW res \in {"SUCCESS", "ERROR"}, Return(a,
     res) PROVE LoadedIsStored'
    BY <1>7 DEF Return
  <1>8. ASSUME NEW a \in Action, Remove(a) PROVE LoadedIsStored'
    BY <1>8 DEF Remove
  <1>9. ASSUME NEW a \in Action, Heartbeat(a) PROVE LoadedIsStored'
    BY <1>9 DEF Heartbeat
  <1>10. ASSUME NEW a \in Action, NEW res \in Completed, Report(a,
     res) PROVE LoadedIsStored'
    BY <1>10 DEF Report
  <1>11. ASSUME NEW a \in Action, Expire(a) PROVE LoadedIsStored'
    BY <1>11 DEF Expire
  <1>12. ASSUME NEW m \in msgs, BeginDone(m) PROVE LoadedIsStored'
    BY <1>12 DEF BeginDone
  <1>13. ASSUME NEW m \in msgs, Lose(m) PROVE LoadedIsStored'
    BY <1>13 DEF Lose
  <1>14. CASE CheckHeartbeats
    BY <1>14 DEF CheckHeartbeats, Expired
  <1>15. ASSUME NEW x \in txs, Write(x) PROVE LoadedIsStored'
    BY <1>15 DEF Write, Rows
  <1>16. ASSUME NEW e \in Executor, NEW a \in Action, Take(e, a) PROVE LoadedIsStored'
    BY <1>16 DEF Take
  <1>17. ASSUME NEW e \in Executor, StopExecutor(e) PROVE LoadedIsStored'
    BY <1>17 DEF StopExecutor
  <1>18. ASSUME NEW e \in Executor, EndExecutor(e) PROVE LoadedIsStored'
    BY <1>18 DEF EndExecutor
  <1>19. ASSUME NEW e \in Executor, StartExecutor(e) PROVE LoadedIsStored'
    BY <1>19 DEF StartExecutor
  <1>20. CASE UNCHANGED vars
    BY <1>20 DEF vars
  <1> QED
    BY <1>1, <1>2, <1>3, <1>4, <1>5, <1>6, <1>7, <1>8, <1>9, <1>10, <1>11, <1>12,
       <1>13, <1>14, <1>15, <1>16, <1>17, <1>18, <1>19, <1>20 DEF Next, ExecutorStep

\* An action that runs within its request is not scheduled and has no transaction.
LEMMA CallsNext ==
    ActionTypeOK /\ LoadedIsStored /\ CallsAreByHand /\ [Next]_vars
        => CallsAreByHand'
  <1> SUFFICES ASSUME ActionTypeOK, LoadedIsStored, CallsAreByHand, [Next]_vars
               PROVE  CallsAreByHand'
    OBVIOUS
  <1> USE DEF LoadedIsStored, CallsAreByHand, ActionTypeOK, Tx, Completed, engineVars,
     executorVars, handVars, histVars
  <1>1. ASSUME NEW a \in Action, Schedule(a) PROVE CallsAreByHand'
    BY <1>1 DEF Schedule
  <1>2. ASSUME NEW a \in Action, SendRun(a) PROVE CallsAreByHand'
    BY <1>2 DEF SendRun
  <1>3. ASSUME NEW a \in Action, CallExecutor(a) PROVE CallsAreByHand'
    BY <1>3 DEF CallExecutor
  <1>4. ASSUME NEW a \in Action, NEW res \in {"SUCCESS", "ERROR"},
     NEW save \in BOOLEAN, AnswerCall(a, res, save) PROVE CallsAreByHand'
    BY <1>4 DEF AnswerCall
  <1>5. ASSUME NEW a \in Action, NEW again \in BOOLEAN, FailCall(a,
     again) PROVE CallsAreByHand'
    BY <1>5 DEF FailCall
  <1>6. ASSUME NEW a \in Action, DeleteAction(a) PROVE CallsAreByHand'
    BY <1>6 DEF DeleteAction
  <1>7. ASSUME NEW a \in Action, NEW res \in {"SUCCESS", "ERROR"}, Return(a,
     res) PROVE CallsAreByHand'
    BY <1>7 DEF Return
  <1>8. ASSUME NEW a \in Action, Remove(a) PROVE CallsAreByHand'
    BY <1>8 DEF Remove
  <1>9. ASSUME NEW a \in Action, Heartbeat(a) PROVE CallsAreByHand'
    BY <1>9 DEF Heartbeat
  <1>10. ASSUME NEW a \in Action, NEW res \in Completed, Report(a,
     res) PROVE CallsAreByHand'
    BY <1>10 DEF Report
  <1>11. ASSUME NEW a \in Action, Expire(a) PROVE CallsAreByHand'
    BY <1>11 DEF Expire
  <1>12. ASSUME NEW m \in msgs, BeginDone(m) PROVE CallsAreByHand'
    BY <1>12 DEF BeginDone
  <1>13. ASSUME NEW m \in msgs, Lose(m) PROVE CallsAreByHand'
    BY <1>13 DEF Lose
  <1>14. CASE CheckHeartbeats
    BY <1>14 DEF CheckHeartbeats
  <1>15. ASSUME NEW x \in txs, Write(x) PROVE CallsAreByHand'
    BY <1>15 DEF Write, Rows
  <1>16. ASSUME NEW e \in Executor, NEW a \in Action, Take(e, a) PROVE CallsAreByHand'
    BY <1>16 DEF Take
  <1>17. ASSUME NEW e \in Executor, StopExecutor(e) PROVE CallsAreByHand'
    BY <1>17 DEF StopExecutor
  <1>18. ASSUME NEW e \in Executor, EndExecutor(e) PROVE CallsAreByHand'
    BY <1>18 DEF EndExecutor
  <1>19. ASSUME NEW e \in Executor, StartExecutor(e) PROVE CallsAreByHand'
    BY <1>19 DEF StartExecutor
  <1>20. CASE UNCHANGED vars
    BY <1>20 DEF vars
  <1> QED
    BY <1>1, <1>2, <1>3, <1>4, <1>5, <1>6, <1>7, <1>8, <1>9, <1>10, <1>11, <1>12,
       <1>13, <1>14, <1>15, <1>16, <1>17, <1>18, <1>19, <1>20 DEF Next, ExecutorStep

\* The row, the task and the results of an action of a task move together.
LEMMA FollowsNext ==
    ActionTypeOK /\ LoadedIsStored /\ CallsAreByHand /\ TaskFollowsRow /\ [Next]_vars
        => TaskFollowsRow'
  <1> SUFFICES ASSUME ActionTypeOK, LoadedIsStored, CallsAreByHand, TaskFollowsRow,
                      [Next]_vars
               PROVE  TaskFollowsRow'
    OBVIOUS
  <1> USE ActionAssumption DEF LoadedIsStored, CallsAreByHand, TaskFollowsRow,
        ActionTypeOK, ActionState, Tx, Completed, engineVars, executorVars, handVars,
           histVars
  <1>1. ASSUME NEW a \in Action, Schedule(a) PROVE TaskFollowsRow'
    BY <1>1 DEF Schedule
  <1>2. ASSUME NEW a \in Action, SendRun(a) PROVE TaskFollowsRow'
    BY <1>2 DEF SendRun
  <1>3. ASSUME NEW a \in Action, CallExecutor(a) PROVE TaskFollowsRow'
    BY <1>3 DEF CallExecutor
  <1>4. ASSUME NEW a \in Action, NEW res \in {"SUCCESS", "ERROR"},
     NEW save \in BOOLEAN, AnswerCall(a, res, save) PROVE TaskFollowsRow'
    BY <1>4 DEF AnswerCall
  <1>5. ASSUME NEW a \in Action, NEW again \in BOOLEAN, FailCall(a,
     again) PROVE TaskFollowsRow'
    BY <1>5 DEF FailCall
  <1>6. ASSUME NEW a \in Action, DeleteAction(a) PROVE TaskFollowsRow'
    BY <1>6 DEF DeleteAction
  <1>7. ASSUME NEW a \in Action, NEW res \in {"SUCCESS", "ERROR"}, Return(a,
     res) PROVE TaskFollowsRow'
    BY <1>7 DEF Return
  <1>8. ASSUME NEW a \in Action, Remove(a) PROVE TaskFollowsRow'
    BY <1>8 DEF Remove
  <1>9. ASSUME NEW a \in Action, Heartbeat(a) PROVE TaskFollowsRow'
    BY <1>9 DEF Heartbeat
  <1>10. ASSUME NEW a \in Action, NEW res \in Completed, Report(a,
     res) PROVE TaskFollowsRow'
    BY <1>10 DEF Report
  <1>11. ASSUME NEW a \in Action, Expire(a) PROVE TaskFollowsRow'
    BY <1>11 DEF Expire
  <1>12. ASSUME NEW m \in msgs, BeginDone(m) PROVE TaskFollowsRow'
    BY <1>12 DEF BeginDone
  <1>13. ASSUME NEW m \in msgs, Lose(m) PROVE TaskFollowsRow'
    BY <1>13 DEF Lose
  <1>14. CASE CheckHeartbeats
    BY <1>14 DEF CheckHeartbeats
  <1>15. ASSUME NEW x \in txs, Write(x) PROVE TaskFollowsRow'
    <2> SUFFICES ASSUME NEW b \in Owned
                 PROVE  /\ state'[b] # "deleted"
                        /\ task'[b] = "none" <=> state'[b] = "none"
                        /\ task'[b] \in Completed <=> accepted'[b] # <<>>
                        /\ task'[b] # "deleted"
      OBVIOUS
    <2>1. x \in Tx /\ x.res \in Completed /\ b \in Action
      BY <1>15 DEF Write
    <2>2. CASE b \notin x.batch
      BY <1>15, <2>1, <2>2 DEF Write, Rows
    <2>3. CASE b \in x.batch
      <3>1. b \in Rows(x) /\ state[b] # "none" /\ state'[b] = x.res
        BY <1>15, <2>1, <2>3 DEF Write, Rows
      <3>2. accepted'[b] # <<>>
        <4>1. accepted'[b] = Append(accepted[b], x.res)
          BY <1>15, <2>1, <2>3, <3>1 DEF Write
        <4> QED  BY <2>1, <4>1, WrittenIsKept
      <3>3. task'[b] = TaskTakes(b, x.res) /\ task'[b] \in Completed
        BY <1>15, <2>1, <2>3, <3>1 DEF Write, TaskTakes
      <3> QED  BY <2>1, <3>1, <3>2, <3>3
    <2> QED  BY <2>2, <2>3
  <1>16. ASSUME NEW e \in Executor, NEW a \in Action, Take(e, a) PROVE TaskFollowsRow'
    BY <1>16 DEF Take
  <1>17. ASSUME NEW e \in Executor, StopExecutor(e) PROVE TaskFollowsRow'
    BY <1>17 DEF StopExecutor
  <1>18. ASSUME NEW e \in Executor, EndExecutor(e) PROVE TaskFollowsRow'
    BY <1>18 DEF EndExecutor
  <1>19. ASSUME NEW e \in Executor, StartExecutor(e) PROVE TaskFollowsRow'
    BY <1>19 DEF StartExecutor
  <1>20. CASE UNCHANGED vars
    BY <1>20 DEF vars
  <1> QED
    BY <1>1, <1>2, <1>3, <1>4, <1>5, <1>6, <1>7, <1>8, <1>9, <1>10, <1>11, <1>12,
       <1>13, <1>14, <1>15, <1>16, <1>17, <1>18, <1>19, <1>20 DEF Next, ExecutorStep

\* The result the task took stays the first of the results written.
LEMMA FirstNext ==
    ActionTypeOK /\ LoadedIsStored /\ CallsAreByHand /\ TaskFollowsRow
      /\ TaskTakesFirst /\ [Next]_vars => TaskTakesFirst'
  <1> SUFFICES ASSUME ActionTypeOK, LoadedIsStored, CallsAreByHand, TaskFollowsRow,
                      TaskTakesFirst, [Next]_vars
               PROVE  TaskTakesFirst'
    OBVIOUS
  <1> USE ActionAssumption DEF LoadedIsStored, CallsAreByHand, TaskFollowsRow,
        TaskTakesFirst, ActionTypeOK, ActionState, Tx, Completed, engineVars,
           executorVars, handVars, histVars
  <1>1. ASSUME NEW a \in Action, Schedule(a) PROVE TaskTakesFirst'
    BY <1>1 DEF Schedule
  <1>2. ASSUME NEW a \in Action, SendRun(a) PROVE TaskTakesFirst'
    BY <1>2 DEF SendRun
  <1>3. ASSUME NEW a \in Action, CallExecutor(a) PROVE TaskTakesFirst'
    BY <1>3 DEF CallExecutor
  <1>4. ASSUME NEW a \in Action, NEW res \in {"SUCCESS", "ERROR"},
     NEW save \in BOOLEAN, AnswerCall(a, res, save) PROVE TaskTakesFirst'
    <2>1. task' = task /\ a \notin Owned
      BY <1>4 DEF AnswerCall
    <2>2. \A b \in Owned : accepted'[b] = accepted[b]
      BY <1>4, <2>1 DEF AnswerCall
    <2> QED BY <2>1, <2>2
  <1>5. ASSUME NEW a \in Action, NEW again \in BOOLEAN, FailCall(a,
     again) PROVE TaskTakesFirst'
    BY <1>5 DEF FailCall
  <1>6. ASSUME NEW a \in Action, DeleteAction(a) PROVE TaskTakesFirst'
    BY <1>6 DEF DeleteAction
  <1>7. ASSUME NEW a \in Action, NEW res \in {"SUCCESS", "ERROR"}, Return(a,
     res) PROVE TaskTakesFirst'
    BY <1>7 DEF Return
  <1>8. ASSUME NEW a \in Action, Remove(a) PROVE TaskTakesFirst'
    BY <1>8 DEF Remove
  <1>9. ASSUME NEW a \in Action, Heartbeat(a) PROVE TaskTakesFirst'
    BY <1>9 DEF Heartbeat
  <1>10. ASSUME NEW a \in Action, NEW res \in Completed, Report(a,
     res) PROVE TaskTakesFirst'
    BY <1>10 DEF Report
  <1>11. ASSUME NEW a \in Action, Expire(a) PROVE TaskTakesFirst'
    BY <1>11 DEF Expire
  <1>12. ASSUME NEW m \in msgs, BeginDone(m) PROVE TaskTakesFirst'
    BY <1>12 DEF BeginDone
  <1>13. ASSUME NEW m \in msgs, Lose(m) PROVE TaskTakesFirst'
    BY <1>13 DEF Lose
  <1>14. CASE CheckHeartbeats
    BY <1>14 DEF CheckHeartbeats
  <1>15. ASSUME NEW x \in txs, Write(x) PROVE TaskTakesFirst'
    BY <1>15 DEF Write, Rows, TaskTakes
  <1>16. ASSUME NEW e \in Executor, NEW a \in Action, Take(e, a) PROVE TaskTakesFirst'
    BY <1>16 DEF Take
  <1>17. ASSUME NEW e \in Executor, StopExecutor(e) PROVE TaskTakesFirst'
    BY <1>17 DEF StopExecutor
  <1>18. ASSUME NEW e \in Executor, EndExecutor(e) PROVE TaskTakesFirst'
    BY <1>18 DEF EndExecutor
  <1>19. ASSUME NEW e \in Executor, StartExecutor(e) PROVE TaskTakesFirst'
    BY <1>19 DEF StartExecutor
  <1>20. CASE UNCHANGED vars
    BY <1>20 DEF vars
  <1> QED
    BY <1>1, <1>2, <1>3, <1>4, <1>5, <1>6, <1>7, <1>8, <1>9, <1>10, <1>11, <1>12,
       <1>13, <1>14, <1>15, <1>16, <1>17, <1>18, <1>19, <1>20 DEF Next, ExecutorStep

\* A deleted row is created again by nobody.
LEMMA DeletedNext ==
    ActionTypeOK /\ CallsAreByHand /\ DeletedForGood /\ [Next]_vars
        => DeletedForGood'
  <1> SUFFICES ASSUME ActionTypeOK, CallsAreByHand, DeletedForGood, [Next]_vars
               PROVE  DeletedForGood'
    OBVIOUS
  <1> USE DEF CallsAreByHand, DeletedForGood, ActionTypeOK, Completed, engineVars,
     executorVars, handVars, histVars
  <1>1. ASSUME NEW a \in Action, Schedule(a) PROVE DeletedForGood'
    BY <1>1 DEF Schedule
  <1>2. ASSUME NEW a \in Action, SendRun(a) PROVE DeletedForGood'
    BY <1>2 DEF SendRun
  <1>3. ASSUME NEW a \in Action, CallExecutor(a) PROVE DeletedForGood'
    BY <1>3 DEF CallExecutor
  <1>4. ASSUME NEW a \in Action, NEW res \in {"SUCCESS", "ERROR"},
     NEW save \in BOOLEAN, AnswerCall(a, res, save) PROVE DeletedForGood'
    BY <1>4 DEF AnswerCall
  <1>5. ASSUME NEW a \in Action, NEW again \in BOOLEAN, FailCall(a,
     again) PROVE DeletedForGood'
    BY <1>5 DEF FailCall
  <1>6. ASSUME NEW a \in Action, DeleteAction(a) PROVE DeletedForGood'
    BY <1>6 DEF DeleteAction
  <1>7. ASSUME NEW a \in Action, NEW res \in {"SUCCESS", "ERROR"}, Return(a,
     res) PROVE DeletedForGood'
    BY <1>7 DEF Return
  <1>8. ASSUME NEW a \in Action, Remove(a) PROVE DeletedForGood'
    BY <1>8 DEF Remove
  <1>9. ASSUME NEW a \in Action, Heartbeat(a) PROVE DeletedForGood'
    BY <1>9 DEF Heartbeat
  <1>10. ASSUME NEW a \in Action, NEW res \in Completed, Report(a,
     res) PROVE DeletedForGood'
    BY <1>10 DEF Report
  <1>11. ASSUME NEW a \in Action, Expire(a) PROVE DeletedForGood'
    BY <1>11 DEF Expire
  <1>12. ASSUME NEW m \in msgs, BeginDone(m) PROVE DeletedForGood'
    BY <1>12 DEF BeginDone
  <1>13. ASSUME NEW m \in msgs, Lose(m) PROVE DeletedForGood'
    BY <1>13 DEF Lose
  <1>14. CASE CheckHeartbeats
    BY <1>14 DEF CheckHeartbeats
  <1>15. ASSUME NEW x \in txs, Write(x) PROVE DeletedForGood'
    BY <1>15 DEF Write, Rows
  <1>16. ASSUME NEW e \in Executor, NEW a \in Action, Take(e, a) PROVE DeletedForGood'
    BY <1>16 DEF Take
  <1>17. ASSUME NEW e \in Executor, StopExecutor(e) PROVE DeletedForGood'
    BY <1>17 DEF StopExecutor
  <1>18. ASSUME NEW e \in Executor, EndExecutor(e) PROVE DeletedForGood'
    BY <1>18 DEF EndExecutor
  <1>19. ASSUME NEW e \in Executor, StartExecutor(e) PROVE DeletedForGood'
    BY <1>19 DEF StartExecutor
  <1>20. CASE UNCHANGED vars
    BY <1>20 DEF vars
  <1> QED
    BY <1>1, <1>2, <1>3, <1>4, <1>5, <1>6, <1>7, <1>8, <1>9, <1>10, <1>11, <1>12,
       <1>13, <1>14, <1>15, <1>16, <1>17, <1>18, <1>19, <1>20 DEF Next, ExecutorStep

\* An action that nobody works on is not taken up again, so the checker may fail it.
LEMMA ExpiredNext ==
    ActionTypeOK /\ ThreadsAreTracked /\ LoadedIsStored /\ ExpiredIsLost /\ [Next]_vars
        => ExpiredIsLost'
  <1> SUFFICES ASSUME ActionTypeOK, ThreadsAreTracked, LoadedIsStored, ExpiredIsLost,
                      [Next]_vars
               PROVE  ExpiredIsLost'
    OBVIOUS
  <1> USE DEF ThreadsAreTracked, LoadedIsStored, ExpiredIsLost, Lost, ActionTypeOK,
        Msg, Tx, Post, Run, Done, Completed, engineVars, executorVars, handVars,
           histVars
  <1>1. ASSUME NEW a \in Action, Schedule(a) PROVE ExpiredIsLost'
    BY <1>1 DEF Schedule
  <1>2. ASSUME NEW a \in Action, SendRun(a) PROVE ExpiredIsLost'
    BY <1>2 DEF SendRun
  <1>3. ASSUME NEW a \in Action, CallExecutor(a) PROVE ExpiredIsLost'
    BY <1>3 DEF CallExecutor
  <1>4. ASSUME NEW a \in Action, NEW res \in {"SUCCESS", "ERROR"},
     NEW save \in BOOLEAN, AnswerCall(a, res, save) PROVE ExpiredIsLost'
    BY <1>4 DEF AnswerCall
  <1>5. ASSUME NEW a \in Action, NEW again \in BOOLEAN, FailCall(a,
     again) PROVE ExpiredIsLost'
    BY <1>5 DEF FailCall
  <1>6. ASSUME NEW a \in Action, DeleteAction(a) PROVE ExpiredIsLost'
    BY <1>6 DEF DeleteAction
  <1>7. ASSUME NEW a \in Action, NEW res \in {"SUCCESS", "ERROR"}, Return(a,
     res) PROVE ExpiredIsLost'
    BY <1>7 DEF Return
  <1>8. ASSUME NEW a \in Action, Remove(a) PROVE ExpiredIsLost'
    BY <1>8 DEF Remove
  <1>9. ASSUME NEW a \in Action, Heartbeat(a) PROVE ExpiredIsLost'
    BY <1>9 DEF Heartbeat, Beating
  <1>10. ASSUME NEW a \in Action, NEW res \in Completed, Report(a,
     res) PROVE ExpiredIsLost'
    BY <1>10 DEF Report
  <1>11. ASSUME NEW a \in Action, Expire(a) PROVE ExpiredIsLost'
    BY <1>11 DEF Expire, Silent, Beating
  <1>12. ASSUME NEW m \in msgs, BeginDone(m) PROVE ExpiredIsLost'
    BY <1>12 DEF BeginDone
  <1>13. ASSUME NEW m \in msgs, Lose(m) PROVE ExpiredIsLost'
    BY <1>13 DEF Lose
  <1>14. CASE CheckHeartbeats
    <2>1. \A a \in Expired : a \in Sync /\ (a \in late \/ Lost(a))
      BY ActionAssumption DEF Expired
    <2>2. \A x \in txs' \ txs : x.batch = Expired \cap Owned
      BY <1>14 DEF CheckHeartbeats
    <2> QED  BY <1>14, <2>1, <2>2 DEF CheckHeartbeats
  <1>15. ASSUME NEW x \in txs, Write(x) PROVE ExpiredIsLost'
    <2>1. /\ txs' \subseteq txs /\ UNCHANGED <<beat, msgs, executorVars, histVars>>
          /\ \A a \in Action : state'[a] = IF a \in Rows(x) THEN x.res ELSE state[a]
      BY <1>15 DEF Write
    <2>2. \A a \in Action : Lost(a) => Lost(a)'
      BY <2>1
    <2>3. x.res # "none"
      BY <1>15
    <2>4. \A a \in Action : state[a] # "none" => state'[a] # "none"
      BY <2>1, <2>3
    <2> QED BY <2>1, <2>2, <2>4
  <1>16. ASSUME NEW e \in Executor, NEW a \in Action, Take(e, a) PROVE ExpiredIsLost'
    BY <1>16 DEF Take
  <1>17. ASSUME NEW e \in Executor, StopExecutor(e) PROVE ExpiredIsLost'
    BY <1>17 DEF StopExecutor
  <1>18. ASSUME NEW e \in Executor, EndExecutor(e) PROVE ExpiredIsLost'
    BY <1>18 DEF EndExecutor
  <1>19. ASSUME NEW e \in Executor, StartExecutor(e) PROVE ExpiredIsLost'
    BY <1>19 DEF StartExecutor
  <1>20. CASE UNCHANGED vars
    BY <1>20 DEF vars
  <1> HIDE DEF ExpiredIsLost, ActionTypeOK, ThreadsAreTracked, LoadedIsStored
  <1> QED
    BY <1>1, <1>2, <1>3, <1>4, <1>5, <1>6, <1>7, <1>8, <1>9, <1>10, <1>11, <1>12,
       <1>13, <1>14, <1>15, <1>16, <1>17, <1>18, <1>19, <1>20 DEF Next, ExecutorStep

-----------------------------------------------------------------------------
\* The conjuncts together are inductive.
THEOREM Invariant == ActionSpec => []IInv
  <1>1. Init => IInv
    <2> SUFFICES ASSUME Init PROVE IInv
      OBVIOUS
    <2>1. ActionTypeOK
      BY TypeInit
    <2>2. TaskTakesFirst /\ DeletedForGood /\ TaskFollowsRow
      BY ActionAssumption
      DEF Init, TaskTakesFirst, DeletedForGood, TaskFollowsRow, Completed
    <2>3. ThreadsAreTracked /\ ExpiredIsLost /\ LoadedIsStored /\ CallsAreByHand
      BY DEF Init, ThreadsAreTracked, ExpiredIsLost, LoadedIsStored, CallsAreByHand
    <2> QED  BY <2>1, <2>2, <2>3 DEF IInv, ActionInv
  <1>2. IInv /\ [Next]_vars => IInv'
    BY TypeNext, ThreadsNext, LoadedNext, CallsNext, FollowsNext, FirstNext,
       DeletedNext, ExpiredNext DEF IInv, ActionInv
  <1> QED  BY <1>1, <1>2, PTL DEF ActionSpec

\* The task of an action takes the first result that is written, and a deleted
\* action execution is not written again (Task.complete() on a conditional UPDATE,
\* delete_action_execution()).
THEOREM ActionSafety == ActionSpec => []ActionInv
  <1>1. IInv => ActionInv
    BY DEF IInv
  <1> QED  BY <1>1, Invariant, PTL

\* The checker fails an action that somebody works on only if its heartbeat was
\* late (handle_expired_actions()).
THEOREM LivingAreNotFailed == ActionSpec => LivingNotFailed
  <1> DEFINE Spares(a) ==
        state[a] = "RUNNING" /\ state'[a] = "ERROR" /\ AtWork(a)
          => a \in late \/ \E x \in txs \ txs' : ~x.checker
  <1>1. ASSUME IInv, [Next]_vars, NEW i \in Action PROVE Spares(i)
    <2> USE <1>1 DEF IInv, ActionInv, ActionTypeOK, engineVars, executorVars, handVars,
          histVars
    <2>1. ASSUME NEW a \in Action, Schedule(a) PROVE Spares(i)
      BY <2>1 DEF Schedule
    <2>2. ASSUME NEW a \in Action, NEW res \in {"SUCCESS", "ERROR"},
                 NEW save \in BOOLEAN, AnswerCall(a, res, save)
          PROVE  Spares(i)
      BY <2>2 DEF AnswerCall, CallsAreByHand
    <2>3. ASSUME NEW a \in Action, DeleteAction(a) PROVE Spares(i)
      BY <2>3 DEF DeleteAction
    <2>4. ASSUME NEW x \in txs, Write(x) PROVE Spares(i)
      <3>1. CASE ~x.checker
        BY <2>4, <3>1 DEF Write
      <3>2. CASE x.checker /\ i \in x.batch
        BY <2>4, <3>2 DEF ExpiredIsLost, Lost, AtWork
      <3>3. CASE i \notin x.batch
        BY <2>4, <3>3 DEF Write, Rows
      <3> QED  BY <3>1, <3>2, <3>3
    <2>5. ASSUME state' = state PROVE Spares(i)
      BY <2>5
    <2> HIDE DEF IInv
    <2>6. CASE UNCHANGED vars
      BY <2>5, <2>6 DEF vars
    <2>7. CASE Next
      BY <2>1, <2>2, <2>3, <2>4, <2>5, <2>7
      DEF Next, ExecutorStep, SendRun, Remove, Heartbeat, Expire, Report, CallExecutor,
          Return, FailCall, BeginDone, Lose, CheckHeartbeats, StopExecutor,
          EndExecutor, StartExecutor, Take
    <2> QED  BY <1>1, <2>6, <2>7
  <1>2. IInv /\ [Next]_vars => [\A a \in Action : Spares(a)]_vars
    BY <1>1
  <1> QED  BY <1>2, Invariant, PTL DEF ActionSpec, LivingNotFailed

\* The state of a task against what a lifecycle allows.
LEMMA TaskMoves ==
    ASSUME IInv, [Next]_vars, NEW i \in Owned
    PROVE  \/ task'[i] = task[i]
           \/ task[i] = "none" /\ task'[i] = "RUNNING"
           \/ task[i] = "RUNNING" /\ task'[i] \in Completed
  <1> DEFINE Moved == \/ task'[i] = task[i]
                      \/ task[i] = "none" /\ task'[i] = "RUNNING"
                      \/ task[i] = "RUNNING" /\ task'[i] \in Completed
  <1> USE ActionAssumption DEF IInv, ActionInv, ActionTypeOK
  <1>1. ASSUME NEW a \in Action, Schedule(a) PROVE Moved
    BY <1>1 DEF Schedule, TaskFollowsRow
  <1>2. ASSUME NEW x \in txs, Write(x) PROVE Moved
    <2>1. x.res \in Completed
      BY DEF Tx
    <2> QED  BY <1>2, <2>1 DEF Write, TaskTakes
  <1>3. ASSUME task' = task PROVE Moved
    BY <1>3
  <1> HIDE DEF IInv
  <1>4. CASE UNCHANGED vars
    BY <1>3, <1>4 DEF vars, engineVars
  <1>5. CASE Next
    BY <1>1, <1>2, <1>3, <1>5
    DEF Next, ExecutorStep, SendRun, Remove, Heartbeat, Expire, Report, CallExecutor,
        Return, FailCall, BeginDone, Lose, CheckHeartbeats, StopExecutor, EndExecutor,
        StartExecutor, Take, AnswerCall, DeleteAction, engineVars
  <1> QED  BY <1>4, <1>5

\* The task of a synchronous action begins once, ends once and keeps its result,
\* whatever is lost and whoever else reports one.
THEOREM ImplementsLifecycle == ActionSpec => TaskLifecycle
  <1>1. Init => Verdict!Init
    BY ActionAssumption DEF Init, Verdict!Init, verdict
  <1>2. IInv /\ IInv' /\ [Next]_vars => [Verdict!Next]_verdict
    <2> SUFFICES ASSUME IInv, IInv', [Next]_vars PROVE Verdict!Next
      OBVIOUS
    <2>1. \A a \in Owned : /\ a \in Action
                           /\ task[a] \in {"none", "RUNNING"} \cup Completed
                           /\ task'[a] \in {"none", "RUNNING"} \cup Completed
      BY ActionAssumption DEF IInv, ActionInv, ActionTypeOK, ActionState, TaskFollowsRow
    <2>2. verdict' \in [Sync \cap Owned -> Verdict!Status]
      BY <2>1 DEF verdict, Verdict!Status, Completed
    <2>3. ASSUME NEW a \in Sync \cap Owned
          PROVE  Verdict!Moves(verdict[a], verdict'[a])
      <3>1. \/ task'[a] = task[a]
            \/ task[a] = "none" /\ task'[a] = "RUNNING"
            \/ task[a] = "RUNNING" /\ task'[a] \in Completed
        BY TaskMoves
      <3> QED  BY <2>1, <3>1 DEF verdict, Verdict!Moves, Completed
    <2> QED  BY <2>2, <2>3 DEF Verdict!Next
  <1> QED  BY <1>1, <1>2, Invariant, PTL DEF ActionSpec, TaskLifecycle, Verdict!Spec

=============================================================================
