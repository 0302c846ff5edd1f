------------------------- MODULE ScheduledJobs_proofs -------------------------
(***************************************************************************)
(* Proofs about the default scheduler and about what runs on it.           *)
(*                                                                         *)
(* First the safety properties of DefaultScheduler for any number of       *)
(* processes and jobs, any batch size and any number of crashes, of calls  *)
(* that cannot be prepared and of slow captures.  Then RefreshRequests:    *)
(* the requests run on the default scheduler as it is, every step is one   *)
(* of its steps or leaves it alone, so what is shown of a step of the      *)
(* scheduler holds there as well.                                          *)
(*                                                                         *)
(* Last WithItems, whose jobs count the results of a task.  The executions *)
(* of a task are those of former iterations, whose results do not count    *)
(* any more, and behind them the ones of the present iteration, in the     *)
(* order of their items; what the task counts is their number.             *)
(***************************************************************************)
EXTENDS RefreshRequests, WithItems, FiniteSetTheorems, SequenceTheorems, TLAPS

\* A capture in somebody's hands was really made.
HeldInRange ==
    /\ \A j \in Job : WorkerHolds(j) => copy[j] \in 1..capturedAt[j]
    /\ \A p \in Proc, j \in Job :
          CheckerHolds(p, j) => token[p][j] \in 1..capturedAt[j]

\* A held capture that was overtaken, or may be, was a slow one.
OvertakenIsSlow ==
    /\ \A j \in Job :
          WorkerHolds(j) /\ (copy[j] # capturedAt[j] \/ j \in lapsed)
              => copy[j] <= MaxSlow
    /\ \A p \in Proc, j \in Job :
          CheckerHolds(p, j) /\ (token[p][j] # capturedAt[j] \/ j \in lapsed)
              => token[p][j] <= MaxSlow

\* What a thread that has not captured yet will compare with.
FreshBeforeCapture ==
    /\ \A j \in Job : row[j] = "none" \/ worker[j] \in {"heap", "taken"}
                          => copy[j] = 0
    /\ \A p \in Proc, j \in Job :
          checker[p] = "selected" /\ j \in selected[p] =>
              /\ token[p][j] <= capturedAt[j]
              /\ token[p][j] = capturedAt[j] => capturedAt[j] = 0 \/ j \in lapsed

\* Only committed rows are captured.
CapturedIsStored ==
    \A j \in Job : row[j] \in {"none", "pending", "rolledback"}
                       => capturedAt[j] = 0

\* The job a checker executes is one of its batch.
CurrentInBatch ==
    \A p \in Proc :
        /\ checker[p] \in {"running", "returned"} => current[p] \in selected[p]
        /\ checker[p] \in {"idle", "selected", "captured"} => current[p] = NoJob

\* The history variables against the threads that have called.
CalledInRange == \A j \in Job : called[j] \subseteq 1..capturedAt[j]

ReturnedIsKnown ==
    /\ \A j \in Job : worker[j] = "returned" => returned[j]
    /\ \A p \in Proc : checker[p] = "returned" => returned[current[p]]

\* Every capture is in the hands of at most one thread.
DistinctCaptures ==
    \A j \in Job, p \in Proc :
        CheckerHolds(p, j) =>
            /\ WorkerHolds(j) => copy[j] # token[p][j]
            /\ \A q \in Proc \ {p} :
                  CheckerHolds(q, j) => token[q][j] # token[p][j]

\* The inductive invariant.
IInv ==
    /\ TypeOK
    /\ HeldInRange
    /\ OvertakenIsSlow
    /\ FreshBeforeCapture
    /\ CapturedIsStored
    /\ CurrentInBatch
    /\ CalledInRange
    /\ ReturnedIsKnown
    /\ DistinctCaptures
    /\ OneCallPerCapture
    /\ DeletedOnlyAfterCall

-----------------------------------------------------------------------------
\* The type invariant is inductive by itself.
LEMMA TypeInit == Init => TypeOK
  BY SchedulerAssumption DEF Init, TypeOK, RowState, Phase, WorkerState, CheckerState

\* Every step keeps the types.
LEMMA TypeNext == TypeOK /\ [Next]_vars => TypeOK'
  <1> SUFFICES ASSUME TypeOK, [Next]_vars PROVE TypeOK'
    OBVIOUS
  <1> USE SchedulerAssumption
  <1> USE DEF RowState, Phase, WorkerState, CheckerState
  <1>1. ASSUME NEW j \in Job, Caller(j) PROVE TypeOK'
    <2>1. ASSUME NEW p \in Proc, Schedule(p, j) PROVE TypeOK'
      BY <2>1 DEF Schedule, TypeOK, checkerVars, procVars, histVars
    <2>2. CASE Commit(j)
      BY <2>2 DEF Commit, EndTransaction, TypeOK,
         memoryVars, checkerVars, procVars, histVars
    <2>3. CASE Rollback(j)
      BY <2>3 DEF Rollback, EndTransaction, TypeOK,
         memoryVars, checkerVars, procVars, histVars
    <2> QED  BY <1>1, <2>1, <2>2, <2>3 DEF Caller
  <1>2. ASSUME NEW j \in Job, Clock(j) PROVE TypeOK'
    BY <1>2 DEF Clock, BecomeDue, BecomeLate, Lapse, TypeOK,
       storeVars, memoryVars, checkerVars, procVars, histVars
  <1>3. ASSUME NEW j \in Job, Worker(j) PROVE TypeOK'
    <2>1. CASE Dispatch(j)
      BY <2>1 DEF Dispatch, TypeOK, storeVars, checkerVars, procVars, histVars
    <2>2. CASE WorkerCapture(j)
      BY <2>2 DEF WorkerCapture, TypeOK, checkerVars, procVars, histVars
    <2>3. CASE WorkerLoses(j)
      BY <2>3 DEF WorkerLoses, TypeOK, storeVars, checkerVars, procVars, histVars
    <2>4. CASE WorkerCall(j)
      BY <2>4 DEF WorkerCall, TypeOK, storeVars, checkerVars, procVars
    <2>5. CASE WorkerReturn(j)
      BY <2>5 DEF WorkerReturn, TypeOK, storeVars, checkerVars, procVars
    <2>6. CASE WorkerDelete(j)
      BY <2>6 DEF WorkerDelete, DeleteRow, TypeOK, checkerVars, procVars, histVars
    <2> QED  BY <1>3, <2>1, <2>2, <2>3, <2>4, <2>5, <2>6 DEF Worker
  <1>4. ASSUME NEW p \in Proc, Checker(p) PROVE TypeOK'
    <2>1. CASE CheckerSelect(p)
      BY <2>1 DEF CheckerSelect, Eligible, TypeOK,
         storeVars, memoryVars, procVars, histVars
    <2>2. CASE CheckerCapture(p)
      BY <2>2 DEF CheckerCapture, TypeOK, memoryVars, procVars, histVars
    <2>3. CASE CheckerCall(p)
      BY <2>3 DEF CheckerCall, TypeOK, storeVars, memoryVars, procVars
    <2>4. CASE CheckerReturn(p)
      BY <2>4 DEF CheckerReturn, TypeOK, storeVars, memoryVars, procVars
    <2>5. CASE CheckerDelete(p)
      BY <2>5 DEF CheckerDelete, DeleteRow, TypeOK, memoryVars, procVars, histVars
    <2> QED  BY <1>4, <2>1, <2>2, <2>3, <2>4, <2>5 DEF Checker
  <1>5. ASSUME NEW p \in Proc, Stop(p) \/ Crash(p) \/ Start(p) PROVE TypeOK'
    <2>1. CASE Stop(p)
      BY <2>1 DEF Stop, TypeOK, storeVars, checkerVars, histVars
    <2>2. CASE Crash(p)
      <3>1. up' \in [Proc -> {"up", "stopped", "down"}] /\ failures' \in Nat
        BY <2>2 DEF Crash, TypeOK
      <3>2. row' \in [Job -> RowState] /\ worker' \in [Job -> WorkerState]
            /\ memory' \in SUBSET Job
        BY <2>2 DEF Crash, TypeOK
      <3>3. /\ checker' \in [Proc -> CheckerState]
            /\ selected' \in [Proc -> SUBSET Job]
            /\ current' \in [Proc -> Job \cup {NoJob}]
        BY <2>2 DEF Crash, TypeOK
      <3> QED  BY <2>2, <3>1, <3>2, <3>3 DEF Crash, TypeOK, histVars
    <2>3. CASE Start(p)
      BY <2>3 DEF Start, TypeOK, storeVars, memoryVars, checkerVars, histVars
    <2> QED  BY <1>5, <2>1, <2>2, <2>3
  <1>6. CASE UNCHANGED vars
    BY <1>6 DEF vars, TypeOK, storeVars, memoryVars, checkerVars, procVars, histVars
  <1>7. ASSUME NEW j \in Job, WorkerCannotPrepare(j) PROVE TypeOK'
    BY <1>7 DEF WorkerCannotPrepare, TypeOK, storeVars, checkerVars, histVars
  <1>8. ASSUME NEW p \in Proc, CheckerCannotPrepare(p) PROVE TypeOK'
    BY <1>8 DEF CheckerCannotPrepare, TypeOK, storeVars, memoryVars, histVars
  <1> QED  BY <1>1, <1>2, <1>3, <1>4, <1>5, <1>6, <1>7, <1>8 DEF Next

\* All variables keep the types of the objects they stand for.
THEOREM TypeCorrect == Spec => []TypeOK
  BY TypeInit, TypeNext, PTL DEF Spec

-----------------------------------------------------------------------------
(* The inductive invariant, conjunct by conjunct.                           *)

\* A capture is taken with a number above all earlier ones, and only its own
\* thread gives it up.
LEMMA HeldInRangeNext == IInv /\ [Next]_vars => HeldInRange'
  <1> SUFFICES ASSUME TypeOK, HeldInRange, [Next]_vars PROVE HeldInRange'
    BY DEF IInv
  <1> USE SchedulerAssumption DEF TypeOK, RowState, WorkerState, CheckerState,
        storeVars, memoryVars, checkerVars, procVars, histVars,
        HeldInRange, WorkerHolds, CheckerHolds
  <1>1. ASSUME NEW j \in Job, Caller(j) PROVE HeldInRange'
    BY <1>1 DEF Caller, Schedule, Commit, Rollback, EndTransaction
  <1>2. ASSUME NEW j \in Job, Clock(j) PROVE HeldInRange'
    BY <1>2 DEF Clock, BecomeDue, BecomeLate, Lapse, Held
  <1>3. ASSUME NEW j \in Job, Dispatch(j) PROVE HeldInRange'
    BY <1>3 DEF Dispatch
  <1>4. ASSUME NEW j \in Job, WorkerCapture(j) PROVE HeldInRange'
    BY <1>4 DEF WorkerCapture, CanCapture
  <1>5. ASSUME NEW j \in Job, WorkerLoses(j) PROVE HeldInRange'
    BY <1>5 DEF WorkerLoses
  <1>6. ASSUME NEW j \in Job, WorkerCall(j) PROVE HeldInRange'
    BY <1>6 DEF WorkerCall
  <1>7. ASSUME NEW j \in Job, WorkerReturn(j) PROVE HeldInRange'
    BY <1>7 DEF WorkerReturn
  <1>8. ASSUME NEW j \in Job, WorkerDelete(j) PROVE HeldInRange'
    BY <1>8 DEF WorkerDelete, DeleteRow
  <1>9. ASSUME NEW p \in Proc, CheckerSelect(p) PROVE HeldInRange'
    BY <1>9 DEF CheckerSelect, Eligible
  <1>10. ASSUME NEW p \in Proc, CheckerCapture(p) PROVE HeldInRange'
    BY <1>10 DEF CheckerCapture, CanCapture
  <1>11. ASSUME NEW p \in Proc, CheckerCall(p) PROVE HeldInRange'
    BY <1>11 DEF CheckerCall
  <1>12. ASSUME NEW p \in Proc, CheckerReturn(p) PROVE HeldInRange'
    BY <1>12 DEF CheckerReturn
  <1>13. ASSUME NEW p \in Proc, CheckerDelete(p) PROVE HeldInRange'
    BY <1>13 DEF CheckerDelete, DeleteRow
  <1>14. ASSUME NEW p \in Proc, Stop(p) PROVE HeldInRange'
    BY <1>14 DEF Stop
  <1>15. ASSUME NEW p \in Proc, Crash(p) PROVE HeldInRange'
    BY <1>15 DEF Crash
  <1>16. ASSUME NEW p \in Proc, Start(p) PROVE HeldInRange'
    BY <1>16 DEF Start
  <1>17. CASE UNCHANGED vars
    BY <1>17 DEF vars
  <1>18. ASSUME NEW j \in Job, WorkerCannotPrepare(j) PROVE HeldInRange'
    BY <1>18 DEF WorkerCannotPrepare
  <1>19. ASSUME NEW p \in Proc, CheckerCannotPrepare(p) PROVE HeldInRange'
    BY <1>19 DEF CheckerCannotPrepare
  <1> QED
    BY <1>1, <1>2, <1>3, <1>4, <1>5, <1>6, <1>7, <1>8, <1>9,
       <1>10, <1>11, <1>12, <1>13, <1>14, <1>15, <1>16, <1>17, <1>18, <1>19
    DEF Next, Worker, Checker

\* A job is captured again only when the last capture has lapsed, and a capture
\* lapses in living hands only if it is slow.
LEMMA OvertakenIsSlowNext == IInv /\ [Next]_vars => OvertakenIsSlow'
  <1> SUFFICES ASSUME TypeOK, HeldInRange, OvertakenIsSlow, FreshBeforeCapture,
                   [Next]_vars
               PROVE  OvertakenIsSlow'
    BY DEF IInv
  <1> USE SchedulerAssumption DEF TypeOK, RowState, WorkerState, CheckerState,
        storeVars, memoryVars, checkerVars, procVars, histVars,
        HeldInRange, OvertakenIsSlow, FreshBeforeCapture,
        WorkerHolds, CheckerHolds
  <1>1. ASSUME NEW j \in Job, Caller(j) PROVE OvertakenIsSlow'
    BY <1>1 DEF Caller, Schedule, Commit, Rollback, EndTransaction
  <1>2. ASSUME NEW j \in Job, Clock(j) PROVE OvertakenIsSlow'
    <2>1. CASE BecomeDue(j)
      BY <2>1 DEF BecomeDue
    <2>2. CASE BecomeLate(j)
      BY <2>2 DEF BecomeLate
    <2>3. CASE Lapse(j)
      \* A capture that lapses while somebody holds it is one of the slow ones.
      <3>1. \A k \in Job : k \in lapsed' => k \in lapsed \/ k = j
        BY <2>3 DEF Lapse
      <3>2. WorkerHolds(j) /\ copy[j] = capturedAt[j] => copy[j] <= MaxSlow
        BY <2>3 DEF Lapse, Held
      <3>3. \A q \in Proc : CheckerHolds(q, j) /\ token[q][j] = capturedAt[j]
                            => token[q][j] <= MaxSlow
        BY <2>3 DEF Lapse, Held
      <3> QED  BY <2>3, <3>1, <3>2, <3>3 DEF Lapse
    <2> QED  BY <1>2, <2>1, <2>2, <2>3 DEF Clock
  <1>3. ASSUME NEW j \in Job, Dispatch(j) PROVE OvertakenIsSlow'
    BY <1>3 DEF Dispatch
  <1>4. ASSUME NEW j \in Job, WorkerCapture(j) PROVE OvertakenIsSlow'
    BY <1>4 DEF WorkerCapture, CanCapture
  <1>5. ASSUME NEW j \in Job, WorkerLoses(j) PROVE OvertakenIsSlow'
    BY <1>5 DEF WorkerLoses
  <1>6. ASSUME NEW j \in Job, WorkerCall(j) PROVE OvertakenIsSlow'
    BY <1>6 DEF WorkerCall
  <1>7. ASSUME NEW j \in Job, WorkerReturn(j) PROVE OvertakenIsSlow'
    BY <1>7 DEF WorkerReturn
  <1>8. ASSUME NEW j \in Job, WorkerDelete(j) PROVE OvertakenIsSlow'
    BY <1>8 DEF WorkerDelete, DeleteRow
  <1>9. ASSUME NEW p \in Proc, CheckerSelect(p) PROVE OvertakenIsSlow'
    BY <1>9 DEF CheckerSelect, Eligible
  <1>10. ASSUME NEW p \in Proc, CheckerCapture(p) PROVE OvertakenIsSlow'
    <2> DEFINE won == {k \in selected[p] : CanCapture(k, token[p][k])}
    <2>1. \A j \in Job : \/ capturedAt'[j] = capturedAt[j] /\ (j \in lapsed' => j \in lapsed)
                         \/ j \in won /\ j \notin lapsed'
      BY <1>10 DEF CheckerCapture
    <2>2. \A j \in won : capturedAt[j] = 0 \/ j \in lapsed
      BY <1>10 DEF CheckerCapture, CanCapture
    <2>3. \A j \in Job : WorkerHolds(j)' /\ (copy'[j] # capturedAt'[j] \/ j \in lapsed')
                         => copy'[j] <= MaxSlow
      BY <1>10, <2>1, <2>2 DEF CheckerCapture
    <2>4. ASSUME NEW q \in Proc, NEW j \in Job, CheckerHolds(q, j)',
                 token'[q][j] # capturedAt'[j] \/ j \in lapsed'
          PROVE  token'[q][j] <= MaxSlow
      <3>1. CASE q = p
        BY <1>10, <2>4, <3>1 DEF CheckerCapture
      <3>2. CASE q # p
        BY <1>10, <2>1, <2>2, <2>4, <3>2 DEF CheckerCapture
      <3> QED  BY <3>1, <3>2
    <2> QED  BY <2>3, <2>4
  <1>11. ASSUME NEW p \in Proc, CheckerCall(p) PROVE OvertakenIsSlow'
    BY <1>11 DEF CheckerCall
  <1>12. ASSUME NEW p \in Proc, CheckerReturn(p) PROVE OvertakenIsSlow'
    BY <1>12 DEF CheckerReturn
  <1>13. ASSUME NEW p \in Proc, CheckerDelete(p) PROVE OvertakenIsSlow'
    BY <1>13 DEF CheckerDelete, DeleteRow
  <1>14. ASSUME NEW p \in Proc, Stop(p) PROVE OvertakenIsSlow'
    BY <1>14 DEF Stop
  <1>15. ASSUME NEW p \in Proc, Crash(p) PROVE OvertakenIsSlow'
    BY <1>15 DEF Crash
  <1>16. ASSUME NEW p \in Proc, Start(p) PROVE OvertakenIsSlow'
    BY <1>16 DEF Start
  <1>17. CASE UNCHANGED vars
    BY <1>17 DEF vars
  <1>18. ASSUME NEW j \in Job, WorkerCannotPrepare(j) PROVE OvertakenIsSlow'
    BY <1>18 DEF WorkerCannotPrepare
  <1>19. ASSUME NEW p \in Proc, CheckerCannotPrepare(p) PROVE OvertakenIsSlow'
    BY <1>19 DEF CheckerCannotPrepare
  <1> QED
    BY <1>1, <1>2, <1>3, <1>4, <1>5, <1>6, <1>7, <1>8, <1>9,
       <1>10, <1>11, <1>12, <1>13, <1>14, <1>15, <1>16, <1>17, <1>18, <1>19
    DEF Next, Worker, Checker

\* What the checker selected stays a valid answer to its query until somebody
\* captures the job, which changes captured_at.
LEMMA FreshBeforeCaptureNext == IInv /\ [Next]_vars => FreshBeforeCapture'
  <1> SUFFICES ASSUME TypeOK, FreshBeforeCapture, [Next]_vars
               PROVE  FreshBeforeCapture'
    BY DEF IInv
  <1> USE SchedulerAssumption DEF TypeOK, RowState, WorkerState, CheckerState,
        storeVars, memoryVars, checkerVars, procVars, histVars,
        FreshBeforeCapture
  <1>1. ASSUME NEW j \in Job, Caller(j) PROVE FreshBeforeCapture'
    BY <1>1 DEF Caller, Schedule, Commit, Rollback, EndTransaction
  <1>2. ASSUME NEW j \in Job, Clock(j) PROVE FreshBeforeCapture'
    <2>1. CASE BecomeDue(j)
      BY <2>1 DEF BecomeDue
    <2>2. CASE BecomeLate(j)
      BY <2>2 DEF BecomeLate
    <2>3. CASE Lapse(j)
      <3>1. \A k \in Job : k \in lapsed => k \in lapsed'
        BY <2>3 DEF Lapse
      <3> QED  BY <2>3, <3>1 DEF Lapse
    <2> QED  BY <1>2, <2>1, <2>2, <2>3 DEF Clock
  <1>3. ASSUME NEW j \in Job, Dispatch(j) PROVE FreshBeforeCapture'
    BY <1>3 DEF Dispatch
  <1>4. ASSUME NEW j \in Job, WorkerCapture(j) PROVE FreshBeforeCapture'
    BY <1>4 DEF WorkerCapture, CanCapture
  <1>5. ASSUME NEW j \in Job, WorkerLoses(j) PROVE FreshBeforeCapture'
    BY <1>5 DEF WorkerLoses
  <1>6. ASSUME NEW j \in Job, WorkerCall(j) PROVE FreshBeforeCapture'
    BY <1>6 DEF WorkerCall
  <1>7. ASSUME NEW j \in Job, WorkerReturn(j) PROVE FreshBeforeCapture'
    BY <1>7 DEF WorkerReturn
  <1>8. ASSUME NEW j \in Job, WorkerDelete(j) PROVE FreshBeforeCapture'
    BY <1>8 DEF WorkerDelete, DeleteRow
  <1>9. ASSUME NEW p \in Proc, CheckerSelect(p) PROVE FreshBeforeCapture'
    BY <1>9 DEF CheckerSelect, Eligible
  <1>10. ASSUME NEW p \in Proc, CheckerCapture(p) PROVE FreshBeforeCapture'
    BY <1>10 DEF CheckerCapture, CanCapture
  <1>11. ASSUME NEW p \in Proc, CheckerCall(p) PROVE FreshBeforeCapture'
    BY <1>11 DEF CheckerCall
  <1>12. ASSUME NEW p \in Proc, CheckerReturn(p) PROVE FreshBeforeCapture'
    BY <1>12 DEF CheckerReturn
  <1>13. ASSUME NEW p \in Proc, CheckerDelete(p) PROVE FreshBeforeCapture'
    BY <1>13 DEF CheckerDelete, DeleteRow
  <1>14. ASSUME NEW p \in Proc, Stop(p) PROVE FreshBeforeCapture'
    BY <1>14 DEF Stop
  <1>15. ASSUME NEW p \in Proc, Crash(p) PROVE FreshBeforeCapture'
    BY <1>15 DEF Crash
  <1>16. ASSUME NEW p \in Proc, Start(p) PROVE FreshBeforeCapture'
    BY <1>16 DEF Start
  <1>17. CASE UNCHANGED vars
    BY <1>17 DEF vars
  <1>18. ASSUME NEW j \in Job, WorkerCannotPrepare(j) PROVE FreshBeforeCapture'
    BY <1>18 DEF WorkerCannotPrepare
  <1>19. ASSUME NEW p \in Proc, CheckerCannotPrepare(p) PROVE FreshBeforeCapture'
    BY <1>19 DEF CheckerCannotPrepare
  <1> QED
    BY <1>1, <1>2, <1>3, <1>4, <1>5, <1>6, <1>7, <1>8, <1>9,
       <1>10, <1>11, <1>12, <1>13, <1>14, <1>15, <1>16, <1>17, <1>18, <1>19
    DEF Next, Worker, Checker

\* An open or rolled back transaction hides its row from every capture.
LEMMA CapturedIsStoredNext == IInv /\ [Next]_vars => CapturedIsStored'
  <1> SUFFICES ASSUME TypeOK, CapturedIsStored, HeldInRange, CurrentInBatch,
                   [Next]_vars
               PROVE  CapturedIsStored'
    BY DEF IInv
  <1> USE SchedulerAssumption DEF TypeOK, RowState, WorkerState, CheckerState,
        storeVars, memoryVars, checkerVars, procVars, histVars,
        CapturedIsStored, HeldInRange, WorkerHolds,
        CheckerHolds, CurrentInBatch
  <1>1. ASSUME NEW j \in Job, Caller(j) PROVE CapturedIsStored'
    BY <1>1 DEF Caller, Schedule, Commit, Rollback, EndTransaction
  <1>2. ASSUME NEW j \in Job, Clock(j) PROVE CapturedIsStored'
    BY <1>2 DEF Clock, BecomeDue, BecomeLate, Lapse, Held
  <1>3. ASSUME NEW j \in Job, Dispatch(j) PROVE CapturedIsStored'
    BY <1>3 DEF Dispatch
  <1>4. ASSUME NEW j \in Job, WorkerCapture(j) PROVE CapturedIsStored'
    BY <1>4 DEF WorkerCapture, CanCapture
  <1>5. ASSUME NEW j \in Job, WorkerLoses(j) PROVE CapturedIsStored'
    BY <1>5 DEF WorkerLoses
  <1>6. ASSUME NEW j \in Job, WorkerCall(j) PROVE CapturedIsStored'
    BY <1>6 DEF WorkerCall
  <1>7. ASSUME NEW j \in Job, WorkerReturn(j) PROVE CapturedIsStored'
    BY <1>7 DEF WorkerReturn
  <1>8. ASSUME NEW j \in Job, WorkerDelete(j) PROVE CapturedIsStored'
    BY <1>8 DEF WorkerDelete, DeleteRow
  <1>9. ASSUME NEW p \in Proc, CheckerSelect(p) PROVE CapturedIsStored'
    BY <1>9 DEF CheckerSelect, Eligible
  <1>10. ASSUME NEW p \in Proc, CheckerCapture(p) PROVE CapturedIsStored'
    BY <1>10 DEF CheckerCapture, CanCapture
  <1>11. ASSUME NEW p \in Proc, CheckerCall(p) PROVE CapturedIsStored'
    BY <1>11 DEF CheckerCall
  <1>12. ASSUME NEW p \in Proc, CheckerReturn(p) PROVE CapturedIsStored'
    BY <1>12 DEF CheckerReturn
  <1>13. ASSUME NEW p \in Proc, CheckerDelete(p) PROVE CapturedIsStored'
    BY <1>13 DEF CheckerDelete, DeleteRow
  <1>14. ASSUME NEW p \in Proc, Stop(p) PROVE CapturedIsStored'
    BY <1>14 DEF Stop
  <1>15. ASSUME NEW p \in Proc, Crash(p) PROVE CapturedIsStored'
    BY <1>15 DEF Crash
  <1>16. ASSUME NEW p \in Proc, Start(p) PROVE CapturedIsStored'
    BY <1>16 DEF Start
  <1>17. CASE UNCHANGED vars
    BY <1>17 DEF vars
  <1>18. ASSUME NEW j \in Job, WorkerCannotPrepare(j) PROVE CapturedIsStored'
    BY <1>18 DEF WorkerCannotPrepare
  <1>19. ASSUME NEW p \in Proc, CheckerCannotPrepare(p) PROVE CapturedIsStored'
    BY <1>19 DEF CheckerCannotPrepare
  <1> QED
    BY <1>1, <1>2, <1>3, <1>4, <1>5, <1>6, <1>7, <1>8, <1>9,
       <1>10, <1>11, <1>12, <1>13, <1>14, <1>15, <1>16, <1>17, <1>18, <1>19
    DEF Next, Worker, Checker

\* The loop of the checker takes the jobs it executes from its batch.
LEMMA CurrentInBatchNext == IInv /\ [Next]_vars => CurrentInBatch'
  <1> SUFFICES ASSUME TypeOK, CurrentInBatch, [Next]_vars PROVE CurrentInBatch'
    BY DEF IInv
  <1> USE SchedulerAssumption DEF TypeOK, RowState, WorkerState, CheckerState,
        storeVars, memoryVars, checkerVars, procVars, histVars,
        CurrentInBatch
  <1>1. ASSUME NEW j \in Job, Caller(j) PROVE CurrentInBatch'
    BY <1>1 DEF Caller, Schedule, Commit, Rollback, EndTransaction
  <1>2. ASSUME NEW j \in Job, Clock(j) PROVE CurrentInBatch'
    BY <1>2 DEF Clock, BecomeDue, BecomeLate, Lapse, Held
  <1>3. ASSUME NEW j \in Job, Dispatch(j) PROVE CurrentInBatch'
    BY <1>3 DEF Dispatch
  <1>4. ASSUME NEW j \in Job, WorkerCapture(j) PROVE CurrentInBatch'
    BY <1>4 DEF WorkerCapture, CanCapture
  <1>5. ASSUME NEW j \in Job, WorkerLoses(j) PROVE CurrentInBatch'
    BY <1>5 DEF WorkerLoses
  <1>6. ASSUME NEW j \in Job, WorkerCall(j) PROVE CurrentInBatch'
    BY <1>6 DEF WorkerCall
  <1>7. ASSUME NEW j \in Job, WorkerReturn(j) PROVE CurrentInBatch'
    BY <1>7 DEF WorkerReturn
  <1>8. ASSUME NEW j \in Job, WorkerDelete(j) PROVE CurrentInBatch'
    BY <1>8 DEF WorkerDelete, DeleteRow
  <1>9. ASSUME NEW p \in Proc, CheckerSelect(p) PROVE CurrentInBatch'
    BY <1>9 DEF CheckerSelect, Eligible
  <1>10. ASSUME NEW p \in Proc, CheckerCapture(p) PROVE CurrentInBatch'
    BY <1>10 DEF CheckerCapture, CanCapture
  <1>11. ASSUME NEW p \in Proc, CheckerCall(p) PROVE CurrentInBatch'
    BY <1>11 DEF CheckerCall
  <1>12. ASSUME NEW p \in Proc, CheckerReturn(p) PROVE CurrentInBatch'
    BY <1>12 DEF CheckerReturn
  <1>13. ASSUME NEW p \in Proc, CheckerDelete(p) PROVE CurrentInBatch'
    BY <1>13 DEF CheckerDelete, DeleteRow
  <1>14. ASSUME NEW p \in Proc, Stop(p) PROVE CurrentInBatch'
    BY <1>14 DEF Stop
  <1>15. ASSUME NEW p \in Proc, Crash(p) PROVE CurrentInBatch'
    BY <1>15 DEF Crash
  <1>16. ASSUME NEW p \in Proc, Start(p) PROVE CurrentInBatch'
    BY <1>16 DEF Start
  <1>17. CASE UNCHANGED vars
    BY <1>17 DEF vars
  <1>18. ASSUME NEW j \in Job, WorkerCannotPrepare(j) PROVE CurrentInBatch'
    BY <1>18 DEF WorkerCannotPrepare
  <1>19. ASSUME NEW p \in Proc, CheckerCannotPrepare(p) PROVE CurrentInBatch'
    BY <1>19 DEF CheckerCannotPrepare
  <1> QED
    BY <1>1, <1>2, <1>3, <1>4, <1>5, <1>6, <1>7, <1>8, <1>9,
       <1>10, <1>11, <1>12, <1>13, <1>14, <1>15, <1>16, <1>17, <1>18, <1>19
    DEF Next, Worker, Checker

\* Only captures that were made lead to calls.
LEMMA CalledInRangeNext == IInv /\ [Next]_vars => CalledInRange'
  <1> SUFFICES ASSUME TypeOK, CalledInRange, HeldInRange, [Next]_vars
               PROVE  CalledInRange'
    BY DEF IInv
  <1> USE SchedulerAssumption DEF TypeOK, RowState, WorkerState, CheckerState,
        storeVars, memoryVars, checkerVars, procVars, histVars,
        CalledInRange, HeldInRange, WorkerHolds,
        CheckerHolds
  <1>1. ASSUME NEW j \in Job, Caller(j) PROVE CalledInRange'
    BY <1>1 DEF Caller, Schedule, Commit, Rollback, EndTransaction
  <1>2. ASSUME NEW j \in Job, Clock(j) PROVE CalledInRange'
    BY <1>2 DEF Clock, BecomeDue, BecomeLate, Lapse, Held
  <1>3. ASSUME NEW j \in Job, Dispatch(j) PROVE CalledInRange'
    BY <1>3 DEF Dispatch
  <1>4. ASSUME NEW j \in Job, WorkerCapture(j) PROVE CalledInRange'
    BY <1>4 DEF WorkerCapture, CanCapture
  <1>5. ASSUME NEW j \in Job, WorkerLoses(j) PROVE CalledInRange'
    BY <1>5 DEF WorkerLoses
  <1>6. ASSUME NEW j \in Job, WorkerCall(j) PROVE CalledInRange'
    BY <1>6 DEF WorkerCall
  <1>7. ASSUME NEW j \in Job, WorkerReturn(j) PROVE CalledInRange'
    BY <1>7 DEF WorkerReturn
  <1>8. ASSUME NEW j \in Job, WorkerDelete(j) PROVE CalledInRange'
    BY <1>8 DEF WorkerDelete, DeleteRow
  <1>9. ASSUME NEW p \in Proc, CheckerSelect(p) PROVE CalledInRange'
    BY <1>9 DEF CheckerSelect, Eligible
  <1>10. ASSUME NEW p \in Proc, CheckerCapture(p) PROVE CalledInRange'
    BY <1>10 DEF CheckerCapture, CanCapture
  <1>11. ASSUME NEW p \in Proc, CheckerCall(p) PROVE CalledInRange'
    BY <1>11 DEF CheckerCall
  <1>12. ASSUME NEW p \in Proc, CheckerReturn(p) PROVE CalledInRange'
    BY <1>12 DEF CheckerReturn
  <1>13. ASSUME NEW p \in Proc, CheckerDelete(p) PROVE CalledInRange'
    BY <1>13 DEF CheckerDelete, DeleteRow
  <1>14. ASSUME NEW p \in Proc, Stop(p) PROVE CalledInRange'
    BY <1>14 DEF Stop
  <1>15. ASSUME NEW p \in Proc, Crash(p) PROVE CalledInRange'
    BY <1>15 DEF Crash
  <1>16. ASSUME NEW p \in Proc, Start(p) PROVE CalledInRange'
    BY <1>16 DEF Start
  <1>17. CASE UNCHANGED vars
    BY <1>17 DEF vars
  <1>18. ASSUME NEW j \in Job, WorkerCannotPrepare(j) PROVE CalledInRange'
    BY <1>18 DEF WorkerCannotPrepare
  <1>19. ASSUME NEW p \in Proc, CheckerCannotPrepare(p) PROVE CalledInRange'
    BY <1>19 DEF CheckerCannotPrepare
  <1> QED
    BY <1>1, <1>2, <1>3, <1>4, <1>5, <1>6, <1>7, <1>8, <1>9,
       <1>10, <1>11, <1>12, <1>13, <1>14, <1>15, <1>16, <1>17, <1>18, <1>19
    DEF Next, Worker, Checker

\* A thread deletes the row after its call has returned.
LEMMA ReturnedIsKnownNext == IInv /\ [Next]_vars => ReturnedIsKnown'
  <1> SUFFICES ASSUME TypeOK, ReturnedIsKnown, CurrentInBatch, [Next]_vars
               PROVE  ReturnedIsKnown'
    BY DEF IInv
  <1> USE SchedulerAssumption DEF TypeOK, RowState, WorkerState, CheckerState,
        storeVars, memoryVars, checkerVars, procVars, histVars,
        ReturnedIsKnown, CurrentInBatch
  <1>1. ASSUME NEW j \in Job, Caller(j) PROVE ReturnedIsKnown'
    BY <1>1 DEF Caller, Schedule, Commit, Rollback, EndTransaction
  <1>2. ASSUME NEW j \in Job, Clock(j) PROVE ReturnedIsKnown'
    BY <1>2 DEF Clock, BecomeDue, BecomeLate, Lapse, Held
  <1>3. ASSUME NEW j \in Job, Dispatch(j) PROVE ReturnedIsKnown'
    BY <1>3 DEF Dispatch
  <1>4. ASSUME NEW j \in Job, WorkerCapture(j) PROVE ReturnedIsKnown'
    BY <1>4 DEF WorkerCapture, CanCapture
  <1>5. ASSUME NEW j \in Job, WorkerLoses(j) PROVE ReturnedIsKnown'
    BY <1>5 DEF WorkerLoses
  <1>6. ASSUME NEW j \in Job, WorkerCall(j) PROVE ReturnedIsKnown'
    BY <1>6 DEF WorkerCall
  <1>7. ASSUME NEW j \in Job, WorkerReturn(j) PROVE ReturnedIsKnown'
    BY <1>7 DEF WorkerReturn
  <1>8. ASSUME NEW j \in Job, WorkerDelete(j) PROVE ReturnedIsKnown'
    BY <1>8 DEF WorkerDelete, DeleteRow
  <1>9. ASSUME NEW p \in Proc, CheckerSelect(p) PROVE ReturnedIsKnown'
    BY <1>9 DEF CheckerSelect, Eligible
  <1>10. ASSUME NEW p \in Proc, CheckerCapture(p) PROVE ReturnedIsKnown'
    BY <1>10 DEF CheckerCapture, CanCapture
  <1>11. ASSUME NEW p \in Proc, CheckerCall(p) PROVE ReturnedIsKnown'
    BY <1>11 DEF CheckerCall
  <1>12. ASSUME NEW p \in Proc, CheckerReturn(p) PROVE ReturnedIsKnown'
    BY <1>12 DEF CheckerReturn
  <1>13. ASSUME NEW p \in Proc, CheckerDelete(p) PROVE ReturnedIsKnown'
    BY <1>13 DEF CheckerDelete, DeleteRow
  <1>14. ASSUME NEW p \in Proc, Stop(p) PROVE ReturnedIsKnown'
    BY <1>14 DEF Stop
  <1>15. ASSUME NEW p \in Proc, Crash(p) PROVE ReturnedIsKnown'
    BY <1>15 DEF Crash
  <1>16. ASSUME NEW p \in Proc, Start(p) PROVE ReturnedIsKnown'
    BY <1>16 DEF Start
  <1>17. CASE UNCHANGED vars
    BY <1>17 DEF vars
  <1>18. ASSUME NEW j \in Job, WorkerCannotPrepare(j) PROVE ReturnedIsKnown'
    BY <1>18 DEF WorkerCannotPrepare
  <1>19. ASSUME NEW p \in Proc, CheckerCannotPrepare(p) PROVE ReturnedIsKnown'
    BY <1>19 DEF CheckerCannotPrepare
  <1> QED
    BY <1>1, <1>2, <1>3, <1>4, <1>5, <1>6, <1>7, <1>8, <1>9,
       <1>10, <1>11, <1>12, <1>13, <1>14, <1>15, <1>16, <1>17, <1>18, <1>19
    DEF Next, Worker, Checker

\* A new capture has a number that nobody holds.
LEMMA DistinctCapturesNext == IInv /\ [Next]_vars => DistinctCaptures'
  <1> SUFFICES ASSUME TypeOK, DistinctCaptures, HeldInRange, [Next]_vars
               PROVE  DistinctCaptures'
    BY DEF IInv
  <1> USE SchedulerAssumption DEF TypeOK, RowState, WorkerState, CheckerState,
        storeVars, memoryVars, checkerVars, procVars, histVars,
        DistinctCaptures, HeldInRange, WorkerHolds,
        CheckerHolds
  <1>1. ASSUME NEW j \in Job, Caller(j) PROVE DistinctCaptures'
    BY <1>1 DEF Caller, Schedule, Commit, Rollback, EndTransaction
  <1>2. ASSUME NEW j \in Job, Clock(j) PROVE DistinctCaptures'
    BY <1>2 DEF Clock, BecomeDue, BecomeLate, Lapse, Held
  <1>3. ASSUME NEW j \in Job, Dispatch(j) PROVE DistinctCaptures'
    BY <1>3 DEF Dispatch
  <1>4. ASSUME NEW j \in Job, WorkerCapture(j) PROVE DistinctCaptures'
    BY <1>4 DEF WorkerCapture, CanCapture
  <1>5. ASSUME NEW j \in Job, WorkerLoses(j) PROVE DistinctCaptures'
    BY <1>5 DEF WorkerLoses
  <1>6. ASSUME NEW j \in Job, WorkerCall(j) PROVE DistinctCaptures'
    BY <1>6 DEF WorkerCall
  <1>7. ASSUME NEW j \in Job, WorkerReturn(j) PROVE DistinctCaptures'
    BY <1>7 DEF WorkerReturn
  <1>8. ASSUME NEW j \in Job, WorkerDelete(j) PROVE DistinctCaptures'
    BY <1>8 DEF WorkerDelete, DeleteRow
  <1>9. ASSUME NEW p \in Proc, CheckerSelect(p) PROVE DistinctCaptures'
    BY <1>9 DEF CheckerSelect, Eligible
  <1>10. ASSUME NEW p \in Proc, CheckerCapture(p) PROVE DistinctCaptures'
    BY <1>10 DEF CheckerCapture, CanCapture
  <1>11. ASSUME NEW p \in Proc, CheckerCall(p) PROVE DistinctCaptures'
    BY <1>11 DEF CheckerCall
  <1>12. ASSUME NEW p \in Proc, CheckerReturn(p) PROVE DistinctCaptures'
    BY <1>12 DEF CheckerReturn
  <1>13. ASSUME NEW p \in Proc, CheckerDelete(p) PROVE DistinctCaptures'
    BY <1>13 DEF CheckerDelete, DeleteRow
  <1>14. ASSUME NEW p \in Proc, Stop(p) PROVE DistinctCaptures'
    BY <1>14 DEF Stop
  <1>15. ASSUME NEW p \in Proc, Crash(p) PROVE DistinctCaptures'
    BY <1>15 DEF Crash
  <1>16. ASSUME NEW p \in Proc, Start(p) PROVE DistinctCaptures'
    BY <1>16 DEF Start
  <1>17. CASE UNCHANGED vars
    BY <1>17 DEF vars
  <1>18. ASSUME NEW j \in Job, WorkerCannotPrepare(j) PROVE DistinctCaptures'
    BY <1>18 DEF WorkerCannotPrepare
  <1>19. ASSUME NEW p \in Proc, CheckerCannotPrepare(p) PROVE DistinctCaptures'
    BY <1>19 DEF CheckerCannotPrepare
  <1> QED
    BY <1>1, <1>2, <1>3, <1>4, <1>5, <1>6, <1>7, <1>8, <1>9,
       <1>10, <1>11, <1>12, <1>13, <1>14, <1>15, <1>16, <1>17, <1>18, <1>19
    DEF Next, Worker, Checker

\* After the call the capture is never used for another call: its number is in
\* the hands of this thread only.
LEMMA OneCallPerCaptureNext == IInv /\ [Next]_vars => OneCallPerCapture'
  <1> SUFFICES ASSUME TypeOK, OneCallPerCapture, DistinctCaptures,
                   CurrentInBatch, CalledInRange, HeldInRange, [Next]_vars
               PROVE  OneCallPerCapture'
    BY DEF IInv
  <1> USE SchedulerAssumption DEF TypeOK, RowState, WorkerState, CheckerState,
        storeVars, memoryVars, checkerVars, procVars, histVars,
        OneCallPerCapture, DistinctCaptures, CurrentInBatch,
        CalledInRange, HeldInRange, WorkerHolds,
        CheckerHolds
  <1>1. ASSUME NEW j \in Job, Caller(j) PROVE OneCallPerCapture'
    BY <1>1 DEF Caller, Schedule, Commit, Rollback, EndTransaction
  <1>2. ASSUME NEW j \in Job, Clock(j) PROVE OneCallPerCapture'
    BY <1>2 DEF Clock, BecomeDue, BecomeLate, Lapse, Held
  <1>3. ASSUME NEW j \in Job, Dispatch(j) PROVE OneCallPerCapture'
    BY <1>3 DEF Dispatch
  <1>4. ASSUME NEW j \in Job, WorkerCapture(j) PROVE OneCallPerCapture'
    BY <1>4 DEF WorkerCapture, CanCapture
  <1>5. ASSUME NEW j \in Job, WorkerLoses(j) PROVE OneCallPerCapture'
    BY <1>5 DEF WorkerLoses
  <1>6. ASSUME NEW j \in Job, WorkerCall(j) PROVE OneCallPerCapture'
    BY <1>6 DEF WorkerCall
  <1>7. ASSUME NEW j \in Job, WorkerReturn(j) PROVE OneCallPerCapture'
    BY <1>7 DEF WorkerReturn
  <1>8. ASSUME NEW j \in Job, WorkerDelete(j) PROVE OneCallPerCapture'
    BY <1>8 DEF WorkerDelete, DeleteRow
  <1>9. ASSUME NEW p \in Proc, CheckerSelect(p) PROVE OneCallPerCapture'
    BY <1>9 DEF CheckerSelect, Eligible
  <1>10. ASSUME NEW p \in Proc, CheckerCapture(p) PROVE OneCallPerCapture'
    BY <1>10 DEF CheckerCapture, CanCapture
  <1>11. ASSUME NEW p \in Proc, CheckerCall(p) PROVE OneCallPerCapture'
    BY <1>11 DEF CheckerCall
  <1>12. ASSUME NEW p \in Proc, CheckerReturn(p) PROVE OneCallPerCapture'
    BY <1>12 DEF CheckerReturn
  <1>13. ASSUME NEW p \in Proc, CheckerDelete(p) PROVE OneCallPerCapture'
    BY <1>13 DEF CheckerDelete, DeleteRow
  <1>14. ASSUME NEW p \in Proc, Stop(p) PROVE OneCallPerCapture'
    BY <1>14 DEF Stop
  <1>15. ASSUME NEW p \in Proc, Crash(p) PROVE OneCallPerCapture'
    BY <1>15 DEF Crash
  <1>16. ASSUME NEW p \in Proc, Start(p) PROVE OneCallPerCapture'
    BY <1>16 DEF Start
  <1>17. CASE UNCHANGED vars
    BY <1>17 DEF vars
  <1>18. ASSUME NEW j \in Job, WorkerCannotPrepare(j) PROVE OneCallPerCapture'
    BY <1>18 DEF WorkerCannotPrepare
  <1>19. ASSUME NEW p \in Proc, CheckerCannotPrepare(p) PROVE OneCallPerCapture'
    BY <1>19 DEF CheckerCannotPrepare
  <1> QED
    BY <1>1, <1>2, <1>3, <1>4, <1>5, <1>6, <1>7, <1>8, <1>9,
       <1>10, <1>11, <1>12, <1>13, <1>14, <1>15, <1>16, <1>17, <1>18, <1>19
    DEF Next, Worker, Checker

\* Both DELETEs come after a call by the same thread.
LEMMA DeletedOnlyAfterCallNext == IInv /\ [Next]_vars => DeletedOnlyAfterCall'
  <1> SUFFICES ASSUME TypeOK, DeletedOnlyAfterCall, ReturnedIsKnown,
                   CurrentInBatch, [Next]_vars
               PROVE  DeletedOnlyAfterCall'
    BY DEF IInv
  <1> USE SchedulerAssumption DEF TypeOK, RowState, WorkerState, CheckerState,
        storeVars, memoryVars, checkerVars, procVars, histVars,
        DeletedOnlyAfterCall, ReturnedIsKnown, CurrentInBatch
  <1>1. ASSUME NEW j \in Job, Caller(j) PROVE DeletedOnlyAfterCall'
    BY <1>1 DEF Caller, Schedule, Commit, Rollback, EndTransaction
  <1>2. ASSUME NEW j \in Job, Clock(j) PROVE DeletedOnlyAfterCall'
    BY <1>2 DEF Clock, BecomeDue, BecomeLate, Lapse, Held
  <1>3. ASSUME NEW j \in Job, Dispatch(j) PROVE DeletedOnlyAfterCall'
    BY <1>3 DEF Dispatch
  <1>4. ASSUME NEW j \in Job, WorkerCapture(j) PROVE DeletedOnlyAfterCall'
    BY <1>4 DEF WorkerCapture, CanCapture
  <1>5. ASSUME NEW j \in Job, WorkerLoses(j) PROVE DeletedOnlyAfterCall'
    BY <1>5 DEF WorkerLoses
  <1>6. ASSUME NEW j \in Job, WorkerCall(j) PROVE DeletedOnlyAfterCall'
    BY <1>6 DEF WorkerCall
  <1>7. ASSUME NEW j \in Job, WorkerReturn(j) PROVE DeletedOnlyAfterCall'
    BY <1>7 DEF WorkerReturn
  <1>8. ASSUME NEW j \in Job, WorkerDelete(j) PROVE DeletedOnlyAfterCall'
    BY <1>8 DEF WorkerDelete, DeleteRow
  <1>9. ASSUME NEW p \in Proc, CheckerSelect(p) PROVE DeletedOnlyAfterCall'
    BY <1>9 DEF CheckerSelect, Eligible
  <1>10. ASSUME NEW p \in Proc, CheckerCapture(p) PROVE DeletedOnlyAfterCall'
    BY <1>10 DEF CheckerCapture, CanCapture
  <1>11. ASSUME NEW p \in Proc, CheckerCall(p) PROVE DeletedOnlyAfterCall'
    BY <1>11 DEF CheckerCall
  <1>12. ASSUME NEW p \in Proc, CheckerReturn(p) PROVE DeletedOnlyAfterCall'
    BY <1>12 DEF CheckerReturn
  <1>13. ASSUME NEW p \in Proc, CheckerDelete(p) PROVE DeletedOnlyAfterCall'
    BY <1>13 DEF CheckerDelete, DeleteRow
  <1>14. ASSUME NEW p \in Proc, Stop(p) PROVE DeletedOnlyAfterCall'
    BY <1>14 DEF Stop
  <1>15. ASSUME NEW p \in Proc, Crash(p) PROVE DeletedOnlyAfterCall'
    BY <1>15 DEF Crash
  <1>16. ASSUME NEW p \in Proc, Start(p) PROVE DeletedOnlyAfterCall'
    BY <1>16 DEF Start
  <1>17. CASE UNCHANGED vars
    BY <1>17 DEF vars
  <1>18. ASSUME NEW j \in Job, WorkerCannotPrepare(j) PROVE DeletedOnlyAfterCall'
    BY <1>18 DEF WorkerCannotPrepare
  <1>19. ASSUME NEW p \in Proc, CheckerCannotPrepare(p) PROVE DeletedOnlyAfterCall'
    BY <1>19 DEF CheckerCannotPrepare
  <1> QED
    BY <1>1, <1>2, <1>3, <1>4, <1>5, <1>6, <1>7, <1>8, <1>9,
       <1>10, <1>11, <1>12, <1>13, <1>14, <1>15, <1>16, <1>17, <1>18, <1>19
    DEF Next, Worker, Checker
-----------------------------------------------------------------------------
\* The inductive invariant holds at first.
LEMMA InvInit == Init => IInv
  BY TypeInit DEF Init, IInv, HeldInRange, OvertakenIsSlow, FreshBeforeCapture,
     CapturedIsStored, CurrentInBatch, CalledInRange, ReturnedIsKnown,
     DistinctCaptures, OneCallPerCapture, DeletedOnlyAfterCall,
     WorkerHolds, CheckerHolds

\* Every step keeps the inductive invariant.
LEMMA InvNext == IInv /\ [Next]_vars => IInv'
  <1>1. IInv /\ [Next]_vars => TypeOK'
    BY TypeNext DEF IInv
  <1> QED
    BY <1>1, HeldInRangeNext, OvertakenIsSlowNext, FreshBeforeCaptureNext,
       CapturedIsStoredNext, CurrentInBatchNext, CalledInRangeNext,
       ReturnedIsKnownNext, DistinctCapturesNext, OneCallPerCaptureNext,
       DeletedOnlyAfterCallNext DEF IInv

\* The inductive invariant of the scheduler.
THEOREM Invariant == Spec => []IInv
  BY InvInit, InvNext, PTL DEF Spec

\* Of two threads that execute a job at the same time the older capture was
\* slow: both numbers are at most the current one, so one of them is overtaken.
THEOREM CapturesExclude == Spec => []ExclusiveCapture
  <1>1. IInv => ExclusiveCapture
    <2> SUFFICES ASSUME IInv, NEW j \in Job, NEW p \in Proc, CheckerHolds(p, j)
                 PROVE  /\ WorkerHolds(j) => Overtaken(copy[j], token[p][j])
                        /\ \A q \in Proc \ {p} : CheckerHolds(q, j)
                              => Overtaken(token[q][j], token[p][j])
      BY DEF ExclusiveCapture
    <2>1. token[p][j] = capturedAt[j] \/ token[p][j] <= MaxSlow
      BY DEF IInv, OvertakenIsSlow
    <2>2. WorkerHolds(j) => Overtaken(copy[j], token[p][j])
      BY <2>1 DEF IInv, OvertakenIsSlow, DistinctCaptures, Overtaken
    <2>3. ASSUME NEW q \in Proc \ {p}, CheckerHolds(q, j)
          PROVE  Overtaken(token[q][j], token[p][j])
      BY <2>1, <2>3 DEF IInv, OvertakenIsSlow, DistinctCaptures, Overtaken
    <2> QED  BY <2>2, <2>3
  <1> QED  BY <1>1, Invariant, PTL

\* One capture leads to at most one call of the target function.
THEOREM CallsOncePerCapture == Spec => []OneCallPerCapture
  <1>1. IInv => OneCallPerCapture
    BY DEF IInv
  <1> QED  BY <1>1, Invariant, PTL

\* A row is deleted only after a call of the job returned.
THEOREM DeletesAfterCall == Spec => []DeletedOnlyAfterCall
  <1>1. IInv => DeletedOnlyAfterCall
    BY DEF IInv
  <1> QED  BY <1>1, Invariant, PTL

\* A job whose row was rolled back was never captured, so never called.
THEOREM RolledBackNotCalled == Spec => []RolledBackNeverCalled
  <1>1. IInv => RolledBackNeverCalled
    <2> SUFFICES ASSUME IInv, NEW j \in Job, row[j] = "rolledback"
                 PROVE  called[j] = {}
      BY DEF RolledBackNeverCalled
    <2>1. capturedAt[j] = 0
      BY DEF IInv, CapturedIsStored
    <2> QED  BY <2>1 DEF IInv, CalledInRange
  <1> QED  BY <1>1, Invariant, PTL

\* Every capture finds the column empty or the former capture lapsed.
THEOREM RecapturesOnlyLapsed == Spec => RecaptureOnlyLapsed
  <1> DEFINE Fresh == \A j \in Job : capturedAt'[j] # capturedAt[j]
                                   => capturedAt[j] = 0 \/ j \in lapsed
  <1>1. IInv /\ [Next]_vars => Fresh
    <2> SUFFICES ASSUME IInv, [Next]_vars PROVE Fresh
      OBVIOUS
    <2> USE DEF IInv, TypeOK, storeVars
    <2>1. ASSUME NEW j \in Job, Caller(j) \/ Clock(j) PROVE Fresh
      BY <2>1 DEF Caller, Schedule, Commit, Rollback, EndTransaction,
         Clock, BecomeDue, BecomeLate, Lapse
    <2>2. ASSUME NEW j \in Job, Worker(j) PROVE Fresh
      BY <2>2 DEF Worker, Dispatch, WorkerCapture, CanCapture, WorkerLoses,
         WorkerCall, WorkerReturn, WorkerDelete, FreshBeforeCapture
    <2>3. ASSUME NEW p \in Proc, CheckerCapture(p) PROVE Fresh
      BY <2>3 DEF CheckerCapture, CanCapture, FreshBeforeCapture
    <2>4. ASSUME NEW p \in Proc, \/ CheckerSelect(p) \/ CheckerCall(p)
                                 \/ CheckerReturn(p) \/ CheckerDelete(p)
                                 \/ Stop(p) \/ Crash(p) \/ Start(p)
          PROVE  Fresh
      BY <2>4 DEF CheckerSelect, CheckerCall, CheckerReturn, CheckerDelete,
         Stop, Crash, Start
    <2>5. CASE UNCHANGED vars
      BY <2>5 DEF vars
    <2>6. ASSUME NEW j \in Job, WorkerCannotPrepare(j) PROVE Fresh
      BY <2>6 DEF WorkerCannotPrepare
    <2>7. ASSUME NEW p \in Proc, CheckerCannotPrepare(p) PROVE Fresh
      BY <2>7 DEF CheckerCannotPrepare
    <2> QED  BY <2>1, <2>2, <2>3, <2>4, <2>5, <2>6, <2>7 DEF Next, Checker
  <1>2. Fresh => [Fresh]_vars
    OBVIOUS
  <1> QED  BY <1>1, Invariant, PTL DEF Spec, RecaptureOnlyLapsed

-----------------------------------------------------------------------------
\* A thread that has called its job has left its mark in "called".
CallsMade ==
    /\ \A j \in Job : worker[j] \in {"running", "returned"} => called[j] # {}
    /\ \A p \in Proc : checker[p] \in {"running", "returned"} => called[current[p]] # {}
    /\ \A j \in Job : returned[j] => called[j] # {}

\* Every step keeps these marks.
LEMMA CallsMadeNext == IInv /\ CallsMade /\ [Next]_vars => CallsMade'
  <1> SUFFICES ASSUME TypeOK, CurrentInBatch, CallsMade, [Next]_vars
               PROVE  CallsMade'
    BY DEF IInv
  <1> USE SchedulerAssumption DEF TypeOK, RowState, WorkerState, CheckerState,
        storeVars, memoryVars, checkerVars, procVars, histVars,
        CallsMade, CurrentInBatch
  <1>1. ASSUME NEW j \in Job, Caller(j) PROVE CallsMade'
    BY <1>1 DEF Caller, Schedule, Commit, Rollback, EndTransaction
  <1>2. ASSUME NEW j \in Job, Clock(j) PROVE CallsMade'
    BY <1>2 DEF Clock, BecomeDue, BecomeLate, Lapse, Held
  <1>3. ASSUME NEW j \in Job, Dispatch(j) PROVE CallsMade'
    BY <1>3 DEF Dispatch
  <1>4. ASSUME NEW j \in Job, WorkerCapture(j) PROVE CallsMade'
    BY <1>4 DEF WorkerCapture, CanCapture
  <1>5. ASSUME NEW j \in Job, WorkerLoses(j) PROVE CallsMade'
    BY <1>5 DEF WorkerLoses
  <1>6. ASSUME NEW j \in Job, WorkerCall(j) PROVE CallsMade'
    BY <1>6 DEF WorkerCall
  <1>7. ASSUME NEW j \in Job, WorkerReturn(j) PROVE CallsMade'
    BY <1>7 DEF WorkerReturn
  <1>8. ASSUME NEW j \in Job, WorkerDelete(j) PROVE CallsMade'
    BY <1>8 DEF WorkerDelete, DeleteRow
  <1>9. ASSUME NEW p \in Proc, CheckerSelect(p) PROVE CallsMade'
    BY <1>9 DEF CheckerSelect, Eligible
  <1>10. ASSUME NEW p \in Proc, CheckerCapture(p) PROVE CallsMade'
    BY <1>10 DEF CheckerCapture, CanCapture
  <1>11. ASSUME NEW p \in Proc, CheckerCall(p) PROVE CallsMade'
    <2>1. PICK i \in selected[p] :
              /\ current' = [current EXCEPT ![p] = i]
              /\ called' = [called EXCEPT ![i] = @ \cup {token[p][i]}]
      BY <1>11 DEF CheckerCall
    <2>2. i \in Job /\ called'[i] # {}
      BY <2>1
    <2>3. \A j \in Job : called[j] # {} => called'[j] # {}
      BY <2>1
    <2>4. ASSUME NEW q \in Proc, checker'[q] \in {"running", "returned"}
          PROVE  called'[current'[q]] # {}
      <3>1. CASE q = p
        BY <2>1, <2>2, <3>1
      <3>2. CASE q # p
        <4>1. checker[q] = checker'[q] /\ current'[q] = current[q]
          BY <1>11, <2>1, <3>2 DEF CheckerCall
        <4>2. current[q] \in Job /\ called[current[q]] # {}
          BY <2>4, <4>1
        <4> QED  BY <2>3, <4>1, <4>2
      <3> QED  BY <3>1, <3>2
    <2>5. worker' = worker /\ returned' = returned
      BY <1>11 DEF CheckerCall
    <2> QED  BY <2>3, <2>4, <2>5
  <1>12. ASSUME NEW p \in Proc, CheckerReturn(p) PROVE CallsMade'
    BY <1>12 DEF CheckerReturn
  <1>13. ASSUME NEW p \in Proc, CheckerDelete(p) PROVE CallsMade'
    BY <1>13 DEF CheckerDelete, DeleteRow
  <1>14. ASSUME NEW p \in Proc, Stop(p) PROVE CallsMade'
    BY <1>14 DEF Stop
  <1>15. ASSUME NEW p \in Proc, Crash(p) PROVE CallsMade'
    BY <1>15 DEF Crash
  <1>16. ASSUME NEW p \in Proc, Start(p) PROVE CallsMade'
    BY <1>16 DEF Start
  <1>17. CASE UNCHANGED vars
    BY <1>17 DEF vars
  <1>18. ASSUME NEW j \in Job, WorkerCannotPrepare(j) PROVE CallsMade'
    BY <1>18 DEF WorkerCannotPrepare
  <1>19. ASSUME NEW p \in Proc, CheckerCannotPrepare(p) PROVE CallsMade'
    BY <1>19 DEF CheckerCannotPrepare
  <1> QED
    BY <1>1, <1>2, <1>3, <1>4, <1>5, <1>6, <1>7, <1>8, <1>9,
       <1>10, <1>11, <1>12, <1>13, <1>14, <1>15, <1>16, <1>17, <1>18, <1>19
    DEF Next, Worker, Checker

\* A row is deleted, or reported as returned, only after its call was made.
THEOREM CallsAreKnown == Spec => []CallsMade
  <1>1. Init => CallsMade
    BY DEF Init, CallsMade
  <1> QED  BY <1>1, CallsMadeNext, Invariant, PTL DEF Spec

\* The step of one job under the refinement mapping: its row goes through the
\* stages of the promise, and a call adds the number of its capture.
JobKeepsPromise(j) ==
    /\ \/ row'[j] = row[j]
       \/ row[j] = "none" /\ row'[j] = "pending"
       \/ row[j] = "pending" /\ row'[j] \in {"stored", "rolledback"}
       \/ row[j] = "stored" /\ row'[j] = "deleted" /\ called[j] # {}
    /\ \/ called'[j] = called[j]
       \/ /\ row[j] \in {"stored", "deleted"}
          /\ \E a \in called'[j] : called'[j] = called[j] \cup {a}

\* Every step of the scheduler is such a step for each of its jobs.
LEMMA StepKeepsPromise ==
    IInv /\ CallsMade /\ [Next]_vars => \A j \in Job : JobKeepsPromise(j)
  <1> SUFFICES ASSUME TypeOK, HeldInRange, CapturedIsStored, CurrentInBatch,
                      ReturnedIsKnown, CallsMade, [Next]_vars, NEW i \in Job
               PROVE  JobKeepsPromise(i)
    BY DEF IInv
  <1> USE SchedulerAssumption DEF TypeOK, RowState, WorkerState, CheckerState,
        storeVars, memoryVars, checkerVars, procVars, histVars,
        JobKeepsPromise
  <1>1. ASSUME NEW j \in Job, Caller(j) PROVE JobKeepsPromise(i)
    BY <1>1 DEF Caller, Schedule, Commit, Rollback, EndTransaction
  <1>2. ASSUME NEW j \in Job, Clock(j) PROVE JobKeepsPromise(i)
    BY <1>2 DEF Clock, BecomeDue, BecomeLate, Lapse, Held
  <1>3. ASSUME NEW j \in Job, Dispatch(j) PROVE JobKeepsPromise(i)
    BY <1>3 DEF Dispatch
  <1>4. ASSUME NEW j \in Job, WorkerCapture(j) PROVE JobKeepsPromise(i)
    BY <1>4 DEF WorkerCapture, CanCapture
  <1>5. ASSUME NEW j \in Job, WorkerLoses(j) PROVE JobKeepsPromise(i)
    BY <1>5 DEF WorkerLoses
  <1>6. ASSUME NEW j \in Job, WorkerCall(j) PROVE JobKeepsPromise(i)
    <2>1. capturedAt[j] # 0
      BY <1>6 DEF WorkerCall, HeldInRange, WorkerHolds
    <2>2. row[j] \in {"stored", "deleted"}
      BY <2>1 DEF CapturedIsStored
    <2>3. called' = [called EXCEPT ![j] = @ \cup {copy[j]}] /\ row' = row
      BY <1>6 DEF WorkerCall
    <2>4. copy[j] \in called'[j] /\ called'[j] = called[j] \cup {copy[j]}
      BY <2>3
    <2> QED  BY <2>2, <2>3, <2>4
  <1>7. ASSUME NEW j \in Job, WorkerReturn(j) PROVE JobKeepsPromise(i)
    BY <1>7 DEF WorkerReturn
  <1>8. ASSUME NEW j \in Job, WorkerDelete(j) PROVE JobKeepsPromise(i)
    <2>1. capturedAt[j] # 0 /\ called[j] # {}
      BY <1>8 DEF WorkerDelete, HeldInRange, WorkerHolds, CallsMade
    <2>2. row[j] \in {"stored", "deleted"}
      BY <2>1 DEF CapturedIsStored
    <2>3. row' = [row EXCEPT ![j] = "deleted"] /\ called' = called
      BY <1>8 DEF WorkerDelete, DeleteRow
    <2> QED  BY <2>1, <2>2, <2>3
  <1>9. ASSUME NEW p \in Proc, CheckerSelect(p) PROVE JobKeepsPromise(i)
    BY <1>9 DEF CheckerSelect, Eligible
  <1>10. ASSUME NEW p \in Proc, CheckerCapture(p) PROVE JobKeepsPromise(i)
    BY <1>10 DEF CheckerCapture, CanCapture
  <1>11. ASSUME NEW p \in Proc, CheckerCall(p) PROVE JobKeepsPromise(i)
    <2>1. PICK j \in selected[p] :
              called' = [called EXCEPT ![j] = @ \cup {token[p][j]}]
      BY <1>11 DEF CheckerCall
    <2>2. j \in Job /\ capturedAt[j] # 0 /\ row' = row
      BY <1>11, <2>1 DEF CheckerCall, HeldInRange, CheckerHolds
    <2>3. row[j] \in {"stored", "deleted"}
      BY <2>2 DEF CapturedIsStored
    <2>4. token[p][j] \in called'[j] /\ called'[j] = called[j] \cup {token[p][j]}
      BY <2>1, <2>2
    <2> QED  BY <2>1, <2>2, <2>3, <2>4
  <1>12. ASSUME NEW p \in Proc, CheckerReturn(p) PROVE JobKeepsPromise(i)
    BY <1>12 DEF CheckerReturn
  <1>13. ASSUME NEW p \in Proc, CheckerDelete(p) PROVE JobKeepsPromise(i)
    <2> DEFINE j == current[p]
    <2>1. j \in selected[p] /\ j \in Job /\ called[j] # {}
      BY <1>13 DEF CheckerDelete, CurrentInBatch, CallsMade
    <2>2. capturedAt[j] # 0
      BY <1>13, <2>1 DEF CheckerDelete, HeldInRange, CheckerHolds
    <2>3. row[j] \in {"stored", "deleted"}
      BY <2>1, <2>2 DEF CapturedIsStored
    <2>4. row' = [row EXCEPT ![j] = "deleted"] /\ called' = called
      BY <1>13 DEF CheckerDelete, DeleteRow
    <2> QED  BY <2>1, <2>3, <2>4
  <1>14. ASSUME NEW p \in Proc, Stop(p) PROVE JobKeepsPromise(i)
    BY <1>14 DEF Stop
  <1>15. ASSUME NEW p \in Proc, Crash(p) PROVE JobKeepsPromise(i)
    BY <1>15 DEF Crash
  <1>16. ASSUME NEW p \in Proc, Start(p) PROVE JobKeepsPromise(i)
    BY <1>16 DEF Start
  <1>17. CASE UNCHANGED vars
    BY <1>17 DEF vars
  <1>18. ASSUME NEW j \in Job, WorkerCannotPrepare(j) PROVE JobKeepsPromise(i)
    BY <1>18 DEF WorkerCannotPrepare
  <1>19. ASSUME NEW p \in Proc, CheckerCannotPrepare(p) PROVE JobKeepsPromise(i)
    BY <1>19 DEF CheckerCannotPrepare
  <1> QED
    BY <1>1, <1>2, <1>3, <1>4, <1>5, <1>6, <1>7, <1>8, <1>9,
       <1>10, <1>11, <1>12, <1>13, <1>14, <1>15, <1>16, <1>17, <1>18, <1>19
    DEF Next, Worker, Checker

\* The default scheduler implements the promise of a scheduler.
THEOREM ImplementsPromise == Spec => KeepsPromise
  <1>1. Init => Promise!Init
    BY DEF Init, Promise!Init, StageOf
  <1>2. IInv /\ IInv' /\ CallsMade /\ [Next]_vars
          => [Promise!Next]_<<[j \in Job |-> StageOf[row[j]]], called>>
    <2> SUFFICES ASSUME IInv, IInv', CallsMade, [Next]_vars PROVE Promise!Next
      OBVIOUS
    <2> DEFINE stageOf == [j \in Job |-> StageOf[row[j]]]
    <2>1. \A j \in Job : JobKeepsPromise(j)
      BY StepKeepsPromise
    <2>2. row \in [Job -> RowState] /\ row' \in [Job -> RowState]
      BY DEF IInv, TypeOK
    <2>3. stageOf' \in [Job -> Promise!Stage]
      BY <2>2 DEF StageOf, RowState, Promise!Stage
    <2>4. called' \in [Job -> SUBSET (Nat \ {0})]
      <3>1. called' \in [Job -> SUBSET Nat] /\ capturedAt' \in [Job -> Nat]
        BY DEF IInv, TypeOK
      <3>2. \A j \in Job : called'[j] \subseteq 1..capturedAt'[j]
        BY DEF IInv, CalledInRange
      <3> QED  BY <3>1, <3>2
    <2>5. ASSUME NEW j \in Job
          PROVE  Promise!Moves(j) /\ Promise!Calls(j)
      <3>1. JobKeepsPromise(j)
        BY <2>1
      <3>2. Promise!Moves(j)
        BY <2>2, <3>1 DEF JobKeepsPromise, Promise!Moves, StageOf, RowState
      <3>3. Promise!Calls(j)
        BY <2>2, <3>1 DEF JobKeepsPromise, Promise!Calls, StageOf, RowState
      <3> QED  BY <3>2, <3>3
    <2> QED  BY <2>3, <2>4, <2>5 DEF Promise!Next
  <1> QED  BY <1>1, <1>2, Invariant, CallsAreKnown, PTL DEF Spec, KeepsPromise, Promise!Spec

-----------------------------------------------------------------------------
(* The requests to refresh a join.                                          *)

\* A request that was made is handled by a process, and one that is scheduling has
\* a job.
RequestsPlaced ==
    \A r \in Request : /\ request[r] # "none" => engine[r] \in Proc
                       /\ request[r] = "scheduling" => job[r] \in Job

\* Without failures every process is up, and nothing is lost with one.
NothingDied ==
    failures = 0 => /\ \A p \in Proc : up[p] = "up"
                   /\ \A r \in Request : request[r] # "lost"

\* What a checker has selected was late, and is for good.
SelectedIsLate ==
    /\ \A j \in Job : row[j] = "none" => phase[j] = "early"
    /\ \A p \in Proc, j \in Job : j \in selected[p] => phase[j] = "late"

\* A job that was neither finished nor called yet: its call is still to come.
Awaits(j) == row[j] \in {"pending", "stored"} /\ called[j] = {}

\* Undisturbed, a job that memory believes to be free awaits its call: no checker
\* takes a job from a memory that keeps up.
MemoryIsRight ==
    Undisturbed => \A j \in memory : /\ phase[j] # "late"
                                     /\ copy[j] = 0 => Awaits(j) /\ capturedAt[j] = 0

\* Undisturbed, as long as a request that is done was not seen the call of some job
\* is to come.
CallIsToCome ==
    Undisturbed => \A r \in Request :
        (request[r] = "done" /\ r \notin covered) => \E j \in Job : Awaits(j)

\* The inductive invariant.
RefreshKept ==
    /\ RefreshTypeOK /\ IInv /\ CallsMade
    /\ RequestsPlaced /\ NothingDied /\ SelectedIsLate /\ MemoryIsRight /\ CallIsToCome

-----------------------------------------------------------------------------
\* Every step is one of the scheduler, or leaves it alone.
LEMMA StepOfScheduler ==
    ASSUME RefreshTypeOK, RequestsPlaced, [RefreshNext]_refreshVars
    PROVE  [Next]_vars
  <1> USE DEF vars
  <1>0. world.deployed \subseteq Proc
    BY RefreshAssumption DEF RefreshTypeOK, World
  <1>1. ASSUME NEW r \in Request, RequestNext(r) PROVE [Next]_vars
    <2>1. CASE SkipScheduling(r)
      BY <2>1 DEF SkipScheduling
    <2>2. CASE ScheduleRefresh(r)
      <3>1. engine[r] \in Proc
        BY <2>2 DEF ScheduleRefresh, RequestsPlaced
      <3>2. PICK j \in Job : Schedule(engine[r], j)
        BY <2>2 DEF ScheduleRefresh
      <3> QED BY <3>1, <3>2 DEF Next, Caller
    <2>3. CASE CommitRefresh(r)
      BY <2>3 DEF CommitRefresh, RequestsPlaced, Next, Caller
    <2>4. CASE RetryRefresh(r)
      BY <2>4 DEF RetryRefresh, RequestsPlaced, Next, Caller
    <2> QED BY <1>1, <2>1, <2>2, <2>3, <2>4 DEF RequestNext
  <1>2. ASSUME NEW r \in Request, NEW p \in world.deployed, CompleteUpstream(r, p)
        PROVE  [Next]_vars
    BY <1>2 DEF CompleteUpstream
  <1>3. ASSUME NEW j \in Job, RefreshClock(j) \/ RefreshWorker(j) PROVE [Next]_vars
    BY <1>3 DEF RefreshClock, RefreshWorker, Next, Clock, Worker
  <1>4. ASSUME NEW j \in Job, CallRefresh(j) PROVE [Next]_vars
    BY <1>0, <1>4 DEF CallRefresh, Call, Next, Worker, Checker
  <1>5. ASSUME NEW p \in world.deployed, RefreshChecker(p) \/ EngineCrash(p) \/ EngineStart(p)
        PROVE  [Next]_vars
    BY <1>0, <1>5 DEF RefreshChecker, EngineCrash, EngineStart, Next, Checker
  <1>6. CASE UNCHANGED refreshVars
    BY <1>6 DEF refreshVars
  <1>7. CASE CannotPrepare
    BY <1>0, <1>7 DEF CannotPrepare, Next
  <1> QED BY <1>1, <1>2, <1>3, <1>4, <1>5, <1>6, <1>7 DEF RefreshNext

\* What a step does to requests: their types, and who handles them.
LEMMA RequestsKept ==
    ASSUME RefreshTypeOK, RequestsPlaced, NothingDied, TypeOK', [RefreshNext]_refreshVars
    PROVE  RefreshTypeOK' /\ RequestsPlaced' /\ NothingDied'
  <1> USE RefreshAssumption, SchedulerAssumption
      DEF RefreshTypeOK, RequestsPlaced, NothingDied, RequestState, requestVars
  <1> DEFINE Goal == RefreshTypeOK' /\ RequestsPlaced' /\ NothingDied'
  <1>0. world.deployed \subseteq Proc
    BY DEF World
  <1>1. ASSUME NEW r \in Request, RequestNext(r) PROVE Goal
    <2>1. CASE SkipScheduling(r)
      BY <2>1 DEF SkipScheduling, vars, procVars
    <2>2. CASE ScheduleRefresh(r)
      BY <2>2 DEF ScheduleRefresh, Schedule, procVars
    <2>3. CASE CommitRefresh(r)
      BY <2>3 DEF CommitRefresh, Commit, EndTransaction, procVars
    <2>4. CASE RetryRefresh(r)
      BY <2>4 DEF RetryRefresh, Rollback, EndTransaction, procVars
    <2> QED BY <1>1, <2>1, <2>2, <2>3, <2>4 DEF RequestNext
  <1>2. ASSUME NEW r \in Request, NEW p \in world.deployed, CompleteUpstream(r, p) PROVE Goal
    BY <1>0, <1>2 DEF CompleteUpstream, vars, procVars
  <1>3. ASSUME NEW j \in Job, RefreshClock(j) PROVE Goal
    BY <1>3 DEF RefreshClock, BecomeDue, BecomeLate, Lapse, procVars
  <1>4. ASSUME NEW j \in Job, RefreshWorker(j) PROVE Goal
    BY <1>4 DEF RefreshWorker, Dispatch, WorkerCapture, WorkerLoses, WorkerReturn,
       WorkerDelete, procVars
  <1>5. ASSUME NEW j \in Job, CallRefresh(j) PROVE Goal
    <2>1. UNCHANGED <<up, failures, request, engine, job, rollbacks, world>>
      BY <1>5 DEF CallRefresh, Call, WorkerCall, CheckerCall, procVars
    <2>2. covered' \in SUBSET Request
      BY <1>5 DEF CallRefresh, Refresh
    <2> QED BY <2>1, <2>2
  <1>6. ASSUME NEW p \in world.deployed, RefreshChecker(p) PROVE Goal
    BY <1>6 DEF RefreshChecker, CheckerSelect, CheckerCapture, CheckerReturn, CheckerDelete,
       procVars
  <1>7. ASSUME NEW p \in world.deployed, EngineCrash(p) PROVE Goal
    <2>1. failures' # 0
      BY <1>0, <1>7 DEF EngineCrash, Crash, TypeOK
    <2>2. \A r \in Request : \/ request'[r] = request[r]
                             \/ request'[r] = "lost" /\ request[r] # "none"
      BY <1>7 DEF EngineCrash
    <2>3. request' \in [Request -> RequestState]
      BY <1>7 DEF EngineCrash
    <2> QED BY <1>7, <2>1, <2>2, <2>3 DEF EngineCrash
  <1>8. ASSUME NEW p \in world.deployed, EngineStart(p) PROVE Goal
    BY <1>0, <1>8 DEF EngineStart, Start, TypeOK
  <1>9. CASE UNCHANGED refreshVars
    BY <1>9 DEF refreshVars, vars, procVars
  <1>10. CASE CannotPrepare
    <2>1. failures' # 0
      BY <1>10 DEF CannotPrepare, WorkerCannotPrepare, CheckerCannotPrepare, TypeOK
    <2> QED BY <1>10, <2>1 DEF CannotPrepare
  <1> QED BY <1>1, <1>2, <1>3, <1>4, <1>5, <1>6, <1>7, <1>8, <1>9, <1>10 DEF RefreshNext

\* Batches are late: of rows that exist, and none becomes early again.
LEMMA SelectedIsLateNext ==
    ASSUME TypeOK, SelectedIsLate, [Next]_vars
    PROVE  SelectedIsLate'
  <1> USE SchedulerAssumption DEF TypeOK, SelectedIsLate, RowState, Phase,
        storeVars, memoryVars, checkerVars, procVars, histVars
  <1>1. ASSUME NEW j \in Job, Caller(j) \/ Clock(j) PROVE SelectedIsLate'
    BY <1>1 DEF Caller, Schedule, Commit, Rollback, EndTransaction, Clock, BecomeDue,
       BecomeLate, Lapse
  <1>2. ASSUME NEW j \in Job, Worker(j) PROVE SelectedIsLate'
    BY <1>2 DEF Worker, Dispatch, WorkerCapture, WorkerLoses, WorkerCall, WorkerReturn,
       WorkerDelete, DeleteRow
  <1>3. ASSUME NEW p \in Proc, CheckerSelect(p) PROVE SelectedIsLate'
    BY <1>3 DEF CheckerSelect, Eligible
  <1>4. ASSUME NEW p \in Proc, CheckerCapture(p) PROVE SelectedIsLate'
    BY <1>4 DEF CheckerCapture
  <1>5. ASSUME NEW p \in Proc, CheckerCall(p) \/ CheckerReturn(p) PROVE SelectedIsLate'
    BY <1>5 DEF CheckerCall, CheckerReturn
  <1>6. ASSUME NEW p \in Proc, CheckerDelete(p) PROVE SelectedIsLate'
    BY <1>6 DEF CheckerDelete, DeleteRow
  <1>7. ASSUME NEW p \in Proc, Stop(p) \/ Crash(p) \/ Start(p) PROVE SelectedIsLate'
    BY <1>7 DEF Stop, Crash, Start
  <1>8. CASE UNCHANGED vars
    BY <1>8 DEF vars
  <1>9. ASSUME NEW j \in Job, WorkerCannotPrepare(j) PROVE SelectedIsLate'
    BY <1>9 DEF WorkerCannotPrepare
  <1>10. ASSUME NEW p \in Proc, CheckerCannotPrepare(p) PROVE SelectedIsLate'
    BY <1>10 DEF CheckerCannotPrepare
  <1> QED BY <1>1, <1>2, <1>3, <1>4, <1>5, <1>6, <1>7, <1>8, <1>9, <1>10 DEF Next, Checker

\* What is not captured was not called, and only what was called is deleted.
LEMMA NotCapturedNotCalled ==
    ASSUME IInv, NEW j \in Job, capturedAt[j] = 0 \/ row[j] \in {"none", "pending"}
    PROVE  called[j] = {} /\ capturedAt[j] = 0 /\ ~WorkerHolds(j)
           /\ \A p \in Proc : ~CheckerHolds(p, j)
  <1>1. capturedAt[j] = 0
    BY DEF IInv, CapturedIsStored
  <1>2. called[j] \subseteq 1..0
    BY <1>1 DEF IInv, CalledInRange
  <1>3. 1..0 = {}
    OBVIOUS
  <1> QED BY <1>1, <1>2, <1>3 DEF IInv, HeldInRange

\* Without a disturbance none is behind, and the step is none.
LEMMA StaysCalm ==
    ASSUME RefreshTypeOK, NothingDied, [RefreshNext]_refreshVars, Undisturbed'
    PROVE  /\ Undisturbed
           /\ \A r \in Request : ~RetryRefresh(r)
           /\ \A p \in world.deployed : ~EngineCrash(p)
           /\ ~CannotPrepare
  <1> USE DEF Undisturbed, requestVars, procVars
  <1>0. /\ world.deployed \subseteq Proc /\ rollbacks \in Nat /\ failures \in Nat
    BY RefreshAssumption DEF RefreshTypeOK, World, TypeOK
  <1>1. world' = world /\ rollbacks' \in {rollbacks, rollbacks + 1}
    BY DEF RefreshNext, RequestNext, SkipScheduling, ScheduleRefresh, CommitRefresh,
       RetryRefresh, CompleteUpstream, RefreshClock, RefreshWorker, CallRefresh,
       RefreshChecker, EngineCrash, EngineStart, CannotPrepare, refreshVars
  <1>2. ASSUME NEW r \in Request, RetryRefresh(r) PROVE FALSE
    BY <1>0, <1>2 DEF RetryRefresh
  <1>3. ASSUME NEW p \in world.deployed, EngineCrash(p) PROVE FALSE
    <2>1. failures' = failures + 1 \/ (up[p] = "stopped" /\ failures' = failures)
      BY <1>3 DEF EngineCrash, Crash
    <2> QED BY <1>0, <2>1 DEF NothingDied
  <1>4. ASSUME CannotPrepare PROVE FALSE
    BY <1>0, <1>4 DEF CannotPrepare, WorkerCannotPrepare, CheckerCannotPrepare
  <1>5. failures = 0
    <2>1. CASE \E r \in Request : RequestNext(r) \/ \E p \in world.deployed : CompleteUpstream(r, p)
      BY <2>1 DEF RequestNext, SkipScheduling, ScheduleRefresh, Schedule, CommitRefresh,
         Commit, EndTransaction, RetryRefresh, Rollback, CompleteUpstream, vars
    <2>2. CASE \E j \in Job : RefreshClock(j) \/ RefreshWorker(j) \/ CallRefresh(j)
      BY <2>2 DEF RefreshClock, BecomeDue, BecomeLate, Lapse, RefreshWorker, Dispatch,
         WorkerCapture, WorkerLoses, WorkerReturn, WorkerDelete, CallRefresh, Call,
         WorkerCall, CheckerCall
    <2>3. CASE \E p \in world.deployed : RefreshChecker(p) \/ EngineStart(p)
      BY <2>3 DEF RefreshChecker, CheckerSelect, CheckerCapture, CheckerReturn,
         CheckerDelete, EngineStart, Start
    <2>4. CASE UNCHANGED refreshVars
      BY <2>4 DEF refreshVars, vars
    <2> QED BY <1>3, <1>4, <2>1, <2>2, <2>3, <2>4 DEF RefreshNext
  <1> QED BY <1>0, <1>1, <1>2, <1>3, <1>4, <1>5

\* Undisturbed, the memory stays right, and a job awaits its call until it is made.
LEMMA CalmNext ==
    ASSUME RefreshTypeOK, IInv, CallsMade, RequestsPlaced, NothingDied, SelectedIsLate,
           MemoryIsRight, [RefreshNext]_refreshVars, Undisturbed'
    PROVE  /\ MemoryIsRight'
           /\ \/ \A j \in Job : Awaits(j) => Awaits(j)'
              \/ \E j \in Job : CallRefresh(j)
  <1> USE SchedulerAssumption
      DEF RefreshTypeOK, TypeOK, SelectedIsLate, Awaits, RowState, Phase,
          storeVars, memoryVars, checkerVars, procVars, histVars
  <1>0. /\ world.deployed \subseteq Proc /\ Undisturbed
        /\ \A j \in memory : j \in Job /\ phase[j] # "late"
                             /\ (copy[j] = 0 => Awaits(j) /\ capturedAt[j] = 0)
        /\ \A p \in Proc, j \in memory : j \notin selected[p]
        /\ \A j \in Job : (capturedAt[j] = 0 \/ row[j] \in {"none", "pending"}) =>
              called[j] = {} /\ capturedAt[j] = 0 /\ ~WorkerHolds(j)
    BY StaysCalm, NotCapturedNotCalled, RefreshAssumption DEF MemoryIsRight, World
  <1> DEFINE Right == \A j \in memory' : /\ phase'[j] # "late"
                                         /\ copy'[j] = 0 => Awaits(j)' /\ capturedAt'[j] = 0
             Keeps == \A j \in Job : Awaits(j) => Awaits(j)'
             Goal  == Right /\ (Keeps \/ \E j \in Job : CallRefresh(j))
  <1>1. ASSUME UNCHANGED vars PROVE Goal
    BY <1>0, <1>1 DEF vars
  <1>2. ASSUME NEW r \in Request, ScheduleRefresh(r) PROVE Goal
    <2>1. PICK j \in Job : Schedule(engine[r], j)
      BY <1>2 DEF ScheduleRefresh
    <2> QED BY <1>0, <2>1 DEF Schedule
  <1>3. ASSUME NEW r \in Request, CommitRefresh(r) PROVE Goal
    BY <1>0, <1>3 DEF CommitRefresh, Commit, EndTransaction, RequestsPlaced
  <1>4. ASSUME NEW j \in Job, RefreshClock(j) PROVE Goal
    BY <1>0, <1>4 DEF RefreshClock, BecomeDue, BecomeLate, Lapse, Undisturbed
  <1>5. ASSUME NEW j \in Job, RefreshWorker(j) PROVE Goal
    <2>1. CASE Dispatch(j) \/ WorkerLoses(j) \/ WorkerReturn(j)
      BY <1>0, <2>1 DEF Dispatch, WorkerLoses, WorkerReturn
    <2>2. CASE WorkerCapture(j)
      BY <1>0, <2>2 DEF WorkerCapture, CanCapture
    <2>3. CASE WorkerDelete(j)
      <3>1. called[j] # {}
        BY <2>3 DEF WorkerDelete, CallsMade
      <3> QED BY <1>0, <2>3, <3>1 DEF WorkerDelete, DeleteRow
    <2> QED BY <1>5, <2>1, <2>2, <2>3 DEF RefreshWorker
  <1>6. ASSUME NEW j \in Job, CallRefresh(j) PROVE Goal
    <2>1. CASE WorkerCall(j)
      <3>1. capturedAt[j] # 0
        BY <1>0, <2>1 DEF WorkerCall, WorkerHolds
      <3>2. j \in memory => copy[j] # 0
        BY <1>0, <3>1
      <3>3. Right
        BY <1>0, <2>1, <3>2 DEF WorkerCall
      <3> QED BY <1>6, <3>3
    <2>2. CASE \E p \in world.deployed : CheckerCall(p)
      <3>1. PICK p \in Proc : CheckerCall(p)
        BY <1>0, <2>2
      <3>2. PICK i \in selected[p] : called' = [called EXCEPT ![i] = @ \cup {token[p][i]}]
        BY <3>1 DEF CheckerCall
      <3>3. Right
        BY <1>0, <3>1, <3>2 DEF CheckerCall
      <3> QED BY <1>6, <3>3
    <2> QED BY <1>6, <2>1, <2>2 DEF CallRefresh, Call
  <1>7. ASSUME NEW p \in world.deployed, RefreshChecker(p) PROVE Goal
    <2>0. p \in Proc
      BY <1>0
    <2>1. CASE CheckerSelect(p) \/ CheckerReturn(p)
      BY <1>0, <2>1 DEF CheckerSelect, CheckerReturn
    <2>2. CASE CheckerCapture(p)
      BY <1>0, <2>0, <2>2 DEF CheckerCapture
    <2>3. CASE CheckerDelete(p)
      <3>1. current[p] \in selected[p] /\ called[current[p]] # {}
        BY <2>0, <2>3 DEF CheckerDelete, CallsMade, IInv, CurrentInBatch
      <3> QED BY <1>0, <2>0, <2>3, <3>1 DEF CheckerDelete, DeleteRow
    <2> QED BY <1>7, <2>1, <2>2, <2>3 DEF RefreshChecker
  <1>8. ASSUME NEW p \in world.deployed, EngineStart(p) PROVE Goal
    BY <1>0, <1>8 DEF EngineStart, Start
  <1>9. Goal
    <2>1. ASSUME NEW r \in Request, RequestNext(r) PROVE Goal
      <3>1. ~RetryRefresh(r)
        BY StaysCalm
      <3>2. CASE SkipScheduling(r)
        BY <1>1, <3>2 DEF SkipScheduling
      <3> QED BY <1>2, <1>3, <2>1, <3>1, <3>2 DEF RequestNext
    <2>2. ASSUME NEW r \in Request, NEW p \in world.deployed, CompleteUpstream(r, p) PROVE Goal
      BY <1>1, <2>2 DEF CompleteUpstream
    <2>3. CASE UNCHANGED refreshVars
      BY <1>1, <2>3 DEF refreshVars
    <2>4. ~CannotPrepare /\ \A p \in world.deployed : ~EngineCrash(p)
      BY StaysCalm
    <2> QED BY <1>4, <1>5, <1>6, <1>7, <1>8, <2>1, <2>2, <2>3, <2>4 DEF RefreshNext
  <1> QED BY <1>9 DEF MemoryIsRight

\* Undisturbed, a request becomes done only while a call is to come, and a call sees
\* every request that was made.
LEMMA CallIsToComeNext ==
    ASSUME RefreshKept, [RefreshNext]_refreshVars
    PROVE  CallIsToCome'
  <1> USE DEF RefreshKept, RefreshTypeOK
  <1> SUFFICES ASSUME Undisturbed', NEW r \in Request,
                      request'[r] = "done", r \notin covered'
               PROVE  (\E j \in Job : Awaits(j))'
    BY DEF CallIsToCome
  <1>0. /\ Undisturbed /\ MemoryIsRight
        /\ \/ \A j \in Job : Awaits(j) => Awaits(j)'
           \/ \E j \in Job : CallRefresh(j)
        /\ ~CannotPrepare /\ \A p \in world.deployed : ~EngineCrash(p)
    BY CalmNext, StaysCalm
  <1>1. ~\E j \in Job : CallRefresh(j)
    BY DEF CallRefresh, Refresh
  <1>2. CASE request[r] = "done"
    <2>1. covered' = covered
      BY <1>1 DEF RefreshNext, RequestNext, SkipScheduling, ScheduleRefresh, CommitRefresh,
         RetryRefresh, CompleteUpstream, RefreshClock, RefreshWorker, RefreshChecker,
         EngineCrash, EngineStart, CannotPrepare, refreshVars, requestVars
    <2> QED BY <1>0, <1>1, <1>2, <2>1 DEF CallIsToCome
  <1>3. CASE request[r] # "done"
    <2>1. SkipScheduling(r) \/ CommitRefresh(r)
      <3> HIDE DEF RefreshKept
      <3>0. request \in [Request -> RequestState]
        BY DEF RefreshKept
      <3>1. ASSUME NEW q \in Request, RequestNext(q) PROVE SkipScheduling(r) \/ CommitRefresh(r)
        <4>1. ~ScheduleRefresh(q) /\ ~RetryRefresh(q)
          BY <1>3, <3>0 DEF ScheduleRefresh, RetryRefresh
        <4>2. SkipScheduling(q) \/ CommitRefresh(q)
          BY <3>1, <4>1 DEF RequestNext
        <4>3. q = r
          BY <1>3, <3>0, <4>2 DEF SkipScheduling, CommitRefresh
        <4> QED BY <4>2, <4>3
      <3>2. CASE \E q \in Request, p \in world.deployed : CompleteUpstream(q, p)
        BY <1>3, <3>2 DEF CompleteUpstream
      <3>3. CASE \E j \in Job : RefreshClock(j)
        BY <1>3, <3>3 DEF RefreshClock, requestVars
      <3>4. CASE \E j \in Job : RefreshWorker(j)
        BY <1>1, <1>3, <3>4 DEF RefreshWorker, requestVars
      <3>5. CASE \E p \in world.deployed : RefreshChecker(p)
        BY <1>1, <1>3, <3>5 DEF RefreshChecker, requestVars
      <3>6. CASE \E p \in world.deployed : EngineStart(p)
        BY <1>3, <3>6 DEF EngineStart, requestVars
      <3>7. CASE UNCHANGED refreshVars
        BY <1>3, <3>7 DEF refreshVars, requestVars
      <3>8. RefreshNext \/ UNCHANGED refreshVars
        OBVIOUS
      <3> HIDE DEF RefreshTypeOK, refreshVars
      <3>9. CASE RefreshNext
        <4>1. ASSUME NEW j \in Job, RefreshClock(j) \/ RefreshWorker(j) \/ CallRefresh(j)
              PROVE  SkipScheduling(r) \/ CommitRefresh(r)
          BY <1>1, <3>3, <3>4, <4>1, Zenon
        <4>2. ASSUME NEW p \in world.deployed,
                     RefreshChecker(p) \/ EngineCrash(p) \/ EngineStart(p)
              PROVE  SkipScheduling(r) \/ CommitRefresh(r)
          BY <1>0, <3>5, <3>6, <4>2, Zenon
        <4> QED BY <1>0, <3>1, <3>2, <3>9, <4>1, <4>2, Zenon DEF RefreshNext
      <3> QED BY <3>7, <3>8, <3>9, Zenon
    <2>2. CASE SkipScheduling(r)
      <3>1. HasScheduledJobs(engine[r], Job, FALSE)
        BY <2>2 DEF SkipScheduling
      <3>2. CASE \E j \in Job \cap memory : (copy[j] # 0) = FALSE
        BY <1>0, <1>1, <3>2 DEF MemoryIsRight
      <3>3. CASE \E j \in Job : row[j] = "stored" /\ (capturedAt[j] # 0) = FALSE
        BY <1>0, <1>1, <3>3, NotCapturedNotCalled DEF Awaits
      <3> QED BY <3>1, <3>2, <3>3 DEF HasScheduledJobs
    <2>3. CASE CommitRefresh(r)
      <3>1. job[r] \in Job /\ row[job[r]] = "pending"
        BY <2>3 DEF CommitRefresh, Commit, EndTransaction, RequestsPlaced
      <3>2. Awaits(job[r])
        BY <3>1, NotCapturedNotCalled DEF Awaits
      <3> QED BY <1>0, <1>1, <3>1, <3>2
    <2> QED BY <2>1, <2>2, <2>3
  <1> QED BY <1>2, <1>3

-----------------------------------------------------------------------------
\* The requests run on the scheduler as it is specified: with crashes, retries and
\* lapses, every behaviour is one of DefaultScheduler.
THEOREM RefreshIsScheduled == RefreshSpec => Spec
  <1> DEFINE Placed == RefreshTypeOK /\ RequestsPlaced /\ NothingDied
  <1>1. RefreshInit => Init /\ Placed
    BY TypeInit, SchedulerAssumption DEF RefreshInit, RefreshTypeOK, RequestState,
       RequestsPlaced, NothingDied, Init
  <1>2. Placed /\ [RefreshNext]_refreshVars => [Next]_vars /\ Placed'
    BY StepOfScheduler, RequestsKept, TypeNext DEF RefreshTypeOK
  <1> QED BY <1>1, <1>2, PTL DEF RefreshSpec, Spec

\* The invariant of the requests.
THEOREM RefreshInvariant == RefreshSpec => []RefreshKept
  <1>1. RefreshInit => RefreshKept
    <2> SUFFICES ASSUME RefreshInit PROVE RefreshKept
      OBVIOUS
    <2>1. Init /\ IInv /\ TypeOK
      BY InvInit DEF RefreshInit, IInv
    <2>2. RefreshTypeOK /\ RequestsPlaced
      BY <2>1 DEF RefreshInit, RefreshTypeOK, RequestState, RequestsPlaced
    <2>3. CallsMade /\ NothingDied /\ SelectedIsLate /\ MemoryIsRight /\ CallIsToCome
      BY <2>1 DEF RefreshInit, Init, CallsMade, NothingDied, SelectedIsLate, MemoryIsRight,
         CallIsToCome
    <2> QED BY <2>1, <2>2, <2>3 DEF RefreshKept
  <1>2. RefreshKept /\ [RefreshNext]_refreshVars => RefreshKept'
    <2> SUFFICES ASSUME RefreshKept, [RefreshNext]_refreshVars PROVE RefreshKept'
      OBVIOUS
    <2> USE DEF RefreshKept
    <2>1. [Next]_vars
      BY StepOfScheduler
    <2>2. IInv' /\ CallsMade'
      BY <2>1, InvNext, CallsMadeNext
    <2>3. TypeOK /\ TypeOK'
      BY <2>2 DEF IInv
    <2>4. RefreshTypeOK' /\ RequestsPlaced' /\ NothingDied'
      BY <2>3, RequestsKept
    <2>5. SelectedIsLate'
      BY <2>1, <2>3, SelectedIsLateNext
    <2>6. MemoryIsRight'
      BY CalmNext DEF MemoryIsRight
    <2>7. CallIsToCome'
      BY CallIsToComeNext
    <2> QED BY <2>2, <2>4, <2>5, <2>6, <2>7
  <1> QED BY <1>1, <1>2, PTL DEF RefreshSpec

\* No completed upstream task is forgotten: as long as no refresh has seen it, a job
\* that has not finished exists or an operation that will schedule one
\* (TaskHandler._check_affected_tasks, _schedule_if_needed), unless a process died, a
\* transaction was retried, or a job was late while it was still in memory.
THEOREM RefreshSafety == RefreshSpec => []RefreshInv
  <1>1. RefreshKept => RefreshInv
    BY DEF RefreshKept, RefreshInv, NoLostRefresh, NothingDied, CallIsToCome, Awaits,
       Undisturbed
  <1> QED BY <1>1, RefreshInvariant, PTL
-----------------------------------------------------------------------------
(* With-items tasks.                                                        *)

RunningOf(es) == {k \in DOMAIN es : es[k].state = "RUNNING"}

\* A kind of task that may have several iterations.
Repeats == mode.retry > 0 \/ mode.rerun # "none"

\* The first b of es are of former iterations, all items of which have run; the others
\* are of the present one.
Iteration(es, b) ==
    /\ b \in 0..Len(es) /\ Len(es) - b <= mode.count
    /\ \A k \in 1..b : ~es[k].accepted /\ es[k].state \in Completed
    /\ \A k \in (b + 1)..Len(es) : /\ es[k].accepted <=> es[k].state # "RUNNING"
                                   /\ es[k].index = k - b - 1
    /\ b > 0 => Repeats /\ {es[k].index : k \in 1..b} = From(0)

\* Before the first item.
NotStarted ==
    /\ task = "IDLE" /\ execs = <<>> /\ jobs = {} /\ continues = 0 /\ ~restart
    /\ retryNo = 0 /\ ~broken /\ ~timer /\ capacity = mode.concurrency

\* Items run, or their jobs are to come.
Iterating(b) ==
    /\ task = "RUNNING" /\ continues = 0 /\ ~restart /\ ~broken
    /\ b > 0 /\ mode.concurrency # 1 => Len(execs) - b = mode.count
    /\ mode.concurrency > 0 =>
          capacity + Cardinality(RunningOf(execs)) + Cardinality(jobs) = mode.concurrency

\* The retry policy waits to run all items again.
Delayed(b) ==
    /\ task = "DELAYED" /\ continues = 1 /\ ~restart /\ ~broken /\ mode.retry > 0
    /\ b = Len(execs) /\ b > 0
    /\ mode.concurrency > 0 => jobs = {} /\ capacity = mode.concurrency

\* All items ran, and nothing of them is left.
AllRan(b) ==
    /\ Len(execs) - b = mode.count /\ RunningOf(execs) = {}
    /\ mode.concurrency > 0 => jobs = {} /\ capacity = mode.concurrency

Ended(b) ==
    /\ task \in Completed /\ continues = 0
    /\ restart => task = "ERROR" /\ mode.rerun = "reset"
    /\ task = "SUCCESS" => AllRan(b) /\ \A k \in Accepted(execs) : execs[k].state = "SUCCESS"
    /\ task = "ERROR" /\ ~broken => AllRan(b) /\ Ends(execs, "ERROR") /\ retryNo = 0
    /\ task = "CANCELLED" => Ends(execs, "CANCELLED")

\* The inductive invariant.
ItemsKept ==
    /\ ItemsTypeOK /\ mode \in Modes
    /\ \A k \in jobs : execs[k].state # "RUNNING"
    /\ broken => mode.timeout \/ mode.badItem
    /\ timer => mode.timeout
    /\ mode.concurrency > 0 => Cardinality(RunningOf(execs)) <= mode.concurrency
    /\ \E b \in 0..Len(execs) : /\ Iteration(execs, b)
                                /\ NotStarted \/ Iterating(b) \/ Delayed(b) \/ Ended(b)
-----------------------------------------------------------------------------
(* What the task computes from its executions.                              *)

\* A kind of task is within the bounds, and so are the items it may run.
LEMMA Bounds ==
    ASSUME mode \in Mode
    PROVE  /\ MaxCount \in Nat /\ mode.count \in 0..MaxCount
           /\ mode.concurrency \in 0..MaxCount /\ mode.retry \in 0..MaxRetry
           /\ \A i : \A j : j \in From(i) <=> j \in 0..(mode.count - 1) /\ i <= j
  BY ItemsAssumption DEF Mode, From, Item

\* The executions that count are those of the present iteration.
LEMMA Counted ==
    ASSUME mode \in Mode, NEW es \in Seq(Exec), NEW b, Iteration(es, b)
    PROVE  /\ Accepted(es) = {k \in (b + 1)..Len(es) : es[k].state # "RUNNING"}
           /\ RunningOf(es) = {k \in (b + 1)..Len(es) : es[k].state = "RUNNING"}
           /\ IsFiniteSet(Accepted(es)) /\ IsFiniteSet(RunningOf(es))
           /\ Cardinality(Accepted(es)) \in Nat /\ Cardinality(RunningOf(es)) \in Nat
           /\ Cardinality(Accepted(es)) + Cardinality(RunningOf(es)) = Len(es) - b
           /\ NextStartIndex(es) = Len(es) - b
           /\ HasMoreIterations(es) <=> Len(es) - b < mode.count
  <1> DEFINE Present == (b + 1)..Len(es)
             A == {k \in Present : es[k].state # "RUNNING"}
             R == {k \in Present : es[k].state = "RUNNING"}
  <1>1. Len(es) \in Nat /\ DOMAIN es = 1..Len(es) /\ b \in 0..Len(es)
    BY DEF Iteration
  <1>2. \A k \in DOMAIN es : k \in Present \/ k \in 1..b
    BY <1>1
  <1>3. Present \subseteq DOMAIN es
    BY <1>1
  <1>4. Accepted(es) = A
    BY <1>2, <1>3 DEF Accepted, Select, Iteration
  <1>5. RunningOf(es) = R
    BY <1>2, <1>3 DEF RunningOf, Iteration, Completed
  <1>6. Select(es, LAMBDA e : e.accepted \/ e.state = "RUNNING") = Present
    BY <1>2, <1>3 DEF Select, Iteration, Completed
  <1>7. IsFiniteSet(Present) /\ Cardinality(Present) = Len(es) - b
    <2>1. b + 1 \in Int /\ Len(es) \in Int
      BY <1>1
    <2>2. /\ IsFiniteSet((b + 1)..Len(es))
          /\ Cardinality((b + 1)..Len(es)) =
                IF b + 1 > Len(es) THEN 0 ELSE Len(es) - (b + 1) + 1
      BY <2>1, FS_Interval, Zenon
    <2>3. Len(es) \in Nat /\ b \in Nat /\ b <= Len(es)
      BY <1>1
    <2>4. (IF b + 1 > Len(es) THEN 0 ELSE Len(es) - (b + 1) + 1) = Len(es) - b
      BY <2>3
    <2> QED BY <2>2, <2>4
  <1>8. IsFiniteSet(A) /\ IsFiniteSet(R)
    BY <1>7, FS_Subset
  <1>9. Present = A \cup R /\ A \cap R = {}
    OBVIOUS
  <1>10. Cardinality(Present) = Cardinality(A) + Cardinality(R)
    <2> HIDE DEF A, R, Present
    <2>1. Cardinality(A \cup R) = Cardinality(A) + Cardinality(R) - Cardinality(A \cap R)
      BY <1>8, FS_Union
    <2>2. Cardinality(A) \in Nat /\ Cardinality(R) \in Nat
      BY <1>8, FS_CardinalityType
    <2>3. Cardinality(A \cap R) = 0
      BY <1>9, FS_EmptySet
    <2> QED BY <1>9, <2>1, <2>2, <2>3
  <1>11. NextStartIndex(es) = Len(es) - b
    BY <1>6, <1>7 DEF NextStartIndex
  <1>12. Cardinality(A) \in Nat /\ Cardinality(R) \in Nat
    BY <1>8, FS_CardinalityType
  <1> HIDE DEF A, R, Present
  <1>13. HasMoreIterations(es) <=> Len(es) - b < mode.count
    BY <1>1, <1>11, Bounds DEF HasMoreIterations
  <1> QED BY <1>4, <1>5, <1>7, <1>8, <1>10, <1>11, <1>12, <1>13 DEF A, R, Present

\* The first items from i on.
LEMMA Interval ==
    ASSUME mode \in Mode, NEW m \in Nat, NEW c \in Nat, m + c <= mode.count
    PROVE  LET I == m..(m + c - 1)
           IN  /\ I \subseteq Item /\ IsFiniteSet(I) /\ Cardinality(I) = c
               /\ \A i \in I : Cardinality({j \in I : j < i}) = i - m
  <1> DEFINE I == m..(m + c - 1)
  <1>1. I \subseteq Item
    BY Bounds DEF Item
  <1>2. IsFiniteSet(I) /\ Cardinality(I) = c
    <2>1. m \in Int /\ m + c - 1 \in Int
      OBVIOUS
    <2>2. /\ IsFiniteSet(I)
          /\ Cardinality(I) = IF m > m + c - 1 THEN 0 ELSE (m + c - 1) - m + 1
      BY <2>1, FS_Interval, Zenon
    <2>3. (IF m > m + c - 1 THEN 0 ELSE (m + c - 1) - m + 1) = c
      OBVIOUS
    <2> QED BY <2>2, <2>3
  <1>3. ASSUME NEW i \in I PROVE Cardinality({j \in I : j < i}) = i - m
    <2>1. {j \in I : j < i} = m..(i - 1) /\ i \in Int /\ m <= i
      OBVIOUS
    <2>2. m \in Int /\ i - 1 \in Int
      BY <2>1
    <2>3. Cardinality(m..(i - 1)) = IF m > i - 1 THEN 0 ELSE (i - 1) - m + 1
      BY <2>2, FS_Interval, Zenon
    <2>4. (IF m > i - 1 THEN 0 ELSE (i - 1) - m + 1) = i - m
      BY <2>1
    <2> HIDE DEF I
    <2> QED BY <2>1, <2>3, <2>4
  <1> QED BY <1>1, <1>2, <1>3

\* As long as nothing runs, or there was no former iteration, the next items are those
\* behind the present ones, as many as the capacity allows.
LEMMA NextItems ==
    ASSUME mode \in Mode, NEW es \in Seq(Exec), NEW b, Iteration(es, b),
           b = 0 \/ RunningOf(es) = {},
           NEW cap \in Nat
    PROVE  \E c \in Nat :
              LET m == Len(es) - b IN
              /\ NextIndexes(es, cap) = m..(m + c - 1)
              /\ m + c <= mode.count
              /\ mode.concurrency > 0 => c <= cap
              /\ mode.concurrency = 0 \/ cap >= mode.count - m => m + c = mode.count
              /\ mode.concurrency > 0 /\ cap < mode.count - m => c = cap
  <1> DEFINE m == Len(es) - b
             U == UnacceptedIndexes(es)
             A == AcceptedIndexes(es)
  <1>1. /\ Len(es) \in Nat /\ DOMAIN es = 1..Len(es) /\ b \in 0..Len(es)
        /\ mode.count \in Nat /\ m \in Nat /\ m <= mode.count
    BY Bounds DEF Iteration
  <1>2. IndexesToRun(es) = From(m)
    <2>1. U = {es[k].index : k \in 1..b}
      BY <1>1 DEF UnacceptedIndexes, IndexesOf, Select, Iteration, Completed
    <2>2. CASE b = 0
      <3>1. U = {}
        BY <2>1, <2>2
      <3> QED BY <3>1, Counted DEF IndexesToRun
    <2>3. CASE b > 0
      <3>1. U = From(0)
        BY <2>1, <2>3 DEF Iteration
      <3>2. RunningOf(es) = {}
        BY <2>3
      <3>3. A = {es[k].index : k \in (b + 1)..Len(es)}
        <4>1. Select(es, LAMBDA e : e.accepted /\ e.state \in Completed) = (b + 1)..Len(es)
          <5>1. \A k \in (b + 1)..Len(es) : k \in DOMAIN es /\ es[k].state \in Completed
            <6>1. \A k \in (b + 1)..Len(es) : k \in DOMAIN es /\ es[k] \in Exec
              BY <1>1
            <6> QED BY <3>2, <6>1 DEF RunningOf, Exec
          <5>2. \A k \in DOMAIN es : k \in 1..b \/ k \in (b + 1)..Len(es)
            BY <1>1
          <5> QED BY <5>1, <5>2 DEF Select, Iteration, Completed
        <4> QED BY <4>1 DEF AcceptedIndexes, IndexesOf
      <3>4. A = 0..(m - 1)
        <4>1. \A k \in (b + 1)..Len(es) : es[k].index = k - b - 1
          BY DEF Iteration
        <4>2. ASSUME NEW i \in 0..(m - 1)
              PROVE  i + b + 1 \in (b + 1)..Len(es) /\ (i + b + 1) - b - 1 = i
          BY <1>1
        <4>3. \A k \in (b + 1)..Len(es) : k - b - 1 \in 0..(m - 1)
          BY <1>1
        <4>4. ASSUME NEW i \in 0..(m - 1) PROVE i \in A
          BY <3>3, <4>1, <4>2
        <4>5. ASSUME NEW i \in A PROVE i \in 0..(m - 1)
          <5>1. PICK k \in (b + 1)..Len(es) : i = es[k].index
            BY <3>3
          <5> QED BY <4>1, <4>3, <5>1
        <4> HIDE DEF m, A
        <4> QED BY <4>4, <4>5
      <3>5. U \ A = From(m)
        BY <1>1, <3>1, <3>4, Bounds
      <3>6. \A j \in From(0) : (\A i \in From(m) : i < j) => From(m) = {} \/ j \in From(m)
        BY <1>1, Bounds
      <3> HIDE DEF m, U, A
      <3>7. CASE From(m) = {}
        BY <3>5, <3>7, Counted DEF IndexesToRun, m, U, A
      <3>8. CASE From(m) # {}
        <4>1. IndexesToRun(es) = From(m) \cup {j \in From(0) : \A i \in From(m) : i < j}
          BY <3>5, <3>8 DEF IndexesToRun, U, A
        <4> QED BY <3>6, <3>8, <4>1
      <3> QED BY <3>7, <3>8
    <2> QED BY <1>1, <2>2, <2>3
  <1>3. From(m) = m..(mode.count - 1)
    <2> HIDE DEF m
    <2>1. \A j : j \in From(m) <=> j \in 0..(mode.count - 1) /\ m <= j
      BY Bounds
    <2>2. \A j : j \in m..(mode.count - 1) <=> j \in 0..(mode.count - 1) /\ m <= j
      BY <1>1
    <2> QED BY <2>1, <2>2
  <1> DEFINE all == mode.count - m
             c == IF mode.concurrency = 0 \/ cap >= all THEN all ELSE cap
  <1>4. c \in Nat /\ m + c <= mode.count /\ all \in Nat /\ m + all = mode.count
    BY <1>1
  <1>5. NextIndexes(es, cap) = m..(m + c - 1)
    <2>1. CASE mode.concurrency = 0
      BY <1>1, <1>2, <1>3, <2>1 DEF NextIndexes
    <2>2. CASE mode.concurrency # 0
      <3> DEFINE I == m..(m + all - 1)
      <3>1. I = From(m)
        BY <1>1, <1>3
      <3>2. \A i \in I : Cardinality({j \in I : j < i}) = i - m
        <4>1. m \in Nat /\ all \in Nat /\ m + all <= mode.count
          BY <1>1, <1>4
        <4> HIDE DEF m, all
        <4> QED BY <4>1, Interval
      <3>3. Lowest(I, cap) = {i \in I : i - m < cap}
        BY <3>2 DEF Lowest
      <3>4. {i \in I : i - m < cap} = m..(m + c - 1)
        BY <1>1, <1>4, <2>2
      <3> QED BY <1>2, <2>2, <3>1, <3>3, <3>4 DEF NextIndexes
    <2> QED BY <2>1, <2>2
  <1>6. mode.concurrency \in Nat
    BY Bounds
  <1> HIDE DEF m
  <1> QED BY <1>4, <1>5, <1>6 DEF m

\* The started items are behind the others.
LEMMA StartedItems ==
    ASSUME mode \in Mode, NEW es \in Seq(Exec), NEW b, Iteration(es, b),
           NEW c \in Nat, (Len(es) - b) + c <= mode.count,
           NEW I, I = (Len(es) - b)..((Len(es) - b) + c - 1)
    PROVE  /\ Started(es, I) \in Seq(Exec) /\ Len(Started(es, I)) = Len(es) + c
           /\ \A k \in DOMAIN es : Started(es, I)[k] = es[k]
           /\ Iteration(Started(es, I), b)
           /\ Cardinality(RunningOf(Started(es, I))) = Cardinality(RunningOf(es)) + c
           /\ Cardinality(I) = c
  <1> DEFINE m == Len(es) - b
             new == Started(es, I)
             at(n) == CHOOSE i \in I : Cardinality({j \in I : j < i}) = n - Len(es) - 1
  <1>1. /\ Len(es) \in Nat /\ DOMAIN es = 1..Len(es) /\ b \in 0..Len(es)
        /\ \A k \in 1..Len(es) : es[k] \in Exec
        /\ m \in Nat /\ m <= mode.count
    BY Bounds DEF Iteration
  <1>2. /\ I \subseteq Item /\ Cardinality(I) = c
        /\ \A i \in I : Cardinality({j \in I : j < i}) = i - m
    BY <1>1, Interval
  <1>3. ASSUME NEW n \in (Len(es) + 1)..(Len(es) + c) PROVE at(n) = n - b - 1
    <2>1. n - b - 1 \in I
      BY <1>1
    <2>2. ASSUME NEW i \in I
          PROVE  Cardinality({j \in I : j < i}) = n - Len(es) - 1 <=> i = n - b - 1
      <3>1. Cardinality({j \in I : j < i}) = i - (Len(es) - b)
        BY <1>2
      <3>2. i \in Int
        BY <1>1
      <3> QED BY <1>1, <3>1, <3>2
    <2> QED BY <2>1, <2>2
  <1> DEFINE e(n) == IF n <= Len(es) THEN es[n]
                     ELSE [index |-> n - b - 1, state |-> "RUNNING", accepted |-> FALSE]
  <1>4. new = [n \in 1..(Len(es) + c) |-> e(n)]
    <2>1. new = [n \in 1..(Len(es) + c) |->
                   IF n <= Len(es) THEN es[n]
                   ELSE [index |-> at(n), state |-> "RUNNING", accepted |-> FALSE]]
      BY <1>2 DEF Started
    <2>2. \A n \in 1..(Len(es) + c) : n <= Len(es) \/ n \in (Len(es) + 1)..(Len(es) + c)
      BY <1>1
    <2> HIDE DEF at, new
    <2> QED BY <1>3, <2>1, <2>2
  <1>5. \A n \in 1..(Len(es) + c) : e(n) \in Exec
    <2>1. \A n \in 1..(Len(es) + c) :
             \/ n <= Len(es) /\ n \in 1..Len(es)
             \/ ~(n <= Len(es)) /\ n - b - 1 \in I
      BY <1>1
    <2>2. \A n \in 1..(Len(es) + c) : n - b - 1 \in I =>
             [index |-> n - b - 1, state |-> "RUNNING", accepted |-> FALSE] \in Exec
      BY <1>2 DEF Exec
    <2> QED BY <1>1, <2>1, <2>2
  <1>6. new \in Seq(Exec) /\ Len(new) = Len(es) + c /\ DOMAIN new = 1..(Len(es) + c)
    <2>1. Len(es) + c \in Nat
      BY <1>1
    <2>2. [n \in 1..(Len(es) + c) |-> e(n)] \in Seq(Exec)
      <3> HIDE DEF e
      <3> QED BY <1>5, <2>1, IsASeq
    <2> HIDE DEF new, e
    <2>3. DOMAIN new = 1..(Len(es) + c)
      BY <1>4
    <2> QED BY <1>4, <2>1, <2>2, <2>3, LenProperties
  <1>7. \A k \in 1..Len(es) : new[k] = es[k]
    BY <1>1, <1>4
  <1>8. \A k \in (Len(es) + 1)..(Len(es) + c) :
           new[k].index = k - b - 1 /\ new[k].state = "RUNNING" /\ ~new[k].accepted
    <2>1. \A k \in (Len(es) + 1)..(Len(es) + c) : k \in 1..(Len(es) + c) /\ ~(k <= Len(es))
      BY <1>1
    <2> HIDE DEF new, at
    <2> QED BY <1>4, <2>1
  <1> HIDE DEF new, e, at
  <1>9. Iteration(new, b)
    <2>1. b \in 0..Len(new) /\ Len(new) - b <= mode.count
      BY <1>1, <1>6, Bounds
    <2>2. \A k \in 1..b : new[k] = es[k]
      BY <1>1, <1>7
    <2>3. \A k \in (b + 1)..Len(new) :
             \/ k \in (b + 1)..Len(es) /\ new[k] = es[k]
             \/ k \in (Len(es) + 1)..(Len(es) + c)
      BY <1>1, <1>6, <1>7
    <2>4. {new[k].index : k \in 1..b} = {es[k].index : k \in 1..b}
      BY <2>2
    <2>5. \A k \in (b + 1)..Len(new) : /\ new[k].accepted <=> new[k].state # "RUNNING"
                                       /\ new[k].index = k - b - 1
      <3>1. ASSUME NEW k \in (Len(es) + 1)..(Len(es) + c)
            PROVE  (new[k].accepted <=> new[k].state # "RUNNING") /\ new[k].index = k - b - 1
        BY <1>8
      <3>2. ASSUME NEW k \in (b + 1)..Len(es), new[k] = es[k]
            PROVE  (new[k].accepted <=> new[k].state # "RUNNING") /\ new[k].index = k - b - 1
        BY <3>2 DEF Iteration
      <3> QED BY <2>3, <3>1, <3>2
    <2>6. \A k \in 1..b : ~new[k].accepted /\ new[k].state \in Completed
      BY <2>2 DEF Iteration
    <2>7. b > 0 => Repeats /\ {new[k].index : k \in 1..b} = From(0)
      BY <2>4 DEF Iteration
    <2> QED BY <2>1, <2>5, <2>6, <2>7 DEF Iteration
  <1>10. Cardinality(RunningOf(new)) = Cardinality(RunningOf(es)) + c
    <2> DEFINE N == (Len(es) + 1)..(Len(es) + c)
    <2>1. RunningOf(new) = RunningOf(es) \cup N
      <3>1. \A k : k \in DOMAIN new <=> k \in 1..Len(es) \/ k \in N
        BY <1>1, <1>6
      <3>2. \A k \in N : new[k].state = "RUNNING"
        <4>1. ASSUME NEW k \in (Len(es) + 1)..(Len(es) + c) PROVE new[k].state = "RUNNING"
          BY <1>8
        <4> QED BY <4>1
      <3>3. DOMAIN es = 1..Len(es)
        BY <1>1
      <3> HIDE DEF N
      <3> QED BY <1>7, <3>1, <3>2, <3>3 DEF RunningOf
    <2>2. RunningOf(es) \cap N = {}
      BY <1>1 DEF RunningOf
    <2>3. IsFiniteSet(N) /\ Cardinality(N) = c
      <3>1. Len(es) + 1 \in Int /\ Len(es) + c \in Int
        BY <1>1
      <3>2. /\ IsFiniteSet(N)
            /\ Cardinality(N) = IF Len(es) + 1 > Len(es) + c THEN 0
                                ELSE (Len(es) + c) - (Len(es) + 1) + 1
        BY <3>1, FS_Interval, Zenon
      <3>3. (IF Len(es) + 1 > Len(es) + c THEN 0
             ELSE (Len(es) + c) - (Len(es) + 1) + 1) = c
        BY <1>1
      <3> QED BY <3>2, <3>3
    <2>4. IsFiniteSet(RunningOf(es)) /\ Cardinality(RunningOf(es)) \in Nat
      BY Counted
    <2> HIDE DEF N
    <2>5. Cardinality(RunningOf(es) \cup N) =
             Cardinality(RunningOf(es)) + Cardinality(N) - Cardinality(RunningOf(es) \cap N)
      BY <2>3, <2>4, FS_Union
    <2>6. Cardinality(RunningOf(es) \cap N) = 0
      BY <2>2, FS_EmptySet
    <2> QED BY <2>1, <2>3, <2>4, <2>5, <2>6
  <1> QED BY <1>1, <1>2, <1>6, <1>7, <1>9, <1>10 DEF new

\* Without running items all results can be given up: the next iteration begins.
LEMMA GivenUp ==
    ASSUME mode \in Mode, NEW es \in Seq(Exec), NEW b, Iteration(es, b), Repeats,
           RunningOf(es) = {}, Len(es) - b = mode.count
    PROVE  /\ Invalid(es) \in Seq(Exec) /\ Len(Invalid(es)) = Len(es)
           /\ RunningOf(Invalid(es)) = {}
           /\ Iteration(Invalid(es), Len(es))
           /\ ResetActions(es, TRUE) = Invalid(es)
  <1> DEFINE new == Invalid(es)
             e(k) == [es[k] EXCEPT !.accepted = FALSE]
  <1>1. /\ Len(es) \in Nat /\ DOMAIN es = 1..Len(es) /\ b \in 0..Len(es)
        /\ \A k \in 1..Len(es) : es[k] \in Exec
    BY DEF Iteration
  <1>2. new = [k \in 1..Len(es) |-> e(k)]
    BY <1>1 DEF Invalid
  <1>3. ResetActions(es, TRUE) = [k \in 1..Len(es) |-> e(k)]
    <2>1. \A k \in 1..Len(es) : [es[k] EXCEPT !.accepted = @ /\ ~TRUE
              /\ es[k].state \notin {"ERROR", "CANCELLED"}] = [es[k] EXCEPT !.accepted = FALSE]
      BY <1>1 DEF Exec
    <2> QED BY <1>1, <2>1 DEF ResetActions
  <1>4. \A k \in 1..Len(es) : e(k) \in Exec
    BY <1>1 DEF Exec
  <1>5. new \in Seq(Exec) /\ Len(new) = Len(es) /\ DOMAIN new = 1..Len(es)
    <2>1. [k \in 1..Len(es) |-> e(k)] \in Seq(Exec)
      <3> HIDE DEF e
      <3> QED BY <1>1, <1>4, IsASeq
    <2> HIDE DEF new, e
    <2> QED BY <1>1, <1>2, <2>1, LenProperties
  <1>6. \A k \in 1..Len(es) : /\ new[k].index = es[k].index /\ new[k].state = es[k].state
                              /\ ~new[k].accepted
    BY <1>1, <1>2 DEF Exec
  <1> HIDE DEF new, e
  <1>7. \A k \in 1..Len(es) : es[k].state \in Completed
    BY <1>1 DEF RunningOf, Exec
  <1>8. RunningOf(new) = {}
    BY <1>5, <1>6, <1>7 DEF RunningOf, Completed
  <1>9. {new[k].index : k \in 1..Len(es)} = From(0)
    <2>1. {new[k].index : k \in 1..Len(es)} = {es[k].index : k \in 1..Len(es)}
      BY <1>6
    <2>2. \A k \in (b + 1)..Len(es) : es[k].index = k - b - 1
      BY DEF Iteration
    <2>3. \A k \in 1..Len(es) : es[k].index \in From(0)
      <3>1. ASSUME NEW k \in 1..b PROVE es[k].index \in From(0)
        BY <1>1 DEF Iteration
      <3>2. ASSUME NEW k \in (b + 1)..Len(es) PROVE es[k].index \in From(0)
        <4>1. k \in Nat /\ b \in Nat /\ b + 1 <= k /\ k <= Len(es)
          BY <1>1
        <4>2. k - b - 1 \in 0..(mode.count - 1) /\ 0 <= k - b - 1
          BY <1>1, <4>1
        <4>3. k - b - 1 \in From(0)
          BY <4>2, Bounds
        <4> QED BY <2>2, <4>3
      <3> QED BY <1>1, <3>1, <3>2
    <2>4. ASSUME NEW i \in From(0)
          PROVE  i + b + 1 \in 1..Len(es) /\ es[i + b + 1].index = i
      <3>1. i \in 0..(mode.count - 1) /\ mode.count \in Nat
        BY Bounds
      <3>2. i + b + 1 \in (b + 1)..Len(es) /\ i + b + 1 \in 1..Len(es)
        BY <1>1, <3>1
      <3>3. es[i + b + 1].index = (i + b + 1) - b - 1
        BY <2>2, <3>2
      <3> QED BY <1>1, <3>1, <3>2, <3>3
    <2> QED BY <2>1, <2>3, <2>4
  <1>10. Iteration(new, Len(es))
    <2>1. Len(new) - Len(es) <= mode.count /\ Len(es) \in 0..Len(new)
      BY <1>1, <1>5, Bounds
    <2>2. (Len(es) + 1)..Len(new) = {}
      BY <1>1, <1>5
    <2> QED BY <1>6, <1>7, <1>9, <2>1, <2>2 DEF Iteration
  <1> QED BY <1>2, <1>3, <1>5, <1>8, <1>10 DEF new

-----------------------------------------------------------------------------
(* The steps.                                                               *)

\* What no handler of results and items touches.
Frame == /\ mode' = mode /\ timer' \in BOOLEAN /\ (timer' => mode.timeout)
         /\ reruns' \in 0..MaxRerun /\ agains' \in 0..MaxAgain

\* Several iterations come with a limit of one, of none or of all, and no failures of
\* the task itself.
LEMMA Repeated ==
    ASSUME mode \in Supported
    PROVE  /\ mode \in Mode /\ mode.rerun # "keep"
           /\ Repeats => /\ mode.concurrency \in {0, 1} \/ mode.concurrency >= mode.count
                         /\ ~mode.timeout /\ ~mode.badItem
           /\ mode.again => mode.concurrency = 0
           /\ mode.retry > 0 => mode.rerun = "none"
  BY DEF Supported, Repeats

\* The next items start, none are left because there are no items, or one of them is
\* bad.
LEMMA ItemsStart ==
    ASSUME mode \in Supported, mode \in Modes, retryNo \in 0..MaxRetry, broken = FALSE, Frame,
           NEW es \in Seq(Exec), NEW b, Iteration(es, b), b = 0 \/ RunningOf(es) = {},
           NEW cap \in 0..mode.concurrency, cap > 0 \/ mode.concurrency = 0,
           jobs' \subseteq DOMAIN es, \A k \in jobs' : es[k].state # "RUNNING",
           mode.concurrency > 0 =>
              cap + Cardinality(RunningOf(es)) + Cardinality(jobs') = mode.concurrency,
           Len(es) - b < mode.count \/ es = <<>>,
           b > 0 /\ mode.concurrency # 1 => Len(es) = b /\ cap = mode.concurrency,
           restart' = FALSE, ScheduleActions(es, cap, 0)
    PROVE  ItemsKept'
  <1> DEFINE m == Len(es) - b
             next == NextIndexes(es, cap)
  <1>n. /\ m \in Nat /\ m = Len(es) - b /\ Len(es) \in Nat /\ b \in Nat /\ b <= Len(es)
        /\ mode.count \in Nat /\ mode.concurrency \in Nat
        /\ cap \in Nat /\ cap <= mode.concurrency
    BY Repeated, Bounds DEF Iteration
  <1>1. /\ Len(es) \in Nat /\ DOMAIN es = 1..Len(es) /\ b \in 0..Len(es)
        /\ m \in Nat /\ m <= mode.count /\ m = Len(es) - b /\ cap \in Nat
        /\ mode \in Mode /\ mode.count \in Nat /\ mode.concurrency \in Nat
        /\ mode.retry \in 0..MaxRetry /\ MaxRetry \in Nat
    BY Repeated, Bounds, ItemsAssumption DEF Iteration
  <1>2. /\ Cardinality(RunningOf(es)) \in Nat
        /\ IsFiniteSet(jobs') /\ Cardinality(jobs') \in Nat
    <2>1. IsFiniteSet(1..Len(es))
      <3>1. 1 \in Int /\ Len(es) \in Int
        BY <1>1
      <3> QED BY <3>1, FS_Interval, Zenon
    <2>2. IsFiniteSet(jobs')
      BY <1>1, <2>1, FS_Subset
    <2> QED BY <1>1, <2>2, Counted, FS_CardinalityType
  <1>3. PICK c \in Nat :
              /\ next = m..(m + c - 1)
              /\ m + c <= mode.count
              /\ mode.concurrency > 0 => c <= cap
              /\ mode.concurrency = 0 \/ cap >= mode.count - m => m + c = mode.count
              /\ mode.concurrency > 0 /\ cap < mode.count - m => c = cap
    <2>1. mode \in Mode /\ cap \in Nat
      BY <1>1
    <2>2. \E c \in Nat :
             LET n == Len(es) - b IN
             /\ NextIndexes(es, cap) = n..(n + c - 1)
             /\ n + c <= mode.count
             /\ mode.concurrency > 0 => c <= cap
             /\ mode.concurrency = 0 \/ cap >= mode.count - n => n + c = mode.count
             /\ mode.concurrency > 0 /\ cap < mode.count - n => c = cap
      BY <2>1, NextItems
    <2> QED BY <2>2
  <1> HIDE DEF m, next
  <1>c. /\ m + c <= mode.count
        /\ mode.concurrency > 0 => c <= cap
        /\ mode.concurrency = 0 \/ cap >= mode.count - m => m + c = mode.count
        /\ mode.concurrency > 0 /\ cap < mode.count - m => c = cap
    BY <1>3
  <1>e. next = m..(m + c - 1)
    BY <1>3
  <1>4. mode' = mode /\ mode.count' = mode.count /\ mode.concurrency' = mode.concurrency
    BY DEF Frame
  <1>5. ASSUME NEW d \in 0..c, execs' = Started(es, m..(m + d - 1)),
               capacity' = Decreases(cap, d)
        PROVE  /\ execs' \in Seq(Exec) /\ Len(execs') = Len(es) + d
               /\ jobs' \subseteq DOMAIN execs'
               /\ \A k \in jobs' : execs'[k].state # "RUNNING"
               /\ Iteration(execs', b) /\ b \in 0..Len(execs')
               /\ capacity' \in 0..mode.concurrency
               /\ mode.concurrency > 0 =>
                     /\ capacity' + Cardinality(RunningOf(execs')) + Cardinality(jobs')
                           = mode.concurrency
                     /\ Cardinality(RunningOf(execs')) <= mode.concurrency
    <2>0. d \in Nat /\ d <= c
      OBVIOUS
    <2>1. d \in Nat /\ (Len(es) - b) + d <= mode.count
      BY <1>n, <1>c, <2>0
    <2>2. /\ execs' \in Seq(Exec) /\ Len(execs') = Len(es) + d
          /\ \A k \in DOMAIN es : execs'[k] = es[k]
          /\ Iteration(execs', b)
          /\ Cardinality(RunningOf(execs')) = Cardinality(RunningOf(es)) + d
      <3>1. execs' = Started(es, (Len(es) - b)..((Len(es) - b) + d - 1)) /\ mode \in Mode
        BY <1>1, <1>5
      <3> QED BY <2>1, <3>1, StartedItems
    <2>3. DOMAIN execs' = 1..(Len(es) + d)
      BY <2>2
    <2>4. jobs' \subseteq DOMAIN execs'
      <3>1. DOMAIN es \subseteq DOMAIN execs'
        <4>1. DOMAIN es = 1..Len(es)
          BY <1>1
        <4> QED BY <1>n, <2>0, <2>3, <4>1
      <3> QED BY <3>1
    <2>5. mode.concurrency > 0 => capacity' = cap - d
      BY <1>n, <1>5 DEF Decreases
    <2>6. mode.concurrency = 0 => capacity' = cap
      BY <1>n, <1>5 DEF Decreases
    <2>7. capacity' \in 0..mode.concurrency
      BY <1>n, <1>c, <2>0, <2>5, <2>6
    <2>8. mode.concurrency > 0 =>
             capacity' + Cardinality(RunningOf(execs')) + Cardinality(jobs')
                = mode.concurrency
      BY <1>2, <1>n, <2>0, <2>2, <2>5
    <2>9. Cardinality(RunningOf(execs')) \in Nat
      BY <1>2, <2>0, <2>2
    <2>10. mode.concurrency > 0 => Cardinality(RunningOf(execs')) <= mode.concurrency
      BY <1>2, <1>n, <2>7, <2>8, <2>9
    <2>11. \A k \in jobs' : execs'[k].state # "RUNNING"
      BY <2>2
    <2>12. b \in 0..Len(execs') /\ Len(execs') = Len(es) + d
      BY <1>n, <2>0, <2>2
    <2> QED BY <2>2, <2>4, <2>7, <2>8, <2>10, <2>11, <2>12
  <1>6. CASE next = {} /\ Complete("SUCCESS", es, cap, 0) /\ UNCHANGED broken
    <2>1. es = <<>> /\ m = mode.count
      <3>1. c = 0
        <4>1. m..(m + c - 1) = {}
          BY <1>e, <1>6
        <4>2. c > 0 => m \in m..(m + c - 1)
          BY <1>n
        <4> QED BY <4>1, <4>2
      <3>2. m = mode.count
        BY <1>n, <1>c, <3>1
      <3> QED BY <1>n, <3>2
    <2>2. /\ task' = "SUCCESS" /\ continues' = 0 /\ retryNo' = 0 /\ capacity' = cap
          /\ execs' = es
      BY <1>6 DEF Complete
    <2>3. jobs' = {} /\ Cardinality(jobs') = 0 /\ RunningOf(es) = {}
          /\ Cardinality(RunningOf(es)) = 0 /\ Accepted(es) = {} /\ DOMAIN es = {}
      <3>1. DOMAIN es = {}
        BY <2>1
      <3>2. RunningOf(es) = {} /\ Accepted(es) = {} /\ jobs' = {}
        BY <3>1 DEF RunningOf, Accepted, Select
      <3> QED BY <3>1, <3>2, FS_EmptySet
    <2>4. Ended(b)'
      BY <1>1, <1>4, <2>1, <2>2, <2>3 DEF Ended, AllRan, Completed
    <2>5. Iteration(execs, b)' /\ b \in 0..Len(execs')
      <3>1. Iteration(execs', b) /\ b \in 0..Len(execs')
        BY <1>1, <2>2
      <3> QED BY <1>4, <3>1 DEF Iteration, Repeats, From
    <2>6. ItemsTypeOK'
      <3>1. mode' \in Mode /\ retryNo' \in 0..MaxRetry /\ continues' \in Nat
        BY <1>1, <1>4, <2>2, <2>3, <1>6
      <3>2. restart' \in BOOLEAN /\ broken' \in BOOLEAN
        BY <2>2, <2>3, <1>6
      <3> QED BY <1>1, <1>4, <2>2, <2>3, <1>6, <3>1, <3>2 DEF ItemsTypeOK, Frame, Completed
    <2> QED BY <1>1, <1>4, <1>6, <2>2, <2>3, <2>4, <2>5, <2>6 DEF ItemsKept, Frame
  <1>7. CASE /\ next # {}
             /\ task' = "RUNNING" /\ continues' = 0
             /\ execs' = Started(es, next)
             /\ capacity' = Decreases(cap, Cardinality(next))
             /\ UNCHANGED <<retryNo, broken>>
    <2>1. c \in 0..c /\ (Len(es) - b) + c <= mode.count
      BY <1>n, <1>c
    <2>2. Cardinality(next) = c
      <3>1. next = (Len(es) - b)..((Len(es) - b) + c - 1)
        BY <1>n, <1>e
      <3>2. mode \in Mode
        BY <1>1
      <3> QED BY <2>1, <3>1, <3>2, StartedItems
    <2>3. /\ execs' \in Seq(Exec) /\ Len(execs') = Len(es) + c
          /\ jobs' \subseteq DOMAIN execs'
          /\ \A k \in jobs' : execs'[k].state # "RUNNING"
          /\ Iteration(execs', b) /\ b \in 0..Len(execs')
          /\ capacity' \in 0..mode.concurrency
          /\ mode.concurrency > 0 =>
                /\ capacity' + Cardinality(RunningOf(execs')) + Cardinality(jobs')
                      = mode.concurrency
                /\ Cardinality(RunningOf(execs')) <= mode.concurrency
      BY <1>3, <1>5, <1>7, <2>1, <2>2
    <2>4. b > 0 /\ mode.concurrency # 1 => Len(execs') - b = mode.count
      <3>1. b > 0 => Repeats
        BY DEF Iteration
      <3>2. b > 0 /\ mode.concurrency # 1 =>
               /\ mode.concurrency = 0 \/ mode.concurrency >= mode.count
               /\ Len(es) = b /\ cap = mode.concurrency
        BY <1>n, <3>1, Repeated
      <3> QED BY <1>n, <1>c, <2>3, <3>2
    <2>5. Iterating(b)'
      BY <1>4, <1>7, <2>3, <2>4 DEF Iterating
    <2>6. Iteration(execs, b)'
      BY <1>4, <2>3 DEF Iteration, Repeats, From
    <2>7. ItemsTypeOK'
      <3>1. mode' \in Mode /\ retryNo' \in 0..MaxRetry /\ continues' \in Nat
        BY <1>1, <1>4, <1>7, <2>3
      <3>2. restart' \in BOOLEAN /\ broken' \in BOOLEAN
        BY <1>7, <2>3
      <3> QED BY <1>1, <1>4, <1>7, <2>3, <3>1, <3>2 DEF ItemsTypeOK, Frame, Completed
    <2> QED BY <1>4, <1>7, <2>3, <2>5, <2>6, <2>7 DEF ItemsKept, Frame
  <1>8. CASE /\ mode.badItem
             /\ \E bad \in next :
                  LET before == {i \in next : i < bad}
                  IN  Complete("ERROR", Started(es, before),
                               Decreases(cap, Cardinality(before)), 0)
             /\ broken' = TRUE
    <2>1. PICK bad \in next :
             LET before == {i \in next : i < bad}
             IN  Complete("ERROR", Started(es, before),
                          Decreases(cap, Cardinality(before)), 0)
      BY <1>8
    <2> DEFINE d == bad - m
    <2>0. bad \in m..(m + c - 1)
      BY <1>e
    <2>2. bad \in Int /\ d \in 0..c /\ d \in Nat /\ (Len(es) - b) + d <= mode.count
      BY <1>n, <1>c, <2>0
    <2>3. {i \in next : i < bad} = m..(m + d - 1)
      <3>1. {i \in m..(m + c - 1) : i < bad} = m..(m + d - 1)
        BY <1>n, <2>0
      <3> QED BY <1>e, <3>1
    <2>4. Cardinality(m..(m + d - 1)) = d
      <3> HIDE DEF d
      <3>1. m..(m + d - 1) = (Len(es) - b)..((Len(es) - b) + d - 1) /\ mode \in Mode
        BY <1>1
      <3> QED BY <2>2, <3>1, StartedItems
    <2>5. mode.retry = 0
      <3>1. mode.retry \in Nat
        BY Repeated, Bounds, ItemsAssumption
      <3> QED BY <1>8, <3>1, Repeated DEF Repeats
    <2>6. /\ task' = "ERROR" /\ continues' = 0 /\ retryNo' = 0
          /\ execs' = Started(es, m..(m + d - 1)) /\ capacity' = Decreases(cap, d)
      <3> HIDE DEF d
      <3>1. Complete("ERROR", Started(es, m..(m + d - 1)), Decreases(cap, d), 0)
        BY <2>1, <2>3, <2>4
      <3>2. ~(retryNo < mode.retry)
        <4>1. MaxRetry \in Nat
          BY ItemsAssumption
        <4> QED BY <2>5, <4>1
      <3> QED BY <3>1, <3>2 DEF Complete
    <2>7. /\ execs' \in Seq(Exec)
          /\ jobs' \subseteq DOMAIN execs'
          /\ \A k \in jobs' : execs'[k].state # "RUNNING"
          /\ Iteration(execs', b) /\ b \in 0..Len(execs')
          /\ capacity' \in 0..mode.concurrency
          /\ mode.concurrency > 0 => Cardinality(RunningOf(execs')) <= mode.concurrency
      <3> HIDE DEF d
      <3> QED BY <1>5, <2>2, <2>6
    <2>8. Ended(b)'
      BY <1>8, <2>6 DEF Ended, Completed
    <2>9. Iteration(execs, b)'
      BY <1>4, <2>7 DEF Iteration, Repeats, From
    <2>10. ItemsTypeOK'
      <3>1. mode' \in Mode /\ retryNo' \in 0..MaxRetry /\ continues' \in Nat
        BY <1>1, <1>4, <1>8, <2>6, <2>7
      <3>2. restart' \in BOOLEAN /\ broken' \in BOOLEAN
        BY <1>8, <2>6, <2>7
      <3> QED BY <1>1, <1>4, <1>8, <2>6, <2>7, <3>1, <3>2 DEF ItemsTypeOK, Frame, Completed
    <2> QED BY <1>4, <1>8, <2>6, <2>7, <2>8, <2>9, <2>10 DEF ItemsKept, Frame
  <1> QED BY <1>6, <1>7, <1>8 DEF ScheduleActions, next

\* What holds of a task in each of its states.
LEMMA ItemsPhase ==
    ASSUME ItemsKept, Modes \subseteq Supported
    PROVE  /\ mode \in Supported /\ mode \in Mode /\ execs \in Seq(Exec)
           /\ Len(execs) \in Nat /\ DOMAIN execs = 1..Len(execs)
           /\ IsFiniteSet(jobs) /\ Cardinality(jobs) \in Nat
           /\ Cardinality(RunningOf(execs)) \in Nat
           /\ \E b \in Nat :
                /\ Iteration(execs, b) /\ b <= Len(execs)
                /\ task = "IDLE" => NotStarted /\ b = 0
                /\ task = "RUNNING" => Iterating(b)
                /\ task = "DELAYED" => Delayed(b)
                /\ task \in Completed => Ended(b)
  <1>1. mode \in Supported /\ mode \in Mode /\ execs \in Seq(Exec) /\ jobs \subseteq DOMAIN execs
    BY DEF ItemsKept, ItemsTypeOK
  <1>2. Len(execs) \in Nat /\ DOMAIN execs = 1..Len(execs)
    BY <1>1
  <1>3. IsFiniteSet(jobs) /\ Cardinality(jobs) \in Nat
    <2>1. 1 \in Int /\ Len(execs) \in Int
      BY <1>2
    <2>2. IsFiniteSet(1..Len(execs))
      BY <2>1, FS_Interval, Zenon
    <2> QED BY <1>1, <1>2, <2>2, FS_Subset, FS_CardinalityType
  <1>4. PICK b \in 0..Len(execs) : /\ Iteration(execs, b)
                                   /\ NotStarted \/ Iterating(b) \/ Delayed(b) \/ Ended(b)
    BY DEF ItemsKept
  <1>5. b \in Nat /\ b <= Len(execs)
    BY <1>2
  <1>6. NotStarted => b = 0
    BY <1>5 DEF NotStarted
  <1>7. Cardinality(RunningOf(execs)) \in Nat
    BY <1>1, <1>4, Counted
  <1>8. /\ task = "IDLE" => NotStarted /\ b = 0
        /\ task = "RUNNING" => Iterating(b)
        /\ task = "DELAYED" => Delayed(b)
        /\ task \in Completed => Ended(b)
    BY <1>4, <1>6 DEF NotStarted, Iterating, Delayed, Ended, Completed
  <1> QED BY <1>1, <1>2, <1>3, <1>4, <1>5, <1>7, <1>8

\* The invariant again, from a phase.
LEMMA PhaseKept ==
    ASSUME ItemsTypeOK', mode' \in Modes, \A k \in jobs' : execs'[k].state # "RUNNING",
           broken' => mode'.timeout \/ mode'.badItem, timer' => mode'.timeout,
           mode'.concurrency > 0 => Cardinality(RunningOf(execs')) <= mode'.concurrency,
           NEW b \in Nat, b <= Len(execs'), Len(execs') \in Nat, mode' = mode,
           Iteration(execs', b),
           (NotStarted \/ Iterating(b) \/ Delayed(b) \/ Ended(b))'
    PROVE  ItemsKept'
  <1>1. b \in 0..Len(execs')
    OBVIOUS
  <1>2. Iteration(execs, b)'
    BY DEF Iteration, Repeats, From
  <1> QED BY <1>1, <1>2 DEF ItemsKept

\* A task that has not started has no executions.
LEMMA InitKept == ASSUME ItemsInit, Modes \subseteq Supported PROVE ItemsKept
  <1>1. mode \in Supported /\ mode \in Mode /\ mode.concurrency \in Nat /\ mode.count \in Nat
    <2>1. mode \in Supported
      BY DEF ItemsInit
    <2> QED BY <2>1, Repeated, Bounds
  <1>2. execs = <<>> /\ Len(execs) = 0 /\ DOMAIN execs = {} /\ execs \in Seq(Exec)
    BY DEF ItemsInit
  <1>3. ItemsTypeOK
    <2>1. 0 \in 0..MaxRetry /\ 0 \in 0..MaxRerun /\ 0 \in 0..MaxAgain
      BY ItemsAssumption
    <2>2. mode.concurrency \in 0..mode.concurrency
      BY <1>1
    <2> QED BY <1>1, <1>2, <2>1, <2>2 DEF ItemsInit, ItemsTypeOK
  <1>4. Iteration(execs, 0) /\ 0 \in 0..Len(execs)
    BY <1>1, <1>2 DEF Iteration
  <1>5. RunningOf(execs) = {} /\ Cardinality(RunningOf(execs)) = 0
    <2>1. RunningOf(execs) = {}
      BY <1>2 DEF RunningOf
    <2> QED BY <2>1, FS_EmptySet
  <1>6. NotStarted
    BY DEF ItemsInit, NotStarted
  <1>7. mode \in Modes /\ jobs = {} /\ ~broken /\ ~timer
    BY DEF ItemsInit
  <1> QED BY <1>1, <1>3, <1>4, <1>5, <1>6, <1>7 DEF ItemsKept

\* start_task: the first items start.
LEMMA RunKept == ASSUME ItemsKept, Modes \subseteq Supported, Run PROVE ItemsKept'
  <1>1. PICK b \in Nat : Iteration(execs, b) /\ NotStarted /\ b = 0
    BY ItemsPhase DEF Run
  <1>2. /\ mode \in Supported /\ mode \in Modes /\ mode \in Mode /\ mode.concurrency \in Nat
    BY ItemsPhase, Bounds DEF ItemsKept
  <1>3. RunningOf(execs) = {} /\ jobs = {} /\ DOMAIN execs = {} /\ execs \in Seq(Exec)
    BY <1>1 DEF NotStarted, RunningOf
  <1>4. Cardinality(RunningOf(execs)) = 0 /\ Cardinality(jobs) = 0
    BY <1>3, FS_EmptySet
  <1>5. retryNo \in 0..MaxRetry /\ broken = FALSE /\ restart' = FALSE /\ jobs' = jobs
    BY <1>1 DEF ItemsKept, ItemsTypeOK, NotStarted, Run, others
  <1>6. Frame
    BY <1>2 DEF ItemsKept, ItemsTypeOK, Frame, Run, others, Mode
  <1>7. ScheduleActions(execs, mode.concurrency, 0)
    BY <1>1 DEF Run, NotStarted
  <1>8. execs = <<>>
    BY <1>1 DEF NotStarted
  <1>9. mode.concurrency \in 0..mode.concurrency
        /\ (mode.concurrency > 0 \/ mode.concurrency = 0)
        /\ mode.concurrency + 0 + 0 = mode.concurrency
    BY <1>2
  <1> QED BY <1>1, <1>2, <1>3, <1>4, <1>5, <1>6, <1>7, <1>8, <1>9, ItemsStart

\* A result ends an item of the present iteration.
LEMMA ResultKept ==
    ASSUME ItemsKept, Modes \subseteq Supported, NEW k \in DOMAIN execs, NEW s \in Completed,
           Result(k, s)
    PROVE  ItemsKept'
  <1>1. PICK b \in Nat :
            /\ Iteration(execs, b) /\ b <= Len(execs)
            /\ task = "IDLE" => NotStarted /\ b = 0
            /\ task = "RUNNING" => Iterating(b)
            /\ task = "DELAYED" => Delayed(b)
            /\ task \in Completed => Ended(b)
    BY ItemsPhase
  <1>2. /\ mode \in Supported /\ mode \in Mode /\ execs \in Seq(Exec)
        /\ Len(execs) \in Nat /\ DOMAIN execs = 1..Len(execs)
        /\ IsFiniteSet(jobs) /\ Cardinality(jobs) \in Nat
    BY ItemsPhase
  <1>3. execs[k] \in Exec /\ execs[k].state = "RUNNING" /\ s # "RUNNING"
    BY <1>2 DEF Result, Completed
  <1> DEFINE new == [execs[k] EXCEPT !.state = s, !.accepted = TRUE]
  <1>4. new \in Exec /\ new.index = execs[k].index /\ new.state = s /\ new.accepted = TRUE
    BY <1>3 DEF Exec
  <1>5. execs' = [execs EXCEPT ![k] = new]
    BY DEF Result
  <1> HIDE DEF new
  <1>6. /\ execs' \in Seq(Exec) /\ Len(execs') = Len(execs)
        /\ \A j \in 1..Len(execs) : execs'[j] = IF j = k THEN new ELSE execs[j]
    BY <1>2, <1>4, <1>5, ExceptSeq
  <1>7. DOMAIN execs' = DOMAIN execs
    BY <1>2, <1>6
  <1>8. k \in (b + 1)..Len(execs)
    <2>1. k \in 1..b => execs[k].state \in Completed
      BY <1>1 DEF Iteration
    <2>2. k \in Int /\ k \notin 1..b
      BY <1>2, <1>3, <2>1 DEF Completed
    <2> QED BY <1>2, <2>2
  <1>9. \A j \in 1..b : execs'[j] = execs[j]
    BY <1>1, <1>2, <1>6, <1>8
  <1>10. Iteration(execs', b)
    <2>1. b \in 0..Len(execs') /\ Len(execs') - b <= mode.count
      BY <1>1, <1>6 DEF Iteration
    <2>2. \A j \in 1..b : ~execs'[j].accepted /\ execs'[j].state \in Completed
      BY <1>1, <1>9 DEF Iteration
    <2>3. ASSUME NEW j \in (b + 1)..Len(execs')
          PROVE  /\ execs'[j].accepted <=> execs'[j].state # "RUNNING"
                 /\ execs'[j].index = j - b - 1
      <3>1. j \in 1..Len(execs) /\ j \in (b + 1)..Len(execs)
        BY <1>2, <1>6
      <3>2. execs[j].index = j - b - 1 /\ (execs[j].accepted <=> execs[j].state # "RUNNING")
        BY <1>1, <3>1 DEF Iteration
      <3> QED BY <1>3, <1>4, <1>6, <3>1, <3>2
    <2>4. {execs'[j].index : j \in 1..b} = {execs[j].index : j \in 1..b}
      BY <1>9
    <2>5. b > 0 => Repeats /\ {execs'[j].index : j \in 1..b} = From(0)
      BY <1>1, <2>4 DEF Iteration
    <2> QED BY <2>1, <2>2, <2>3, <2>5 DEF Iteration
  <1>11. RunningOf(execs') = RunningOf(execs) \ {k} /\ k \in RunningOf(execs)
    BY <1>2, <1>3, <1>4, <1>6, <1>7 DEF RunningOf
  <1>12. /\ Cardinality(RunningOf(execs')) = Cardinality(RunningOf(execs)) - 1
         /\ Cardinality(RunningOf(execs)) \in Nat
    <2>1. IsFiniteSet(RunningOf(execs)) /\ Cardinality(RunningOf(execs)) \in Nat
      BY <1>1, <1>2, Counted
    <2>2. Cardinality(RunningOf(execs) \ {k}) = Cardinality(RunningOf(execs)) - 1
      BY <1>11, <2>1, FS_RemoveElement, Zenon
    <2> QED BY <1>11, <2>1, <2>2, Zenon
  <1>13. jobs' = jobs \cup {k} /\ Cardinality(jobs') = Cardinality(jobs) + 1
    <2>1. k \notin jobs
      BY <1>3 DEF ItemsKept
    <2>2. jobs' = jobs \cup {k}
      BY DEF Result
    <2> QED BY <1>2, <2>1, <2>2, FS_AddElement
  <1>14. \A j \in jobs' : execs'[j].state # "RUNNING"
    <2>1. \A j \in jobs : j \in 1..Len(execs) /\ execs[j].state # "RUNNING"
      BY <1>2 DEF ItemsKept, ItemsTypeOK
    <2> QED BY <1>2, <1>3, <1>4, <1>6, <1>13, <2>1
  <1>15. UNCHANGED <<mode, task, capacity, continues, timer, restart, retryNo, reruns,
                     agains, broken>>
    BY DEF Result
  <1>16. ItemsTypeOK'
    <2>1. jobs' \subseteq DOMAIN execs'
      BY <1>7, <1>13 DEF ItemsKept, ItemsTypeOK
    <2> QED BY <1>6, <1>15, <2>1 DEF ItemsKept, ItemsTypeOK
  <1>17. (NotStarted \/ Iterating(b) \/ Delayed(b) \/ Ended(b))'
    <2>1. CASE task = "IDLE"
      BY <1>1, <2>1 DEF NotStarted
    <2>2. CASE task = "RUNNING"
      <3>1. mode.concurrency > 0 =>
               capacity + Cardinality(RunningOf(execs)) + Cardinality(jobs) = mode.concurrency
        BY <1>1, <2>2 DEF Iterating
      <3>2. mode.concurrency > 0 =>
               capacity + Cardinality(RunningOf(execs')) + Cardinality(jobs') = mode.concurrency
        <4>1. mode.concurrency \in Nat /\ capacity \in Nat
          BY <1>2, Bounds DEF ItemsKept, ItemsTypeOK
        <4> QED BY <1>2, <1>12, <1>13, <3>1, <4>1
      <3> QED BY <1>1, <1>6, <1>15, <2>2, <3>2 DEF Iterating
    <2>3. CASE task = "DELAYED"
      <3>1. b = Len(execs)
        BY <1>1, <2>3 DEF Delayed
      <3> QED BY <1>2, <1>8, <3>1
    <2>4. CASE task \in Completed
      <3>1. Ended(b) /\ RunningOf(execs) # {}
        BY <1>1, <1>11, <2>4
      <3>2. task = "SUCCESS" => FALSE
        BY <3>1 DEF Ended, AllRan
      <3>3. task = "ERROR" => broken
        BY <3>1 DEF Ended, AllRan
      <3>4. Ends(execs, "CANCELLED") => Ends(execs', "CANCELLED")
        BY <1>2, <1>3, <1>6, <1>7 DEF Ends, Accepted, Select
      <3> QED BY <1>15, <2>4, <3>1, <3>2, <3>3, <3>4 DEF Ended
    <2> QED BY <2>1, <2>2, <2>3, <2>4 DEF ItemsKept, ItemsTypeOK, Completed
  <1>18. mode.concurrency > 0 => Cardinality(RunningOf(execs')) <= mode.concurrency
    <2>1. mode.concurrency \in Nat
      BY <1>2, Bounds
    <2> QED BY <1>12, <2>1 DEF ItemsKept
  <1>19. mode' \in Modes /\ (broken' => mode'.timeout \/ mode'.badItem)
         /\ (timer' => mode'.timeout)
    BY <1>15 DEF ItemsKept
  <1> QED BY <1>1, <1>2, <1>6, <1>10, <1>14, <1>15, <1>16, <1>17, <1>18, <1>19, PhaseKept

\* The task is complete: it ends, or the retry policy takes it back.
LEMMA CompletionKept ==
    ASSUME ItemsKept, Modes \subseteq Supported, task = "RUNNING", IsCompleted(execs, capacity'),
           Complete(FinalState(execs), execs, capacity', 0), UNCHANGED broken,
           Frame, restart' = restart, jobs' \subseteq jobs,
           capacity' \in 0..mode.concurrency,
           mode.concurrency > 0 =>
              capacity' + Cardinality(RunningOf(execs)) + Cardinality(jobs')
                 = mode.concurrency
    PROVE  ItemsKept'
  <1>1. PICK b \in Nat : Iteration(execs, b) /\ b <= Len(execs) /\ Iterating(b)
    BY ItemsPhase
  <1>2. /\ mode \in Supported /\ mode \in Mode /\ execs \in Seq(Exec)
        /\ Len(execs) \in Nat /\ DOMAIN execs = 1..Len(execs)
        /\ IsFiniteSet(jobs) /\ mode' = mode
    BY ItemsPhase DEF Frame
  <1>3. /\ mode.count \in Nat /\ mode.concurrency \in Nat /\ mode.retry \in 0..MaxRetry
        /\ MaxRetry \in Nat /\ retryNo \in 0..MaxRetry
    BY <1>2, Bounds, ItemsAssumption DEF ItemsKept, ItemsTypeOK
  <1> DEFINE A == Cardinality(Accepted(execs))
             R == Cardinality(RunningOf(execs))
             J == Cardinality(jobs')
  <1>4. A \in Nat /\ R \in Nat /\ A + R = Len(execs) - b /\ IsFiniteSet(RunningOf(execs))
    BY <1>1, <1>2, Counted
  <1>5. IsFiniteSet(jobs') /\ J \in Nat
    BY <1>2, FS_Subset, FS_CardinalityType
  <1>6. Len(execs) - b <= mode.count
    BY <1>1 DEF Iteration
  <1>7. restart' = FALSE /\ broken = FALSE /\ broken' = FALSE
    BY <1>1 DEF Iterating, ItemsKept, ItemsTypeOK
  <1>8. jobs' \subseteq DOMAIN execs /\ \A k \in jobs' : execs[k].state # "RUNNING"
    BY DEF ItemsKept, ItemsTypeOK
  <1>9. mode.concurrency > 0 => R <= mode.concurrency
    BY DEF ItemsKept
  <1>10. CASE Ends(execs, "CANCELLED")
    <2>1. FinalState(execs) = "CANCELLED"
      BY <1>10 DEF FinalState
    <2>2. task' = "CANCELLED" /\ continues' = 0 /\ retryNo' = retryNo /\ execs' = execs
      BY <2>1 DEF Complete
    <2>3. Ended(b)'
      BY <1>7, <1>10, <2>2 DEF Ended, Completed
    <2>4. ItemsTypeOK'
      BY <1>2, <1>3, <1>7, <1>8, <2>2 DEF ItemsKept, ItemsTypeOK, Frame, Completed
    <2> QED BY <1>1, <1>2, <1>7, <1>8, <1>9, <2>2, <2>3, <2>4, PhaseKept DEF ItemsKept, Frame
  <1>11. CASE ~Ends(execs, "CANCELLED")
    <2>1. /\ A = IF mode.count = 0 THEN 1 ELSE mode.count
          /\ mode.concurrency = 0 \/ capacity' = mode.concurrency
      BY <1>11 DEF IsCompleted
    <2>2. A = mode.count /\ R = 0 /\ Len(execs) - b = mode.count /\ mode.count > 0
      <3> HIDE DEF A, R
      <3> QED BY <1>1, <1>2, <1>3, <1>4, <1>6, <2>1
    <2>3. RunningOf(execs) = {}
      BY <1>4, <2>2, FS_EmptySet
    <2>4. mode.concurrency > 0 => jobs' = {} /\ capacity' = mode.concurrency
      <3>1. mode.concurrency > 0 => J = 0 /\ capacity' = mode.concurrency
        <4>1. mode.concurrency > 0 => capacity' + R + J = mode.concurrency
          OBVIOUS
        <4> HIDE DEF R, J
        <4> QED BY <1>3, <1>5, <2>1, <2>2, <4>1
      <3> QED BY <1>5, <3>1, FS_EmptySet
    <2>5. CASE ~Ends(execs, "ERROR")
      <3>1. FinalState(execs) = "SUCCESS"
        BY <1>11, <2>5 DEF FinalState
      <3>2. task' = "SUCCESS" /\ continues' = 0 /\ retryNo' = 0 /\ execs' = execs
        BY <3>1 DEF Complete
      <3>3. \A k \in Accepted(execs) : execs[k].state = "SUCCESS"
        <4>1. \A k \in DOMAIN execs : execs[k].state \in {"RUNNING"} \cup Completed
          <5>1. \A k \in DOMAIN execs : execs[k] \in Exec
            BY <1>2
          <5> QED BY <5>1 DEF Exec
        <4>2. \A k \in Accepted(execs) : k \in DOMAIN execs /\ execs[k].state # "RUNNING"
          BY <1>1, <1>2, Counted
        <4> QED BY <1>11, <2>5, <4>1, <4>2 DEF Ends, Completed
      <3>4. Ended(b)'
        BY <1>2, <1>7, <2>2, <2>3, <2>4, <3>2, <3>3 DEF Ended, AllRan, Completed
      <3>5. ItemsTypeOK'
        BY <1>2, <1>3, <1>7, <1>8, <3>2 DEF ItemsKept, ItemsTypeOK, Frame, Completed
      <3> QED BY <1>1, <1>2, <1>7, <1>8, <1>9, <3>2, <3>4, <3>5, PhaseKept DEF ItemsKept, Frame
    <2>6. CASE Ends(execs, "ERROR") /\ ~(retryNo < mode.retry)
      <3>1. FinalState(execs) = "ERROR"
        BY <1>11, <2>6 DEF FinalState
      <3>2. task' = "ERROR" /\ continues' = 0 /\ retryNo' = 0 /\ execs' = execs
        BY <2>6, <3>1 DEF Complete
      <3>3. Ended(b)'
        BY <1>2, <1>7, <2>2, <2>3, <2>4, <2>6, <3>2 DEF Ended, AllRan, Completed
      <3>4. ItemsTypeOK'
        BY <1>2, <1>3, <1>7, <1>8, <3>2 DEF ItemsKept, ItemsTypeOK, Frame, Completed
      <3> QED BY <1>1, <1>2, <1>7, <1>8, <1>9, <3>2, <3>3, <3>4, PhaseKept DEF ItemsKept, Frame
    <2>7. CASE Ends(execs, "ERROR") /\ retryNo < mode.retry
      <3>1. FinalState(execs) = "ERROR"
        BY <1>11, <2>7 DEF FinalState
      <3>2. /\ task' = "DELAYED" /\ continues' = 1 /\ retryNo' = retryNo + 1
            /\ execs' = Invalid(execs)
        BY <2>7, <3>1 DEF Complete
      <3>3. mode.retry > 0 /\ Repeats
        BY <1>3, <2>7 DEF Repeats
      <3>4. /\ execs' \in Seq(Exec) /\ Len(execs') = Len(execs) /\ RunningOf(execs') = {}
            /\ Iteration(execs', Len(execs))
        BY <1>1, <1>2, <2>2, <2>3, <3>2, <3>3, GivenUp
      <3>5. DOMAIN execs' = DOMAIN execs
        BY <1>2, <3>4
      <3>6. \A k \in jobs' : execs'[k].state # "RUNNING"
        BY <1>8, <3>4, <3>5 DEF RunningOf
      <3>7. Len(execs) \in Nat /\ Len(execs) > 0
        BY <1>1, <1>2, <1>3, <2>2
      <3>8. Delayed(Len(execs))'
        BY <1>2, <1>7, <2>4, <3>2, <3>3, <3>4, <3>7 DEF Delayed
      <3>9. ItemsTypeOK'
        <4>1. retryNo' \in 0..MaxRetry /\ continues' \in Nat
          BY <1>3, <2>7, <3>2
        <4> QED BY <1>2, <1>7, <1>8, <3>2, <3>4, <3>5, <4>1 DEF ItemsKept, ItemsTypeOK, Frame
      <3>10. mode.concurrency > 0 => Cardinality(RunningOf(execs')) <= mode.concurrency
        BY <1>3, <3>4, FS_EmptySet
      <3>11. PICK n \in Nat : n = Len(execs)
        BY <3>7
      <3>12. Delayed(n)' /\ Iteration(execs', n) /\ n <= Len(execs') /\ Len(execs') \in Nat
        BY <3>4, <3>7, <3>8, <3>11 DEF Delayed
      <3> QED BY <1>2, <1>7, <3>6, <3>9, <3>10, <3>12, PhaseKept DEF ItemsKept, Frame
    <2> QED BY <2>5, <2>6, <2>7
  <1> QED BY <1>10, <1>11

\* The job of a result.
LEMMA OnActionCompleteKept ==
    ASSUME ItemsKept, Modes \subseteq Supported, NEW k \in DOMAIN execs, OnActionComplete(k)
    PROVE  ItemsKept'
  <1>1. PICK b \in Nat :
            /\ Iteration(execs, b) /\ b <= Len(execs)
            /\ task = "IDLE" => NotStarted /\ b = 0
            /\ task = "RUNNING" => Iterating(b)
            /\ task = "DELAYED" => Delayed(b)
            /\ task \in Completed => Ended(b)
    BY ItemsPhase
  <1>2. /\ mode \in Supported /\ mode \in Mode /\ execs \in Seq(Exec)
        /\ Len(execs) \in Nat /\ DOMAIN execs = 1..Len(execs)
        /\ IsFiniteSet(jobs) /\ Cardinality(jobs) \in Nat
        /\ Cardinality(RunningOf(execs)) \in Nat
        /\ mode.count \in Nat /\ mode.concurrency \in Nat
    BY ItemsPhase, Bounds
  <1> DEFINE cap == Increases(capacity)
  <1>3. capacity \in 0..mode.concurrency /\ cap \in 0..mode.concurrency
    BY <1>2 DEF ItemsKept, ItemsTypeOK, Increases
  <1>4. /\ jobs' \subseteq jobs
        /\ mode.concurrency > 0 => jobs' = jobs \ {k}
                                   /\ Cardinality(jobs') = Cardinality(jobs) - 1
    <2>1. Cardinality(jobs \ {k}) = Cardinality(jobs) - 1
      BY <1>2, FS_RemoveElement DEF OnActionComplete
    <2>2. jobs' = jobs \ {k} \/ (mode.again /\ jobs' = jobs)
      BY DEF OnActionComplete
    <2>3. mode.concurrency > 0 => ~mode.again
      BY <1>2, Repeated
    <2> QED BY <2>1, <2>2, <2>3
  <1>5. Frame /\ restart' = restart
    <2>1. agains' \in 0..MaxAgain
      <3>1. agains \in 0..MaxAgain /\ MaxAgain \in Nat
        BY ItemsAssumption DEF ItemsKept, ItemsTypeOK
      <3>2. agains' = agains \/ (agains < MaxAgain /\ agains' = agains + 1)
        BY DEF OnActionComplete
      <3> QED BY <3>1, <3>2
    <2> QED BY <2>1 DEF OnActionComplete, Frame, ItemsKept, ItemsTypeOK
  <1>6. HandleCompletion(cap) /\ k \in jobs
    BY DEF OnActionComplete
  <1>7. jobs' \subseteq DOMAIN execs /\ \A j \in jobs' : execs[j].state # "RUNNING"
    BY <1>4 DEF ItemsKept, ItemsTypeOK
  <1>8. task = "RUNNING" /\ mode.concurrency > 0 =>
           /\ cap + Cardinality(RunningOf(execs)) + Cardinality(jobs') = mode.concurrency
           /\ cap > 0 /\ cap = capacity + 1
    <2>1. SUFFICES ASSUME task = "RUNNING", mode.concurrency > 0
                   PROVE  /\ cap + Cardinality(RunningOf(execs)) + Cardinality(jobs')
                                = mode.concurrency
                          /\ cap > 0 /\ cap = capacity + 1
      OBVIOUS
    <2>2. capacity + Cardinality(RunningOf(execs)) + Cardinality(jobs) = mode.concurrency
      BY <1>1, <2>1 DEF Iterating
    <2>3. Cardinality(jobs') = Cardinality(jobs) - 1 /\ Cardinality(jobs') \in Nat
      BY <1>2, <1>4, <2>1, FS_RemoveElement, FS_CardinalityType
    <2>4. capacity < mode.concurrency /\ capacity \in Nat
      BY <1>2, <1>3, <2>2, <2>3
    <2>5. cap = capacity + 1
      BY <2>4 DEF Increases
    <2> HIDE DEF cap
    <2> QED BY <1>2, <2>2, <2>3, <2>4, <2>5
  <1> HIDE DEF cap
  <1>9. task # "IDLE"
    BY <1>1, <1>6 DEF NotStarted
  <1>10. ASSUME UNCHANGED <<task, execs, continues, retryNo, broken>>, capacity' = cap,
                task = "RUNNING"
         PROVE  ItemsKept'
    <2>1. Iterating(b)'
      BY <1>1, <1>2, <1>5, <1>8, <1>10 DEF Iterating, Frame
    <2>2. ItemsTypeOK'
      BY <1>3, <1>5, <1>7, <1>10 DEF ItemsKept, ItemsTypeOK, Frame
    <2> QED BY <1>1, <1>2, <1>5, <1>7, <1>10, <2>1, <2>2, PhaseKept DEF ItemsKept, Frame
  <1>11. CASE task \in Completed
    <2>1. UNCHANGED <<task, execs, capacity, continues, retryNo, broken>>
      BY <1>6, <1>11 DEF HandleCompletion
    <2>2. Ended(b)'
      <3>1. Ended(b)
        BY <1>1, <1>11
      <3>2. jobs = {} => jobs' = {}
        BY <1>4
      <3> QED BY <1>5, <2>1, <3>1, <3>2 DEF Ended, AllRan, Frame
    <2>3. ItemsTypeOK'
      BY <1>5, <1>7, <2>1 DEF ItemsKept, ItemsTypeOK, Frame
    <2> QED BY <1>1, <1>2, <1>5, <1>7, <2>1, <2>2, <2>3, PhaseKept DEF ItemsKept, Frame
  <1>12. CASE task = "DELAYED"
    <2>1. Delayed(b)
      BY <1>1, <1>12
    <2>2. mode.concurrency = 0
      BY <1>2, <1>6, <2>1 DEF Delayed
    <2>3. Accepted(execs) = {} /\ Cardinality(Accepted(execs)) = 0
      <3>1. (b + 1)..Len(execs) = {}
        BY <1>2, <2>1 DEF Delayed
      <3>2. Accepted(execs) = {}
        BY <1>1, <1>2, <3>1, Counted
      <3> QED BY <3>2, FS_EmptySet
    <2>4. ~IsCompleted(execs, cap)
      BY <1>2, <2>3 DEF IsCompleted, Ends
    <2>5. UNCHANGED <<task, execs, continues, retryNo, broken>> /\ capacity' = cap
      BY <1>6, <1>12, <2>2, <2>4 DEF HandleCompletion, Completed
    <2>6. Delayed(b)'
      BY <1>5, <2>1, <2>2, <2>5 DEF Delayed, Frame
    <2>7. ItemsTypeOK'
      BY <1>3, <1>5, <1>7, <2>5 DEF ItemsKept, ItemsTypeOK, Frame
    <2> QED BY <1>1, <1>2, <1>5, <1>7, <2>5, <2>6, <2>7, PhaseKept DEF ItemsKept, Frame
  <1>13. CASE task = "RUNNING"
    <2>1. task \notin Completed /\ continues = 0 /\ broken = FALSE /\ restart = FALSE
      BY <1>1, <1>13 DEF Iterating, Completed, ItemsKept, ItemsTypeOK
    <2>2. CASE IsCompleted(execs, cap)
      <3>1. Complete(FinalState(execs), execs, cap, 0) /\ UNCHANGED broken
        BY <1>6, <2>1, <2>2 DEF HandleCompletion
      <3>2. capacity' = cap
        BY <3>1 DEF Complete
      <3> QED BY <1>3, <1>4, <1>5, <1>8, <1>13, <2>2, <3>1, <3>2, CompletionKept
    <2>3. CASE ~IsCompleted(execs, cap) /\ HasMoreIterations(execs) /\ mode.concurrency > 0
      <3>1. ScheduleActions(execs, cap, 0)
        BY <1>6, <2>1, <2>3 DEF HandleCompletion
      <3>2. Len(execs) - b < mode.count
        BY <1>1, <1>2, <2>3, Counted
      <3>3. b > 0 => mode.concurrency = 1
        BY <1>1, <1>2, <1>13, <3>2 DEF Iterating
      <3>4. b = 0 \/ RunningOf(execs) = {}
        <4>1. SUFFICES ASSUME mode.concurrency = 1 PROVE Cardinality(RunningOf(execs)) = 0
          <5>1. IsFiniteSet(RunningOf(execs))
            BY <1>1, <1>2, Counted
          <5> QED BY <1>1, <3>3, <5>1, FS_EmptySet
        <4>2. Cardinality(jobs') \in Nat
          BY <1>2, <1>4, FS_Subset, FS_CardinalityType
        <4>3. cap \in Nat
          BY <1>2, <1>3
        <4> QED BY <1>2, <1>8, <1>13, <4>1, <4>2, <4>3
      <3>5. /\ b > 0 /\ mode.concurrency # 1 => Len(execs) = b /\ cap = mode.concurrency
            /\ cap > 0 \/ mode.concurrency = 0
            /\ restart' = FALSE /\ mode \in Modes /\ retryNo \in 0..MaxRetry
        BY <1>5, <1>8, <1>13, <2>1, <2>3, <3>3 DEF ItemsKept, ItemsTypeOK
      <3> QED BY <1>1, <1>2, <1>3, <1>5, <1>7, <1>8, <1>13, <2>1, <2>3, <3>1, <3>2, <3>4, <3>5,
                 ItemsStart
    <2>4. CASE ~IsCompleted(execs, cap) /\ ~(HasMoreIterations(execs) /\ mode.concurrency > 0)
      BY <1>2, <1>6, <1>10, <1>13, <2>1, <2>4 DEF HandleCompletion
    <2> QED BY <2>2, <2>3, <2>4
  <1> QED BY <1>9, <1>11, <1>12, <1>13 DEF ItemsKept, ItemsTypeOK

\* The retry policy begins another iteration.
LEMMA ContinueTaskKept ==
    ASSUME ItemsKept, Modes \subseteq Supported, ContinueTask PROVE ItemsKept'
  <1>1. PICK b \in Nat :
            /\ Iteration(execs, b) /\ b <= Len(execs)
            /\ task = "IDLE" => NotStarted /\ b = 0
            /\ task = "RUNNING" => Iterating(b)
            /\ task = "DELAYED" => Delayed(b)
            /\ task \in Completed => Ended(b)
    BY ItemsPhase
  <1>2. /\ mode \in Supported /\ mode \in Mode /\ execs \in Seq(Exec)
        /\ Len(execs) \in Nat /\ DOMAIN execs = 1..Len(execs)
        /\ mode.count \in Nat /\ mode.concurrency \in Nat
    BY ItemsPhase, Bounds
  <1>3. Delayed(b)
    <2>1. continues > 0 /\ task \in {"IDLE", "RUNNING", "DELAYED"} \cup Completed
      BY DEF ContinueTask, ItemsKept, ItemsTypeOK
    <2>2. task = "IDLE" => continues = 0
      BY <1>1 DEF NotStarted
    <2>3. task = "RUNNING" => continues = 0
      BY <1>1 DEF Iterating
    <2>4. task \in Completed => continues = 0
      BY <1>1 DEF Ended
    <2> QED BY <1>1, <2>1, <2>2, <2>3, <2>4
  <1>4. b = Len(execs) /\ b > 0 /\ continues = 1 /\ restart = FALSE /\ broken = FALSE
        /\ (mode.concurrency > 0 => jobs = {} /\ capacity = mode.concurrency)
    BY <1>3 DEF Delayed, ItemsKept, ItemsTypeOK
  <1>5. \A k \in DOMAIN execs : ~execs[k].accepted /\ execs[k].state \in Completed
    BY <1>1, <1>2, <1>4 DEF Iteration
  <1>6. RunningOf(execs) = {} /\ Cardinality(RunningOf(execs)) = 0
    <2>1. RunningOf(execs) = {}
      BY <1>5 DEF RunningOf, Completed
    <2> QED BY <2>1, FS_EmptySet
  <1>7. ResetActions(execs, FALSE) = execs
    <2>1. \A k \in DOMAIN execs :
             [execs[k] EXCEPT !.accepted = @ /\ ~FALSE
                /\ execs[k].state \notin {"ERROR", "CANCELLED"}] = execs[k]
      <3>1. \A k \in DOMAIN execs : execs[k] \in Exec
        BY <1>2
      <3> QED BY <1>5, <3>1 DEF Exec
    <2>2. execs = [k \in DOMAIN execs |-> execs[k]]
      BY <1>2
    <2> QED BY <2>1, <2>2 DEF ResetActions
  <1>8. ScheduleActions(execs, capacity, 0)
    <2>1. ScheduleActions(ResetActions(execs, FALSE), capacity, continues - 1)
      BY DEF ContinueTask
    <2>2. continues - 1 = 0
      BY <1>4
    <2> QED BY <1>7, <2>1, <2>2, Zenon
  <1>9. Frame /\ restart' = FALSE /\ jobs' = jobs
    BY <1>4 DEF ContinueTask, others, Frame, ItemsKept, ItemsTypeOK
  <1>10. mode.count > 0
    <2>1. From(0) # {}
      <3>1. {execs[k].index : k \in 1..b} = From(0) /\ 1 \in 1..b
        BY <1>1, <1>4 DEF Iteration
      <3> QED BY <3>1
    <2>2. \A j : j \in From(0) => j \in 0..(mode.count - 1)
      BY <1>2, Bounds
    <2> QED BY <1>2, <2>1, <2>2
  <1>11. /\ capacity \in 0..mode.concurrency /\ retryNo \in 0..MaxRetry /\ mode \in Modes
         /\ jobs' \subseteq DOMAIN execs /\ \A k \in jobs' : execs[k].state # "RUNNING"
    BY <1>9 DEF ItemsKept, ItemsTypeOK
  <1>12. mode.concurrency > 0 =>
            capacity + Cardinality(RunningOf(execs)) + Cardinality(jobs') = mode.concurrency
    <2>1. ASSUME mode.concurrency > 0
          PROVE  capacity = mode.concurrency /\ Cardinality(jobs') = 0
      <3>1. capacity = mode.concurrency /\ jobs' = {}
        BY <1>4, <1>9, <2>1
      <3> QED BY <3>1, FS_EmptySet
    <2>2. mode.concurrency \in Nat
      BY <1>2
    <2> QED BY <1>6, <2>1, <2>2
  <1>13. Len(execs) - b < mode.count
    BY <1>2, <1>4, <1>10
  <1>14. /\ capacity > 0 \/ mode.concurrency = 0
         /\ b > 0 /\ mode.concurrency # 1 => Len(execs) = b /\ capacity = mode.concurrency
    BY <1>2, <1>4, <1>11
  <1> QED BY <1>1, <1>2, <1>4, <1>6, <1>8, <1>9, <1>11, <1>12, <1>13, <1>14, ItemsStart

\* The timeout fails a task that has not ended.
LEMMA TimeoutKept ==
    ASSUME ItemsKept, Modes \subseteq Supported, Timeout PROVE ItemsKept'
  <1>1. PICK b \in Nat :
            /\ Iteration(execs, b) /\ b <= Len(execs)
            /\ task = "IDLE" => NotStarted /\ b = 0
            /\ task = "RUNNING" => Iterating(b)
            /\ task = "DELAYED" => Delayed(b)
            /\ task \in Completed => Ended(b)
    BY ItemsPhase
  <1>2. mode \in Supported /\ Len(execs) \in Nat /\ mode' = mode /\ mode.timeout
    BY ItemsPhase DEF Timeout, others, ItemsKept
  <1>3. mode.retry = 0 /\ retryNo \in 0..MaxRetry /\ MaxRetry \in Nat
    <2>1. mode.retry \in Nat
      BY <1>2, Repeated, Bounds, ItemsAssumption
    <2> QED BY <1>2, <2>1, Repeated, ItemsAssumption DEF Repeats, ItemsKept, ItemsTypeOK
  <1>4. UNCHANGED <<others, restart>> /\ timer' = FALSE
    BY DEF Timeout
  <1>5. CASE task \in Completed
    <2>1. UNCHANGED <<task, execs, capacity, continues, retryNo, broken>>
      BY <1>5 DEF Timeout
    <2>2. Ended(b)'
      BY <1>1, <1>4, <1>5, <2>1 DEF Ended, AllRan, others
    <2>3. ItemsTypeOK'
      BY <1>4, <2>1 DEF ItemsKept, ItemsTypeOK, others
    <2> QED BY <1>1, <1>2, <1>4, <2>1, <2>2, <2>3, PhaseKept DEF ItemsKept, others
  <1>6. CASE task \notin Completed
    <2>1. ~(retryNo < mode.retry)
      BY <1>3
    <2>2. /\ task' = "ERROR" /\ execs' = execs /\ capacity' = capacity
          /\ continues' = continues /\ retryNo' = 0 /\ broken' = TRUE
      BY <1>6, <2>1 DEF Timeout, Complete
    <2>3. continues = 0 /\ ~restart
      <3>1. task # "DELAYED"
        BY <1>1, <1>3 DEF Delayed
      <3>2. task \in {"IDLE", "RUNNING"}
        BY <1>6, <3>1 DEF ItemsKept, ItemsTypeOK
      <3> QED BY <1>1, <3>2 DEF NotStarted, Iterating
    <2>4. Ended(b)'
      BY <1>4, <2>2, <2>3 DEF Ended, Completed
    <2>5. ItemsTypeOK'
      <3>1. 0 \in 0..MaxRetry
        BY <1>3
      <3> HIDE DEF Exec
      <3> QED BY <1>4, <2>2, <3>1 DEF ItemsKept, ItemsTypeOK, others, Completed
    <2> QED BY <1>1, <1>2, <1>4, <2>2, <2>4, <2>5, PhaseKept DEF ItemsKept, others
  <1> QED BY <1>5, <1>6

\* The operator asks for a rerun of a failed task.
LEMMA RerunKept ==
    ASSUME ItemsKept, Modes \subseteq Supported, Rerun PROVE ItemsKept'
  <1>1. PICK b \in Nat : Iteration(execs, b) /\ b <= Len(execs) /\ Ended(b)
    BY ItemsPhase DEF Rerun, Completed
  <1>2. mode \in Supported /\ Len(execs) \in Nat /\ mode' = mode /\ mode \in Mode
        /\ mode.concurrency \in Nat
    BY ItemsPhase, Bounds DEF Rerun
  <1>3. mode.rerun = "reset" /\ ~broken
    <2>1. mode.rerun \in {"none", "reset", "keep"} /\ mode.rerun # "none"
      BY <1>2 DEF Rerun, Mode
    <2>2. mode.rerun = "reset" /\ ~mode.timeout /\ ~mode.badItem
      BY <1>2, <2>1, Repeated DEF Repeats
    <2> QED BY <2>2 DEF ItemsKept
  <1>4. reruns' \in 0..MaxRerun
    <2>1. reruns \in 0..MaxRerun /\ MaxRerun \in Nat
      BY ItemsAssumption DEF ItemsKept, ItemsTypeOK
    <2>2. reruns < MaxRerun /\ reruns' = reruns + 1
      BY DEF Rerun
    <2> QED BY <2>1, <2>2
  <1>5. /\ restart' = TRUE /\ capacity' = mode.concurrency /\ retryNo' = 0 /\ task = "ERROR"
        /\ UNCHANGED <<mode, task, execs, jobs, continues, timer, agains, broken>>
    BY DEF Rerun
  <1>6. Ended(b)'
    BY <1>1, <1>3, <1>5 DEF Ended, AllRan
  <1>7. ItemsTypeOK'
    <2>1. 0 \in 0..MaxRetry
      BY ItemsAssumption
    <2> QED BY <1>2, <1>4, <1>5, <2>1 DEF ItemsKept, ItemsTypeOK
  <1> QED BY <1>1, <1>2, <1>5, <1>6, <1>7, PhaseKept DEF ItemsKept

\* The rerun begins another iteration.
LEMMA RunExistingKept ==
    ASSUME ItemsKept, Modes \subseteq Supported, RunExisting PROVE ItemsKept'
  <1>1. PICK b \in Nat :
            /\ Iteration(execs, b) /\ b <= Len(execs)
            /\ task = "IDLE" => NotStarted /\ b = 0
            /\ task = "RUNNING" => Iterating(b)
            /\ task = "DELAYED" => Delayed(b)
            /\ task \in Completed => Ended(b)
    BY ItemsPhase
  <1>2. /\ mode \in Supported /\ mode \in Mode /\ execs \in Seq(Exec)
        /\ Len(execs) \in Nat /\ DOMAIN execs = 1..Len(execs)
        /\ mode.count \in Nat /\ mode.concurrency \in Nat
    BY ItemsPhase, Bounds
  <1>3. Ended(b) /\ restart
    <2>1. restart /\ task \in {"IDLE", "RUNNING", "DELAYED"} \cup Completed
      BY DEF RunExisting, ItemsKept, ItemsTypeOK
    <2> QED BY <1>1, <2>1 DEF NotStarted, Iterating, Delayed
  <1>4. task = "ERROR" /\ mode.rerun = "reset" /\ Repeats /\ continues = 0
    BY <1>3 DEF Ended, Repeats
  <1>5. ~mode.timeout /\ broken = FALSE
    <2>1. ~mode.timeout /\ ~mode.badItem
      BY <1>2, <1>4, Repeated
    <2> QED BY <2>1 DEF ItemsKept, ItemsTypeOK
  <1>6. AllRan(b) /\ Ends(execs, "ERROR")
    BY <1>3, <1>4, <1>5 DEF Ended
  <1> DEFINE new == ResetActions(execs, TRUE)
             n == Len(execs)
  <1>7. /\ new \in Seq(Exec) /\ Len(new) = Len(execs) /\ RunningOf(new) = {}
        /\ Iteration(new, n)
    BY <1>1, <1>2, <1>4, <1>6, GivenUp DEF AllRan
  <1>8. ScheduleActions(new, capacity, 0) /\ restart' = FALSE
    BY <1>4 DEF RunExisting
  <1>9. Frame /\ jobs' = jobs
    BY <1>2, <1>5 DEF RunExisting, others, Frame, ItemsKept, ItemsTypeOK, Mode
  <1>10. n > 0 /\ mode.count > 0
    <2>1. DOMAIN execs # {}
      BY <1>6 DEF Ends, Accepted, Select
    <2>2. n > 0
      BY <1>2, <2>1
    <2>3. {new[k].index : k \in 1..n} = From(0) /\ 1 \in 1..n
      <3>1. {new[k].index : k \in 1..n} = From(0)
        <4> HIDE DEF new, n
        <4> QED BY <1>7, <2>2 DEF Iteration
      <3>2. 1 \in 1..n
        BY <1>2, <2>2
      <3> QED BY <3>1, <3>2
    <2>4. From(0) # {}
      BY <2>3
    <2>5. \A j : j \in From(0) => j \in 0..(mode.count - 1)
      BY <1>2, Bounds
    <2> QED BY <1>2, <2>2, <2>4, <2>5
  <1> HIDE DEF new
  <1>11. /\ capacity \in 0..mode.concurrency /\ retryNo \in 0..MaxRetry /\ mode \in Modes
         /\ jobs' \subseteq DOMAIN execs
    BY <1>9 DEF ItemsKept, ItemsTypeOK
  <1>12. DOMAIN new = 1..n
    BY <1>7
  <1>13. jobs' \subseteq DOMAIN new /\ \A k \in jobs' : new[k].state # "RUNNING"
    BY <1>2, <1>7, <1>11, <1>12 DEF RunningOf
  <1>14. mode.concurrency > 0 => jobs = {} /\ capacity = mode.concurrency
    BY <1>6 DEF AllRan
  <1>15. mode.concurrency > 0 =>
            capacity + Cardinality(RunningOf(new)) + Cardinality(jobs') = mode.concurrency
    BY <1>2, <1>7, <1>9, <1>14, FS_EmptySet
  <1>16. Len(new) - n < mode.count
    BY <1>2, <1>7, <1>10
  <1>17. /\ capacity > 0 \/ mode.concurrency = 0
         /\ n > 0 /\ mode.concurrency # 1 => Len(new) = n /\ capacity = mode.concurrency
    BY <1>2, <1>7, <1>11, <1>14
  <1> HIDE DEF n
  <1> QED BY <1>2, <1>5, <1>7, <1>8, <1>9, <1>11, <1>13, <1>15, <1>16, <1>17, ItemsStart

\* One case for each handler.
LEMMA StepKept == ASSUME ItemsKept, Modes \subseteq Supported, [ItemsNext]_itemsVars PROVE ItemsKept'
  <1>1. CASE UNCHANGED itemsVars
    <2>1. PICK b \in 0..Len(execs) :
             Iteration(execs, b) /\ (NotStarted \/ Iterating(b) \/ Delayed(b) \/ Ended(b))
      BY DEF ItemsKept
    <2>2. ItemsTypeOK'
      BY <1>1 DEF itemsVars, ItemsKept, ItemsTypeOK
    <2>3. (NotStarted \/ Iterating(b) \/ Delayed(b) \/ Ended(b))'
      <3>1. NotStarted => NotStarted'
        BY <1>1 DEF itemsVars, NotStarted
      <3>2. Iterating(b) => Iterating(b)'
        BY <1>1 DEF itemsVars, Iterating, RunningOf
      <3>3. Delayed(b) => Delayed(b)'
        BY <1>1 DEF itemsVars, Delayed
      <3>4. Ended(b) => Ended(b)'
        BY <1>1 DEF itemsVars, Ended, AllRan, RunningOf, Ends, Accepted, Select
      <3> QED BY <2>1, <3>1, <3>2, <3>3, <3>4
    <2>4. mode' = mode /\ execs' = execs /\ jobs' = jobs /\ broken' = broken /\ timer' = timer
      BY <1>1 DEF itemsVars
    <2>5. Iteration(execs', b) /\ b \in Nat /\ b <= Len(execs') /\ Len(execs') \in Nat
      BY <2>1, <2>4, ItemsPhase
    <2> QED BY <2>2, <2>3, <2>4, <2>5, PhaseKept DEF ItemsKept
  <1> QED BY <1>1, RunKept, ContinueTaskKept, TimeoutKept, RerunKept, RunExistingKept,
             OnActionCompleteKept, ResultKept DEF ItemsNext

-----------------------------------------------------------------------------
(* The theorems.                                                            *)

\* For any number of items, retries and reruns: behind the executions of former iterations
\* are those of the present one in the order of their items, and what ScheduleActions and
\* the completion jobs do keeps it so.
THEOREM ItemsInvariant ==
    ASSUME Modes \subseteq Supported
    PROVE  ItemsSpec => []ItemsKept
  BY InitKept, StepKept, PTL DEF ItemsSpec

\* _get_next_indexes never takes an item again that is running or has an accepted result,
\* and the capacity in the runtime context is what running executions and waiting jobs leave
\* of "concurrency", with any number of items and any order of results and jobs.
THEOREM ItemsSafety ==
    ASSUME Modes \subseteq Supported
    PROVE  ItemsSpec => []ItemsInv
  <1>1. ASSUME ItemsKept PROVE ItemsInv
    <2>1. PICK b \in Nat : /\ Iteration(execs, b) /\ b <= Len(execs)
                           /\ task = "RUNNING" => Iterating(b)
      BY <1>1, ItemsPhase
    <2>2. /\ mode \in Mode /\ execs \in Seq(Exec) /\ Len(execs) \in Nat
          /\ DOMAIN execs = 1..Len(execs)
      BY <1>1, ItemsPhase
    <2>3. Running = RunningOf(execs)
      BY DEF Running, Select, RunningOf
    <2>4. NoItemTwice
      <3>1. ASSUME NEW k \in Running, NEW l \in DOMAIN execs, k # l,
                   execs[k].index = execs[l].index, execs[l].state = "RUNNING" \/ execs[l].accepted
            PROVE  FALSE
        <4>1. k \in (b + 1)..Len(execs) /\ l \in (b + 1)..Len(execs)
          <5>1. k \in DOMAIN execs /\ execs[k].state = "RUNNING"
            BY <2>3, <3>1 DEF RunningOf
          <5>2. \A i \in DOMAIN execs : i \in 1..b \/ i \in (b + 1)..Len(execs)
            BY <2>1, <2>2
          <5>3. \A i \in 1..b : ~execs[i].accepted /\ execs[i].state # "RUNNING"
            BY <2>1 DEF Iteration, Completed
          <5> QED BY <3>1, <5>1, <5>2, <5>3
        <4>2. execs[k].index = k - b - 1 /\ execs[l].index = l - b - 1
          BY <2>1, <4>1 DEF Iteration
        <4>3. k \in Int /\ l \in Int /\ b \in Int
          BY <2>1, <2>2, <4>1
        <4>4. k - b - 1 = l - b - 1
          BY <3>1, <4>2
        <4>5. k = l
          BY <4>3, <4>4
        <4> QED BY <3>1, <4>5
      <3> QED BY <3>1 DEF NoItemTwice
    <2>5. CapacityIsFree
      BY <1>1, <2>1, <2>3 DEF CapacityIsFree, ItemsKept, Iterating
    <2> QED BY <1>1, <2>4, <2>5 DEF ItemsInv, ItemsKept
  <1> QED BY <1>1, ItemsInvariant, PTL

\* WithItemsTask.on_action_complete ends a task only when each item has one accepted
\* result: successful if all results are, failed or cancelled because of one of them.
THEOREM VerdictIsOfAllItems ==
    ASSUME Modes \subseteq Supported
    PROVE  ItemsSpec => []VerdictCoversItems
  <1>1. ASSUME ItemsKept PROVE VerdictCoversItems
    <2>1. PICK b \in Nat : /\ Iteration(execs, b) /\ b <= Len(execs)
                           /\ task \in Completed => Ended(b)
      BY <1>1, ItemsPhase
    <2>2. /\ mode \in Mode /\ execs \in Seq(Exec) /\ Len(execs) \in Nat
          /\ DOMAIN execs = 1..Len(execs) /\ mode.count \in Nat
      BY <1>1, ItemsPhase, Bounds
    <2>3. ASSUME AllRan(b)
          PROVE  /\ {execs[k].index : k \in Accepted(execs)} = From(0)
                 /\ Cardinality(Accepted(execs)) = mode.count
      <3>1. RunningOf(execs) = {} /\ Len(execs) - b = mode.count
        BY <2>3 DEF AllRan
      <3>2. Accepted(execs) = (b + 1)..Len(execs)
        <4>1. RunningOf(execs) = {k \in (b + 1)..Len(execs) : execs[k].state = "RUNNING"}
              /\ Accepted(execs) = {k \in (b + 1)..Len(execs) : execs[k].state # "RUNNING"}
          BY <2>1, <2>2, Counted
        <4> QED BY <3>1, <4>1
      <3>3. Cardinality(Accepted(execs)) = mode.count
        <4>1. /\ Cardinality(Accepted(execs)) + Cardinality(RunningOf(execs)) = Len(execs) - b
              /\ Cardinality(Accepted(execs)) \in Nat
          BY <2>1, <2>2, Counted
        <4> QED BY <3>1, <4>1, FS_EmptySet
      <3>4. \A k \in (b + 1)..Len(execs) : execs[k].index = k - b - 1
        BY <2>1 DEF Iteration
      <3>5. ASSUME NEW i \in From(0)
            PROVE  i + b + 1 \in (b + 1)..Len(execs) /\ execs[i + b + 1].index = i
        <4>1. i \in 0..(mode.count - 1)
          BY <2>2, Bounds
        <4>2. i + b + 1 \in (b + 1)..Len(execs) /\ (i + b + 1) - b - 1 = i
          BY <2>1, <2>2, <3>1, <4>1
        <4>3. execs[i + b + 1].index = (i + b + 1) - b - 1
          BY <3>4, <4>2
        <4> QED BY <4>2, <4>3
      <3>6. ASSUME NEW k \in (b + 1)..Len(execs) PROVE execs[k].index \in From(0)
        <4>1. k - b - 1 \in 0..(mode.count - 1)
          BY <2>1, <2>2, <3>1
        <4>2. \A j : j \in From(0) <=> j \in 0..(mode.count - 1) /\ 0 <= j
          BY <2>2, Bounds
        <4>3. execs[k].index = k - b - 1
          BY <3>4
        <4> QED BY <4>1, <4>2, <4>3
      <3> QED BY <3>2, <3>3, <3>5, <3>6
    <2>4. task = "SUCCESS" => AllRan(b) /\ \A k \in Accepted(execs) : execs[k].state = "SUCCESS"
      BY <2>1 DEF Ended, Completed
    <2>5. task = "ERROR" /\ ~broken => AllRan(b) /\ Ends(execs, "ERROR") /\ retryNo = 0
      BY <2>1 DEF Ended, Completed
    <2>6. task = "CANCELLED" => Ends(execs, "CANCELLED")
      BY <2>1 DEF Ended, Completed
    <2> QED BY <2>3, <2>4, <2>5, <2>6 DEF VerdictCoversItems
  <1> QED BY <1>1, ItemsInvariant, PTL
=============================================================================
