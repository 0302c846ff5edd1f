-------------------------- MODULE SubWorkflows_proofs --------------------------
(***************************************************************************)
(* Proofs about SubWorkflows.  Whatever cascades between the root and its  *)
(* subworkflows, what a task of the root ended with is what its            *)
(* subworkflow ended with; only pausing under a root that was stopped can  *)
(* break this, and such a root does not run again.                         *)
(***************************************************************************)
EXTENDS SubWorkflows, TLAPS

\* What a rerun is combined with: it resumes the root over the heads of the
\* subworkflows that are paused.
RerunApart == \A b \in Budgets : b.rerun > 0 => b.pause = 0

\* A task that ended has the state of its subworkflow.
Agree == \A s \in Sub : task[s] \in Completed => sub[s] = task[s]

\* Under a paused root the tasks of paused subworkflows are paused as well.
TasksArePaused ==
    root = "PAUSED" => \A s \in Sub : sub[s] = "PAUSED" => task[s] = "PAUSED"

\* What ended without a stop ended with all its tasks.
EndedWithTasks == ~stopped /\ root \in Completed => root = RootVerdict(task)

\* The inductive invariant.
SubKept ==
    /\ SubTypeOK
    /\ launches # {} => left.viaRpc
    /\ left.rerun > 0 => left.pause = 0 /\ \A s \in Sub : sub[s] # "PAUSED"
    /\ Agree \/ (stopped /\ root \in Completed /\ left.rerun = 0)
    /\ TasksArePaused /\ EndedWithTasks /\ PausedTogether /\ CancelReachesAll

-----------------------------------------------------------------------------
\* A verdict is a state of the root, and other than RUNNING only if all tasks ended.
LEMMA VerdictFacts ==
    ASSUME NEW ts
    PROVE  /\ RootVerdict(ts) \in {"RUNNING"} \cup Completed
           /\ RootVerdict(ts) # "RUNNING" <=> \A s \in Sub : ts[s] \in Completed
  BY DEF RootVerdict, Completed

\* What is spent was there, and nothing else changes.
LEMMA SpendFacts ==
    ASSUME SubTypeOK, NEW what \in {"pause", "stop", "rerun", "loss"}, Spend(what)
    PROVE  /\ left' \in Budget /\ left'.viaRpc = left.viaRpc
           /\ left[what] > 0
           /\ left'.rerun <= left.rerun /\ left'.pause <= left.pause
           /\ what # "rerun" => left'.rerun = left.rerun
           /\ left.rerun \in Nat /\ left.pause \in Nat
           /\ left'.rerun \in Nat /\ left'.pause \in Nat
  <1>1. /\ left.pause \in 0..2 /\ left.stop \in 0..2 /\ left.rerun \in 0..2 /\ left.loss \in 0..2
        /\ left.viaRpc \in BOOLEAN
        /\ left = [pause |-> left.pause, stop |-> left.stop, rerun |-> left.rerun,
                   loss |-> left.loss, viaRpc |-> left.viaRpc]
    BY DEF SubTypeOK, Budget
  <1>2. \A n \in 0..2 : n > 0 => n - 1 \in 0..2 /\ n - 1 <= n
    OBVIOUS
  <1>3. CASE what = "pause"
    BY <1>1, <1>2, <1>3 DEF Spend, Budget
  <1>4. CASE what = "stop"
    BY <1>1, <1>2, <1>4 DEF Spend, Budget
  <1>5. CASE what = "rerun"
    BY <1>1, <1>2, <1>5 DEF Spend, Budget
  <1>6. CASE what = "loss"
    BY <1>1, <1>2, <1>6 DEF Spend, Budget
  <1> QED BY <1>3, <1>4, <1>5, <1>6


\* The facts about a state that the proofs of the steps use.
LEMMA KeptFacts ==
    ASSUME SubKept
    PROVE  /\ task \in [Sub -> Live \cup Completed]
           /\ sub \in [Sub -> {"NONE"} \cup Live \cup Completed]
           /\ work \in [Sub -> {"NONE", "RUNNING"} \cup Completed]
           /\ root \in Live \cup Completed /\ left \in Budget /\ stopped \in BOOLEAN
           /\ launches \subseteq {s \in Sub : sub[s] = "NONE"}
           /\ results \subseteq {s \in Sub : sub[s] # "NONE"} /\ restarts \in [Sub -> Nat]
           /\ root \in Live => Agree
           /\ ~stopped => Agree
           /\ root \in Completed /\ left.rerun > 0 => Agree
           /\ left.rerun \in Nat /\ left.pause \in Nat
  BY DEF SubKept, SubTypeOK, Live, Completed, Budget

\* Starting and working, and losing a result: no task of the root changes.
LEMMA WorkKeeps ==
    ASSUME SubKept, NEW s \in Sub,
           Launch(s) \/ Lose(s) \/ RunExisting(s) \/ (\E state \in Completed : Work(s, state))
    PROVE  SubKept'
  <1> USE KeptFacts DEF Live, Completed
  <1>1. CASE Launch(s)
    <2>1. /\ launches' = launches \ {s} /\ sub[s] = "NONE" /\ left.viaRpc
          /\ sub' = [sub EXCEPT ![s] = "RUNNING"] /\ work' = [work EXCEPT ![s] = "RUNNING"]
          /\ UNCHANGED <<root, task, results, restarts, left, stopped>>
      BY <1>1 DEF Launch, SubKept
    <2>2. SubTypeOK'
      BY <2>1 DEF SubTypeOK
    <2>3. /\ left'.rerun > 0 => left'.pause = 0 /\ \A t \in Sub : sub'[t] # "PAUSED"
          /\ launches' # {} => left'.viaRpc
      BY <2>1 DEF SubKept
    <2>4. Agree' \/ (stopped' /\ root' \in Completed /\ left'.rerun = 0)
      BY <2>1 DEF SubKept, Agree
    <2>5. TasksArePaused' /\ EndedWithTasks'
      BY <2>1 DEF SubKept, TasksArePaused, EndedWithTasks, RootVerdict
    <2>6. PausedTogether' /\ CancelReachesAll'
      BY <2>1 DEF SubKept, PausedTogether, CancelReachesAll
    <2> QED BY <2>2, <2>3, <2>4, <2>5, <2>6 DEF SubKept
  <1>2. CASE Lose(s)
    <2>1. /\ results' = results \ {s} /\ left' \in Budget /\ left'.viaRpc = left.viaRpc
          /\ left'.rerun = left.rerun /\ left'.pause <= left.pause /\ left'.pause \in Nat
          /\ UNCHANGED <<root, task, sub, work, launches, restarts, stopped>>
      BY <1>2, SpendFacts DEF Lose, SubKept
    <2>2. SubTypeOK'
      BY <2>1 DEF SubTypeOK
    <2>3. /\ left'.rerun > 0 => left'.pause = 0 /\ \A t \in Sub : sub'[t] # "PAUSED"
          /\ launches' # {} => left'.viaRpc
      BY <2>1 DEF SubKept
    <2>4. Agree' \/ (stopped' /\ root' \in Completed /\ left'.rerun = 0)
      BY <2>1 DEF SubKept, Agree
    <2>5. TasksArePaused' /\ EndedWithTasks'
      BY <2>1 DEF SubKept, TasksArePaused, EndedWithTasks, RootVerdict
    <2>6. PausedTogether' /\ CancelReachesAll'
      BY <2>1 DEF SubKept, PausedTogether, CancelReachesAll
    <2> QED BY <2>2, <2>3, <2>4, <2>5, <2>6 DEF SubKept
  <1>3. ASSUME \/ RunExisting(s)
               \/ \E state \in Completed : Work(s, state)
        PROVE  SubKept'
    <2>1. /\ UNCHANGED <<root, task, launches, left, stopped>>
          /\ \/ sub' = sub /\ results' = results
             \/ /\ sub[s] = "RUNNING" /\ results' = results \cup {s}
                /\ \E state \in Completed : sub' = [sub EXCEPT ![s] = state]
          /\ \E w \in {"RUNNING"} \cup Completed : work' = [work EXCEPT ![s] = w]
          /\ restarts' \in [Sub -> Nat]
      <3>1. CASE RunExisting(s)
        <4>1. restarts' = [restarts EXCEPT ![s] = @ - 1] /\ restarts[s] \in Nat /\ restarts[s] > 0
          BY <3>1 DEF RunExisting
        <4>2. restarts[s] - 1 \in Nat
          BY <4>1
        <4>3. restarts' \in [Sub -> Nat]
          BY <4>1, <4>2
        <4>4. \E w \in {"RUNNING"} \cup Completed : work' = [work EXCEPT ![s] = w]
          BY <3>1 DEF RunExisting, Completed
        <4> QED BY <3>1, <4>3, <4>4 DEF RunExisting
      <3>2. CASE \E state \in Completed : Work(s, state)
        BY <3>2 DEF Work
      <3> QED BY <1>3, <3>1, <3>2
    <2>2. \A t \in Sub : sub'[t] = sub[t] \/ (sub[t] = "RUNNING" /\ sub'[t] \in Completed)
      BY <2>1
    <2>3. SubTypeOK'
      <3>1. sub' \in [Sub -> {"NONE"} \cup Live \cup Completed]
        BY <2>1
      <3>2. work' \in [Sub -> {"NONE", "RUNNING"} \cup Completed]
        BY <2>1
      <3>3. /\ launches' \subseteq {t \in Sub : sub'[t] = "NONE"}
            /\ results' \subseteq {t \in Sub : sub'[t] # "NONE"}
        BY <2>1, <2>2
      <3> QED BY <2>1, <3>1, <3>2, <3>3 DEF SubTypeOK
    <2>4. /\ left'.rerun > 0 => left'.pause = 0 /\ \A t \in Sub : sub'[t] # "PAUSED"
          /\ launches' # {} => left'.viaRpc
      BY <2>1, <2>2 DEF SubKept
    <2>5. Agree' \/ (stopped' /\ root' \in Completed /\ left'.rerun = 0)
      BY <2>1, <2>2 DEF SubKept, Agree
    <2>6. TasksArePaused' /\ EndedWithTasks'
      BY <2>1, <2>2 DEF SubKept, TasksArePaused, EndedWithTasks, RootVerdict
    <2>7. PausedTogether' /\ CancelReachesAll'
      BY <2>1, <2>2 DEF SubKept, PausedTogether, CancelReachesAll
    <2> QED BY <2>3, <2>4, <2>5, <2>6, <2>7 DEF SubKept
  <1> QED BY <1>1, <1>2, <1>3

\* A task takes the state of its subworkflow, from its result or the integrity check.
LEMMA TakeKeeps ==
    ASSUME SubKept, NEW s \in Sub, sub[s] # "NONE", Take(s), results' \subseteq results,
           UNCHANGED <<sub, work, launches, restarts, left, stopped>>
    PROVE  SubKept'
  <1> USE KeptFacts DEF Live, Completed
  <1>1. /\ task' = [task EXCEPT ![s] = IF @ \in Completed THEN @ ELSE sub[s]]
        /\ root' = IF root = "RUNNING" THEN RootVerdict(task') ELSE root
    BY DEF Take
  <1>2. /\ \A t \in Sub : task'[t] = task[t] \/ (task[t] \notin Completed /\ task'[t] = sub[t])
        /\ task' \in [Sub -> Live \cup Completed]
    BY <1>1
  <1>3. SubTypeOK'
    BY <1>1, <1>2, VerdictFacts DEF SubTypeOK
  <1>4. Agree => Agree'
    BY <1>2 DEF Agree
  <1>5. CASE root = "RUNNING"
    <2>1. Agree' /\ \A t \in Sub : sub[t] # "PAUSED"
      BY <1>4, <1>5 DEF SubKept, PausedTogether
    <2>2. root' # "PAUSED" /\ (root' \in Completed => \A t \in Sub : task'[t] \in Completed)
      BY <1>1, <1>5, VerdictFacts
    <2>3. root' \in Completed => \A t \in Sub : sub'[t] \in Completed
      BY <2>1, <2>2 DEF Agree
    <2>4. TasksArePaused' /\ EndedWithTasks' /\ PausedTogether'
      BY <1>1, <1>5, <2>1, <2>2 DEF TasksArePaused, EndedWithTasks, PausedTogether
    <2>5. CancelReachesAll'
      BY <2>3 DEF CancelReachesAll
    <2> QED BY <1>3, <2>1, <2>4, <2>5 DEF SubKept
  <1>6. CASE root # "RUNNING"
    <2>1. root' = root
      BY <1>1, <1>6
    <2>2. TasksArePaused' /\ PausedTogether' /\ CancelReachesAll'
      BY <1>2, <2>1 DEF SubKept, TasksArePaused, PausedTogether, CancelReachesAll
    <2>3. EndedWithTasks'
      <3> SUFFICES ASSUME ~stopped, root \in Completed PROVE root = RootVerdict(task')
        BY <2>1 DEF EndedWithTasks
      <3>1. root = RootVerdict(task)
        BY DEF SubKept, EndedWithTasks
      <3>2. \A t \in Sub : task[t] \in Completed
        BY <3>1, VerdictFacts
      <3>3. task' = task
        BY <1>1, <3>2
      <3> QED BY <3>1, <3>3
    <2>4. Agree' \/ (stopped' /\ root' \in Completed /\ left'.rerun = 0)
      BY <1>4, <2>1 DEF SubKept
    <2> QED BY <1>3, <2>2, <2>3, <2>4 DEF SubKept
  <1> QED BY <1>5, <1>6

\* A pause, of the root or of a subworkflow, reaches all that live; only under a root
\* that was stopped does a task fail without its subworkflow.
LEMMA PauseKeeps ==
    ASSUME SubKept, NEW s \in Sub, PausesAll(s), Spend("pause"),
           root \in Live \/ sub[s] = "RUNNING",
           UNCHANGED <<work, launches, results, restarts, stopped>>
    PROVE  SubKept'
  <1> USE KeptFacts DEF Live, Completed
  <1>1. /\ left' \in Budget /\ left'.viaRpc = left.viaRpc /\ left'.rerun = left.rerun
        /\ left.pause > 0
    BY SpendFacts DEF SubKept
  <1>2. left.rerun = 0 /\ left'.rerun = 0
    BY <1>1 DEF SubKept
  <1>3. /\ \A t \in Sub : sub'[t] = IF sub[t] \in Live THEN "PAUSED" ELSE sub[t]
        /\ sub' \in [Sub -> {"NONE"} \cup Live \cup Completed]
    BY DEF PausesAll, PausedSubs
  <1>4. root' = IF root \in Completed THEN root ELSE "PAUSED"
    BY DEF PausesAll
  <1>5. /\ \A t \in Sub : task'[t] = IF sub[t] # "RUNNING" THEN task[t]
                                     ELSE IF root \in Completed THEN "ERROR"
                                     ELSE Updated(task[t], "PAUSED")
        /\ task' \in [Sub -> Live \cup Completed]
    BY DEF PausesAll, Updated
  <1>6. SubTypeOK'
    BY <1>1, <1>3, <1>4, <1>5 DEF SubTypeOK
  <1>7. launches' # {} => left'.viaRpc
    BY <1>1 DEF SubKept
  <1>8. PausedTogether' /\ root' # "RUNNING"
    BY <1>4 DEF PausedTogether
  <1>9. CASE root \in Live
    <2>1. \A t \in Sub : sub[t] = "RUNNING" => task'[t] = "PAUSED"
      BY <1>5, <1>9 DEF Agree, Updated, Valid
    <2>2. Agree'
      BY <1>3, <1>5, <1>9, <2>1 DEF Agree
    <2>3. TasksArePaused'
      <3> SUFFICES ASSUME NEW t \in Sub, sub'[t] = "PAUSED" PROVE task'[t] = "PAUSED"
        BY DEF TasksArePaused
      <3>1. CASE sub[t] = "RUNNING"
        BY <2>1, <3>1
      <3>2. CASE sub[t] = "PAUSED"
        <4>1. root = "PAUSED"
          BY <1>9, <3>2 DEF SubKept, PausedTogether
        <4> QED BY <1>5, <3>2, <4>1 DEF SubKept, TasksArePaused
      <3> QED BY <1>3, <3>1, <3>2
    <2>4. EndedWithTasks' /\ CancelReachesAll'
      BY <1>4, <1>9 DEF EndedWithTasks, CancelReachesAll
    <2> QED BY <1>2, <1>6, <1>7, <1>8, <2>2, <2>3, <2>4 DEF SubKept
  <1>10. CASE root \in Completed
    <2>1. sub[s] = "RUNNING" /\ root' = root
      BY <1>4, <1>10
    <2>2. stopped
      <3> SUFFICES ASSUME ~stopped PROVE FALSE
        OBVIOUS
      <3>1. \A t \in Sub : task[t] \in Completed
        BY <1>10, VerdictFacts DEF SubKept, EndedWithTasks
      <3> QED BY <2>1, <3>1 DEF Agree
    <2>3. TasksArePaused' /\ EndedWithTasks'
      BY <1>10, <2>1, <2>2 DEF TasksArePaused, EndedWithTasks
    <2>4. CancelReachesAll'
      BY <1>1, <1>3, <2>1 DEF SubKept, CancelReachesAll
    <2> QED BY <1>2, <1>6, <1>7, <1>8, <1>10, <2>1, <2>2, <2>3, <2>4 DEF SubKept
  <1> QED BY <1>9, <1>10

\* Resuming: the subworkflows of S go on or end, their tasks follow, and the root goes
\* on with the last one that was paused.
LEMMA ResumeKeeps ==
    ASSUME SubKept, NEW S \in SUBSET Sub, \A s \in S : sub[s] = "PAUSED",
           \A s \in Sub : sub'[s] = IF s \in S THEN ResumedSub(s) ELSE sub[s],
           \A s \in Sub : task'[s] = IF s \in S THEN Updated(task[s], sub'[s]) ELSE task[s],
           sub' = [s \in Sub |-> sub'[s]], task' = [s \in Sub |-> task'[s]],
           results' = results \cup {s \in S : sub'[s] \in Completed},
           \/ root' = root
           \/ /\ root \in Live /\ root' = RootVerdict(task')
              /\ \A s \in Sub : sub'[s] # "PAUSED",
           UNCHANGED <<work, launches, restarts, left, stopped>>
    PROVE  SubKept'
  <1> USE KeptFacts DEF Live, Completed
  <1>1. \A s \in S : sub'[s] \in {"RUNNING"} \cup Completed
    BY DEF ResumedSub
  <1>2. /\ sub' \in [Sub -> {"NONE"} \cup Live \cup Completed]
        /\ \A s \in Sub : sub'[s] = "PAUSED" => sub[s] = "PAUSED" /\ s \notin S
        /\ \A s \in Sub : sub'[s] = "NONE" <=> sub[s] = "NONE"
    BY <1>1
  <1>3. task' \in [Sub -> Live \cup Completed]
    BY <1>1 DEF Updated
  <1>4. SubTypeOK'
    BY <1>2, <1>3, VerdictFacts DEF SubTypeOK
  <1>5. Agree => Agree'
    BY <1>1 DEF Agree, Updated
  <1>6. left'.rerun > 0 => left'.pause = 0 /\ \A s \in Sub : sub'[s] # "PAUSED"
    BY <1>2 DEF SubKept
  <1>7. CASE root' = root
    <2>1. Agree' \/ (stopped' /\ root' \in Completed /\ left'.rerun = 0)
      BY <1>5, <1>7 DEF SubKept
    <2>2. TasksArePaused' /\ PausedTogether'
      BY <1>2, <1>7 DEF SubKept, TasksArePaused, PausedTogether
    <2>3. CancelReachesAll'
      BY <1>7 DEF SubKept, CancelReachesAll
    <2>4. EndedWithTasks'
      <3> SUFFICES ASSUME ~stopped, root \in Completed PROVE root = RootVerdict(task')
        BY <1>7 DEF EndedWithTasks
      <3>1. root = RootVerdict(task)
        BY DEF SubKept, EndedWithTasks
      <3>2. \A t \in Sub : task[t] \in Completed
        BY <3>1, VerdictFacts
      <3>3. task' = task
        BY <3>2 DEF Updated
      <3> QED BY <3>1, <3>3
    <2> QED BY <1>4, <1>6, <2>1, <2>2, <2>3, <2>4 DEF SubKept
  <1>8. CASE /\ root \in Live /\ root' = RootVerdict(task')
             /\ \A s \in Sub : sub'[s] # "PAUSED"
    <2>1. Agree' /\ PausedTogether' /\ TasksArePaused'
      BY <1>5, <1>8 DEF PausedTogether, TasksArePaused
    <2>2. EndedWithTasks'
      BY <1>8 DEF EndedWithTasks
    <2>3. root' \in Completed => \A s \in Sub : sub'[s] \in Completed
      BY <1>8, <2>1, VerdictFacts DEF Agree
    <2>4. CancelReachesAll'
      BY <2>3 DEF CancelReachesAll
    <2> QED BY <1>4, <1>6, <2>1, <2>2, <2>4 DEF SubKept
  <1> QED BY <1>7, <1>8

\* The operator stops a subworkflow, or the root with all that lives below it.
LEMMA StopKeeps ==
    ASSUME SubKept, NEW to \in Completed, Stop(to) \/ \E s \in Sub : StopSub(s, to)
    PROVE  SubKept'
  <1> USE KeptFacts DEF Live, Completed
  <1>1. /\ Spend("stop") /\ UNCHANGED <<task, work, launches, restarts>>
        /\ left' \in Budget /\ left'.viaRpc = left.viaRpc /\ left'.rerun = left.rerun
        /\ left'.pause <= left.pause /\ left'.pause \in Nat
    <2>1. Spend("stop") /\ UNCHANGED <<task, work, launches, restarts>>
      BY DEF Stop, StopSub
    <2> QED BY <2>1, SpendFacts DEF SubKept
  <1>2. PICK S \in SUBSET Sub :
           /\ \A s \in S : sub[s] \in Live
           /\ sub' = [s \in Sub |-> IF s \in S THEN to ELSE sub[s]]
           /\ results' = results \cup S
           /\ \/ UNCHANGED <<root, stopped>>
              \/ /\ root' = (IF root \in Completed THEN root ELSE to) /\ stopped' = TRUE
                 /\ to = "CANCELLED" => S = {s \in Sub : sub[s] \in Live}
    <2>1. CASE Stop(to)
      <3>1. CancelsSubs(to) \in SUBSET Sub /\ \A s \in CancelsSubs(to) : sub[s] \in Live
        BY DEF CancelsSubs
      <3> QED BY <2>1, <3>1 DEF Stop, CancelsSubs
    <2>2. ASSUME NEW s \in Sub, StopSub(s, to)
          PROVE  /\ sub[s] \in Live /\ UNCHANGED <<root, stopped>>
                 /\ sub' = [t \in Sub |-> IF t \in {s} THEN to ELSE sub[t]]
                 /\ results' = results \cup {s} /\ {s} \in SUBSET Sub
      BY <2>2 DEF StopSub, Stoppable
    <2>3. CASE \E s \in Sub : StopSub(s, to)
      <3>1. PICK s \in Sub : StopSub(s, to)
        BY <2>3
      <3>2. /\ sub[s] \in Live /\ UNCHANGED <<root, stopped>>
            /\ sub' = [t \in Sub |-> IF t \in {s} THEN to ELSE sub[t]]
            /\ results' = results \cup {s} /\ {s} \in SUBSET Sub
        BY <2>2, <3>1
      <3>3. \A t \in {s} : sub[t] \in Live
        BY <3>2
      <3> QED BY <3>2, <3>3
    <2> QED BY <2>1, <2>3
  <1>3. /\ sub' \in [Sub -> {"NONE"} \cup Live \cup Completed]
        /\ \A s \in Sub : sub'[s] = "PAUSED" => sub[s] = "PAUSED"
        /\ \A s \in Sub : sub'[s] = "NONE" <=> sub[s] = "NONE"
        /\ \A s \in Sub : sub'[s] \in Live => sub[s] \in Live
    BY <1>2
  <1>4. SubTypeOK'
    BY <1>1, <1>2, <1>3 DEF SubTypeOK
  <1>5. Agree => Agree'
    BY <1>1, <1>2 DEF Agree
  <1>6. Agree' \/ (stopped' /\ root' \in Completed /\ left'.rerun = 0)
    BY <1>1, <1>2, <1>5 DEF SubKept
  <1>7. /\ launches' # {} => left'.viaRpc
        /\ left'.rerun > 0 => left'.pause = 0 /\ \A s \in Sub : sub'[s] # "PAUSED"
    BY <1>1, <1>3 DEF SubKept
  <1>8. TasksArePaused' /\ PausedTogether'
    BY <1>1, <1>2, <1>3 DEF SubKept, TasksArePaused, PausedTogether
  <1>9. EndedWithTasks'
    BY <1>1, <1>2 DEF SubKept, EndedWithTasks, RootVerdict
  <1>10. CancelReachesAll'
    BY <1>1, <1>2, <1>3 DEF SubKept, CancelReachesAll
  <1> QED BY <1>4, <1>6, <1>7, <1>8, <1>9, <1>10 DEF SubKept

\* Rerun and skip: the root and the task run again, and nothing is paused.
LEMMA RerunKeeps ==
    ASSUME SubKept, NEW s \in Sub, Rerun(s) \/ Skip(s)
    PROVE  SubKept'
  <1> USE KeptFacts DEF Live, Completed
  <1>1. /\ left' \in Budget /\ left'.viaRpc = left.viaRpc /\ left.rerun > 0
        /\ left'.pause <= left.pause /\ left'.pause \in Nat
    <2>1. Spend("rerun")
      BY DEF Rerun, Skip
    <2> QED BY <2>1, SpendFacts DEF SubKept
  <1>2. left'.pause = 0 /\ \A t \in Sub : sub[t] # "PAUSED"
    <2>1. left.pause = 0 /\ \A t \in Sub : sub[t] # "PAUSED"
      BY <1>1 DEF SubKept
    <2> QED BY <1>1, <2>1
  <1>3. /\ root' = "RUNNING" /\ task' = [task EXCEPT ![s] = "RUNNING"]
        /\ UNCHANGED <<launches, stopped>> /\ sub[s] # "NONE"
        /\ \E to \in {"RUNNING", "SUCCESS"} : sub' = [sub EXCEPT ![s] = to]
        /\ results \subseteq results' /\ results' \subseteq results \cup {s}
        /\ work' \in [Sub -> {"NONE", "RUNNING"} \cup Completed] /\ restarts' \in [Sub -> Nat]
    <2>1. CASE Rerun(s)
      <3>1. \A n \in Nat : n + 1 \in Nat
        OBVIOUS
      <3>2. restarts' \in [Sub -> Nat]
        BY <2>1, <3>1 DEF Rerun
      <3> QED BY <2>1, <3>2 DEF Rerun, RerunsUp, CanRerun
    <2>2. CASE Skip(s)
      BY <2>2 DEF Skip, CanRerun
    <2> QED BY <2>1, <2>2
  <1>4. \A t \in Sub : sub'[t] # "PAUSED" /\ (sub'[t] = "NONE" <=> sub[t] = "NONE")
    BY <1>2, <1>3
  <1>5. SubTypeOK'
    <2>1. sub' \in [Sub -> {"NONE"} \cup Live \cup Completed]
      BY <1>3
    <2>2. task' \in [Sub -> Live \cup Completed]
      BY <1>3
    <2>3. /\ launches' \subseteq {t \in Sub : sub'[t] = "NONE"}
          /\ results' \subseteq {t \in Sub : sub'[t] # "NONE"}
      BY <1>3, <1>4
    <2> QED BY <1>1, <1>3, <2>1, <2>2, <2>3 DEF SubTypeOK
  <1>6. Agree'
    <2>1. Agree
      BY <1>1 DEF SubKept
    <2> QED BY <1>3, <2>1 DEF Agree
  <1>7. TasksArePaused' /\ EndedWithTasks' /\ PausedTogether' /\ CancelReachesAll'
    BY <1>3, <1>4 DEF TasksArePaused, EndedWithTasks, PausedTogether, CancelReachesAll
  <1> QED BY <1>1, <1>2, <1>3, <1>4, <1>5, <1>6, <1>7 DEF SubKept

-----------------------------------------------------------------------------
(* The theorems.                                                            *)

\* For any number of subworkflows and whatever is lost, stopped, paused or run again, as
\* long as a rerun is not combined with pauses: the invariant holds.
THEOREM SubInvariant ==
    ASSUME RerunApart
    PROVE  SubSpec => []SubKept
  <1> USE DEF Live, Completed
  <1>1. Init => SubKept
    <2> SUFFICES ASSUME Init PROVE SubKept
      OBVIOUS
    <2>1. /\ left \in Budget /\ left.viaRpc \in BOOLEAN /\ left.rerun \in Nat
          /\ left.rerun > 0 => left.pause = 0
      BY SubAssumption DEF Init, RerunApart, Budget
    <2>2. /\ root = "RUNNING" /\ task = [s \in Sub |-> "RUNNING"] /\ results = {}
          /\ restarts = [s \in Sub |-> 0] /\ stopped = FALSE
          /\ \/ /\ left.viaRpc /\ launches = Sub
                /\ sub = [s \in Sub |-> "NONE"] /\ work = [s \in Sub |-> "NONE"]
             \/ /\ launches = {}
                /\ sub = [s \in Sub |-> "RUNNING"] /\ work = [s \in Sub |-> "RUNNING"]
      BY DEF Init
    <2>3. SubTypeOK
      BY <2>1, <2>2 DEF SubTypeOK
    <2>4. Agree /\ TasksArePaused /\ EndedWithTasks /\ PausedTogether /\ CancelReachesAll
      BY <2>2 DEF Agree, TasksArePaused, EndedWithTasks, PausedTogether, CancelReachesAll
    <2> QED BY <2>1, <2>2, <2>3, <2>4 DEF SubKept
  <1>2. ASSUME SubKept, [Next]_vars PROVE SubKept'
    <2> USE <1>2
    <2>1. CASE \E s \in Sub : \/ Launch(s) \/ Lose(s) \/ RunExisting(s)
                              \/ \E state \in Completed : Work(s, state)
      BY <2>1, WorkKeeps
    <2>2. ASSUME NEW s \in Sub, OnActionComplete(s) \/ CheckAndFixIntegrity(s)
          PROVE  SubKept'
      <3>1. /\ sub[s] # "NONE" /\ Take(s) /\ results' \subseteq results
            /\ UNCHANGED <<sub, work, launches, restarts, left, stopped>>
        BY <2>2, KeptFacts DEF OnActionComplete, CheckAndFixIntegrity, StuckTasks
      <3> QED BY <3>1, TakeKeeps
    <2>3. CASE Pause
      <3>1. PICK s \in Sub : PausesAll(s)
        BY <2>3 DEF Pause
      <3> QED BY <2>3, <3>1, PauseKeeps DEF Pause
    <2>4. ASSUME NEW s \in Sub, PauseSub(s) PROVE SubKept'
      BY <2>4, PauseKeeps DEF PauseSub
    <2>5. CASE Resume
      <3> DEFINE S == {s \in Sub : sub[s] = "PAUSED"}
      <3>1. /\ root = "PAUSED" /\ UNCHANGED <<work, launches, restarts, left, stopped>>
            /\ sub' = [s \in Sub |-> IF s \in S THEN ResumedSub(s) ELSE sub[s]]
            /\ task' = [s \in Sub |-> IF s \in S THEN Updated(task[s], sub'[s])
                                                 ELSE task[s]]
            /\ results' = results \cup {s \in S : sub'[s] \in Completed}
            /\ root' = RootVerdict(task')
        BY <2>5 DEF Resume, Resumes
      <3>2. /\ sub' = [s \in Sub |-> sub'[s]] /\ task' = [s \in Sub |-> task'[s]]
            /\ S \in SUBSET Sub /\ \A s \in S : sub[s] = "PAUSED"
            /\ \A s \in Sub : sub'[s] = IF s \in S THEN ResumedSub(s) ELSE sub[s]
            /\ \A s \in Sub : task'[s] = IF s \in S THEN Updated(task[s], sub'[s]) ELSE task[s]
        BY <3>1
      <3>3. \A s \in Sub : sub'[s] # "PAUSED"
        BY <3>2, KeptFacts DEF ResumedSub
      <3> HIDE DEF S
      <3> QED BY <3>1, <3>2, <3>3, ResumeKeeps
    <2>6. ASSUME NEW r \in Sub, ResumeSub(r) PROVE SubKept'
      <3> DEFINE S == {r}
      <3>1. /\ sub[r] = "PAUSED" /\ UNCHANGED <<work, launches, restarts, left, stopped>>
            /\ sub' = [s \in Sub |-> IF s \in S THEN ResumedSub(s) ELSE sub[s]]
            /\ task' = [s \in Sub |-> IF s \in S THEN Updated(task[s], sub'[s])
                                                 ELSE task[s]]
            /\ results' = results \cup {s \in S : sub'[s] \in Completed}
            /\ root' = (IF \/ /\ root = "PAUSED" /\ ResumedSub(r) = "RUNNING"
                              /\ \A t \in Sub : task'[t] # "PAUSED"
                           \/ root = "RUNNING" THEN RootVerdict(task') ELSE root)
        BY <2>6 DEF ResumeSub, Resumes
      <3>2. /\ sub' = [s \in Sub |-> sub'[s]] /\ task' = [s \in Sub |-> task'[s]]
            /\ S \in SUBSET Sub /\ \A s \in S : sub[s] = "PAUSED"
            /\ \A s \in Sub : sub'[s] = IF s \in S THEN ResumedSub(s) ELSE sub[s]
            /\ \A s \in Sub : task'[s] = IF s \in S THEN Updated(task[s], sub'[s]) ELSE task[s]
        BY <3>1
      <3>3. root # "RUNNING"
        BY <3>1 DEF SubKept, PausedTogether
      <3>4. \/ root' = root
            \/ /\ root \in Live /\ root' = RootVerdict(task')
               /\ \A s \in Sub : sub'[s] # "PAUSED"
        <4>1. sub'[r] # "PAUSED"
          BY <3>2, KeptFacts DEF ResumedSub
        <4>2. ASSUME root = "PAUSED", \A t \in Sub : task'[t] # "PAUSED",
                     NEW s \in Sub, s # r
              PROVE  sub'[s] # "PAUSED"
          BY <3>2, <4>2 DEF SubKept, TasksArePaused
        <4> QED BY <3>1, <3>3, <4>1, <4>2
      <3> HIDE DEF S
      <3> QED BY <3>1, <3>2, <3>4, ResumeKeeps
    <2>7. CASE \E to \in Completed : Stop(to) \/ \E s \in Sub : StopSub(s, to)
      BY <2>7, StopKeeps
    <2>8. CASE \E s \in Sub : Rerun(s) \/ Skip(s)
      BY <2>8, RerunKeeps
    <2>9. CASE UNCHANGED vars
      BY <2>9 DEF vars, SubKept, SubTypeOK, Agree, TasksArePaused, EndedWithTasks,
                  PausedTogether, CancelReachesAll, RootVerdict
    <2> QED BY <2>1, <2>2, <2>3, <2>4, <2>5, <2>6, <2>7, <2>8, <2>9 DEF Next, Operator
  <1> QED BY <1>1, <1>2, PTL DEF SubSpec

\* What a task of the root, and the root, ended with is what is below it, also when a
\* result was lost, came twice or came after a rerun; only a stop may leave more behind.
THEOREM SubSafety ==
    ASSUME RerunApart
    PROVE  SubSpec => []SubInv
  <1>1. ASSUME SubKept PROVE SubInv
    <2>1. SubTypeOK /\ (~stopped => Agree) /\ EndedWithTasks
      BY <1>1 DEF SubKept
    <2>2. ASSUME ~stopped, root \in Completed PROVE \A s \in Sub : sub[s] \in Completed
      <3>1. \A s \in Sub : task[s] \in Completed
        BY <2>1, <2>2, VerdictFacts DEF EndedWithTasks, Completed
      <3> QED BY <2>1, <2>2, <3>1 DEF Agree
    <2> QED BY <2>1, <2>2 DEF SubInv, VerdictsAgree, Agree, EndedWithTasks
  <1> QED BY <1>1, SubInvariant, PTL

\* While the root runs no subworkflow is paused: a pause of one reaches the root and a
\* resume of the last one takes it along.
THEOREM PausedWithTheRoot ==
    ASSUME RerunApart
    PROVE  SubSpec => []PausedTogether
  <1>1. SubKept => PausedTogether
    BY DEF SubKept
  <1> QED BY <1>1, SubInvariant, PTL

\* A cancelled root leaves no subworkflow alive, whether it was cancelled by the operator
\* or by the verdict of its tasks.
THEOREM CancelledToTheLeaves ==
    ASSUME RerunApart
    PROVE  SubSpec => []CancelReachesAll
  <1>1. SubKept => CancelReachesAll
    BY DEF SubKept
  <1> QED BY <1>1, SubInvariant, PTL
=============================================================================
