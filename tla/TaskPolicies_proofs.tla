-------------------------- MODULE TaskPolicies_proofs --------------------------
(***************************************************************************)
(* Proofs about TaskPolicies.  A task with policies goes from one phase to *)
(* the next: what it waits for is a message, an action, a job or the       *)
(* transaction of one, and only a timeout comes in between.                *)
(***************************************************************************)
EXTENDS TaskPolicies, FiniteSetTheorems, SequenceTheorems, TLAPS

\* What a timeout is combined with: the jobs of retry, wait-before and pause-before
\* do not see what the job of the timeout did.
TimeoutApart == \A p \in Policies : p.timeout => /\ p.retry = 0 /\ ~p.waitBefore
                                                 /\ ~p.pauseBefore

Last == actions[Len(actions)]

\* A former iteration ended, was not cancelled, and its result does not count.
Spent(a) == a.state \notin {"RUNNING", "CANCELLED"} /\ ~a.accepted
FormerSpent == \A i \in 1..(Len(actions) - 1) : Spent(actions[i])

\* Before its first action: with the message to start, or after pause-before with
\* none until the workflow is resumed.
Idle ==
    /\ task = "IDLE" /\ actions = <<>> /\ txs = {} /\ continues = 0 /\ completions = {}
    /\ ~timer /\ retryNo = 0 /\ ~timedOut
    /\ \/ calls = {"start"} /\ wf = "RUNNING"
       \/ /\ policy.pauseBefore /\ ~policy.timeout
          /\ calls = IF wf = "PAUSED" THEN {} ELSE {"restart"}

\* After wait-before or a retry: a job or its transaction starts the next action.
ToContinue ==
    /\ task = "DELAYED" /\ ~policy.timeout /\ completions = {}
    /\ Len(actions) = retryNo /\ \A i \in DOMAIN actions : Spent(actions[i])
    /\ \/ continues = 1 /\ txs = {}
       \/ continues = 0 /\ \E x \in txs : txs = {x} /\ x.op = "continue" /\ x.seen = "DELAYED"

\* The last action is running, or its result is being handled.
Acting ==
    /\ task = "RUNNING" /\ continues = 0 /\ completions = {}
    /\ Len(actions) = retryNo + 1 /\ Last = NewAction /\ FormerSpent
    /\ \A x \in txs : x.op \in {"result", "timeout"} /\ x.seen = "RUNNING"

\* After wait-after: a job or its transaction completes the task with the state of
\* the last action, or with ERROR if a timeout was first.
WaitsFor(s) ==
    /\ Last = [state |-> s, accepted |-> TRUE] \/ (timedOut /\ s = "ERROR")
    /\ \/ completions = {s} /\ \A x \in txs : x.op # "complete"
       \/ completions = {} /\ \E x \in txs : x.op = "complete" /\ x.res = s /\ x.seen = "DELAYED"
ToComplete ==
    /\ task = "DELAYED" /\ waited /\ continues = 0
    /\ Len(actions) = retryNo + 1 /\ FormerSpent
    /\ \A x \in txs : x.op # "continue" /\ x.seen \in {"RUNNING", "DELAYED"}
    /\ \E s \in Completed : WaitsFor(s)

\* The end, as EndMatchesPolicies has it; what a timeout left behind is ignored.
Ended ==
    /\ task \in Completed /\ continues = 0
    /\ Len(actions) \in 1..(1 + policy.retry) /\ FormerSpent
    /\ \A x \in txs : x.op # "continue"
    /\ EndMatchesPolicies

\* The next tasks are dispatched once, when the task has ended in a workflow that is
\* not paused.
DispatchKept ==
    IF task \in Completed
    THEN /\ dispatched \in {0, 1} /\ processed = (dispatched = 1)
         /\ wf = "RUNNING" => dispatched = 1
    ELSE dispatched = 0 /\ ~processed

\* The transactions: one of a kind, of the last action if it is about a result; one
\* job completes the task, or the transaction of one.
TxsKept ==
    /\ \A x, y \in txs : x.op = y.op => x = y
    /\ \A s, r \in completions : s = r
    /\ completions # {} => \A x \in txs : x.op # "complete"
    /\ \A x \in txs : /\ x.op \in {"result", "complete"} => x.res \in Completed
                      /\ x.op = "result" => /\ x.action = Len(actions)
                                            /\ x.action \in DOMAIN actions
                                            /\ Last.state = "RUNNING"

\* There is one timeout, by the job or its transaction.
TimerKept ==
    /\ (timer \/ timedOut \/ \E x \in txs : x.op = "timeout") => policy.timeout
    /\ timer => ~timedOut /\ \A x \in txs : x.op # "timeout"
    /\ (\E x \in txs : x.op = "timeout") => ~timedOut

\* The inductive invariant.
PolicyKept ==
    /\ PolicyTypeOK /\ policy \in Policies /\ retryNo <= policy.retry
    /\ DispatchKept /\ TxsKept /\ TimerKept
    /\ Idle \/ (calls = {} /\ (ToContinue \/ Acting \/ ToComplete \/ Ended))

-----------------------------------------------------------------------------
(* Lists of actions.                                                        *)

\* A function on the positions of a list is a list of that length.
LEMMA MapIsList ==
    ASSUME NEW as \in Seq(Action), NEW f \in [DOMAIN as -> Action]
    PROVE  f \in Seq(Action) /\ Len(f) = Len(as) /\ DOMAIN f = DOMAIN as
  <1>1. Len(as) \in Nat /\ DOMAIN as = 1..Len(as)
    BY LenProperties
  <1>2. f \in [1..Len(as) -> Action]
    BY <1>1
  <1>3. f \in Seq(Action)
    BY <1>1, <1>2, SeqDef
  <1>4. DOMAIN f = 1..Len(f) /\ Len(f) \in Nat
    BY <1>3, LenProperties
  <1>5. DOMAIN f = 1..Len(as)
    BY <1>2
  <1>6. Len(f) = Len(as)
    <2>1. \A m \in Nat, k \in Nat : 1..m = 1..k => m = k
      <3> SUFFICES ASSUME NEW m \in Nat, NEW k \in Nat, 1..m = 1..k PROVE m = k
        OBVIOUS
      <3>1. \A i \in Nat : (1 <= i /\ i <= m) <=> (1 <= i /\ i <= k)
        <4> TAKE i \in Nat
        <4>1. i \in 1..m <=> i \in 1..k
          OBVIOUS
        <4> QED BY <4>1
      <3>2. m <= k
        <4>1. CASE m = 0
          BY <4>1
        <4>2. CASE m # 0
          BY <3>1, <4>2
        <4> QED BY <4>1, <4>2
      <3>3. k <= m
        <4>1. CASE k = 0
          BY <4>1
        <4>2. CASE k # 0
          BY <3>1, <4>2
        <4> QED BY <4>1, <4>2
      <3> QED BY <3>2, <3>3
    <2> QED BY <1>1, <1>4, <1>5, <2>1
  <1> QED BY <1>1, <1>3, <1>5, <1>6

\* The results of a list are not accepted any more, and nothing else changes.
LEMMA InvalidList ==
    ASSUME NEW as \in Seq(Action)
    PROVE  /\ Invalid(as) \in Seq(Action) /\ Len(Invalid(as)) = Len(as)
           /\ DOMAIN Invalid(as) = DOMAIN as
           /\ \A i \in DOMAIN as : /\ Invalid(as)[i].state = as[i].state
                                   /\ ~Invalid(as)[i].accepted
  <1>1. \A i \in DOMAIN as : as[i] \in Action
    BY ElementOfSeq, LenProperties
  <1>2. \A i \in DOMAIN as : /\ [as[i] EXCEPT !.accepted = FALSE] \in Action
                             /\ [as[i] EXCEPT !.accepted = FALSE].state = as[i].state
                             /\ [as[i] EXCEPT !.accepted = FALSE].accepted = FALSE
    BY <1>1 DEF Action
  <1>3. Invalid(as) \in [DOMAIN as -> Action]
    BY <1>2 DEF Invalid
  <1>4. \A i \in DOMAIN as : Invalid(as)[i] = [as[i] EXCEPT !.accepted = FALSE]
    BY DEF Invalid
  <1>5. \A i \in DOMAIN as : Invalid(as)[i].state = as[i].state /\ ~Invalid(as)[i].accepted
    BY <1>2, <1>4
  <1> QED BY <1>3, <1>5, MapIsList

\* A new action follows the former ones.
LEMMA NewIsLast ==
    ASSUME NEW as \in Seq(Action), \A i \in DOMAIN as : Spent(as[i]),
           actions' = Append(as, NewAction)
    PROVE  /\ actions' \in Seq(Action) /\ Len(actions') = Len(as) + 1
           /\ Last' = NewAction /\ FormerSpent'
  <1>1. NewAction \in Action /\ Len(as) \in Nat /\ DOMAIN as = 1..Len(as)
    BY LenProperties DEF NewAction, Action
  <1>2. /\ actions' \in Seq(Action) /\ Len(actions') = Len(as) + 1
        /\ actions'[Len(as) + 1] = NewAction
        /\ \A i \in 1..Len(as) : actions'[i] = as[i]
    <2>1. Append(as, NewAction) \in Seq(Action)
      BY <1>1, AppendProperties
    <2>2. Len(Append(as, NewAction)) = Len(as) + 1
      BY <1>1, AppendProperties
    <2>3. \A i \in 1..Len(as) : Append(as, NewAction)[i] = as[i]
      BY <1>1, AppendProperties
    <2>4. Append(as, NewAction)[Len(as) + 1] = NewAction
      BY <1>1, AppendProperties
    <2> QED BY <2>1, <2>2, <2>3, <2>4
  <1>3. (Len(as) + 1) - 1 = Len(as)
    <2>1. \A m \in Nat : (m + 1) - 1 = m
      OBVIOUS
    <2> QED BY <1>1, <2>1
  <1> QED BY <1>1, <1>2, <1>3 DEF Last, FormerSpent, Spent

\* The result of the last action is stored.
LEMMA LastEnds ==
    ASSUME actions \in Seq(Action), Len(actions) \in DOMAIN actions, FormerSpent,
           NEW s \in Completed, NEW as,
           as = [actions EXCEPT ![Len(actions)] = [state |-> s, accepted |-> TRUE]]
    PROVE  /\ as \in Seq(Action) /\ Len(as) = Len(actions) /\ DOMAIN as = DOMAIN actions
           /\ as[Len(as)] = [state |-> s, accepted |-> TRUE]
           /\ \A i \in 1..(Len(as) - 1) : Spent(as[i])
  <1>1. /\ DOMAIN actions = 1..Len(actions) /\ Len(actions) \in Nat
        /\ \A i \in DOMAIN actions : actions[i] \in Action
    BY ElementOfSeq, LenProperties
  <1>2. [state |-> s, accepted |-> TRUE] \in Action
    BY DEF Action
  <1>3. as \in [DOMAIN actions -> Action]
    <2> DEFINE e == [state |-> s, accepted |-> TRUE]
    <2>1. e \in Action
      BY <1>2
    <2> HIDE DEF e
    <2>2. as = [actions EXCEPT ![Len(actions)] = e]
      BY DEF e
    <2>3. actions = [i \in DOMAIN actions |-> actions[i]]
      BY SeqDef
    <2> QED BY <1>1, <2>1, <2>2, <2>3
  <1>4. as \in Seq(Action) /\ Len(as) = Len(actions) /\ DOMAIN as = DOMAIN actions
    BY <1>3, MapIsList
  <1>5. as[Len(actions)] = [state |-> s, accepted |-> TRUE]
    OBVIOUS
  <1>6. ASSUME NEW i \in 1..(Len(actions) - 1)
        PROVE  i \in DOMAIN actions /\ as[i] = actions[i]
    <2>0. \A m \in Nat : \A k \in 1..(m - 1) : k \in 1..m /\ k # m
      OBVIOUS
    <2>1. i \in 1..Len(actions) /\ i # Len(actions)
      BY <1>1, <2>0
    <2>2. i \in DOMAIN actions
      BY <1>1, <2>1
    <2> QED BY <2>1, <2>2
  <1> QED BY <1>4, <1>5, <1>6 DEF FormerSpent

-----------------------------------------------------------------------------
(* The steps.                                                               *)

\* What Task.complete() may do: nothing, wait, try again, or end the task in a state
\* that its policies allow.
LEMMA CompleteCases ==
    ASSUME NEW s \in Completed, NEW seen, NEW acts, Complete(s, seen, acts)
    PROVE  \/ /\ seen \in Completed \/ task # seen
              /\ actions' = acts /\ UNCHANGED <<taskVars, jobVars>>
           \/ /\ seen \notin Completed /\ task = seen /\ ~waited
              /\ WaitAfter(s) /\ actions' = acts
           \/ /\ seen \notin Completed /\ task = seen /\ s # "CANCELLED"
              /\ retryNo < policy.retry /\ Retry(acts)
           \/ /\ seen \notin Completed /\ task = seen /\ actions' = acts
              /\ \E end \in Completed :
                    /\ Finish(end)
                    /\ end = s \/ (s = "SUCCESS" /\ end = "ERROR" /\ policy.failOn)
                    /\ (end = "ERROR" /\ ~policy.breakOn /\ ~policy.continueOn)
                           => ~(retryNo < policy.retry)
  <1>1. CASE seen \in Completed \/ ~UpdateMatches(seen)
    BY <1>1 DEF Complete, UpdateMatches
  <1>2. CASE seen \notin Completed /\ UpdateMatches(seen) /\ WaitsAfter
    BY <1>2 DEF Complete, UpdateMatches, WaitAfter, WaitsAfter
  <1>3. CASE seen \notin Completed /\ UpdateMatches(seen) /\ ~WaitsAfter
    <2>1. PICK f \in BOOLEAN, b \in BOOLEAN, c \in BOOLEAN :
             LET end == IF s = "SUCCESS" /\ f THEN "ERROR" ELSE s
             IN  /\ f => policy.failOn
                 /\ b => policy.breakOn
                 /\ c => policy.continueOn
                 /\ \/ Retries(end, b, c) /\ Retry(acts)
                    \/ ~Retries(end, b, c) /\ Finish(end) /\ actions' = acts
      BY <1>3 DEF Complete, WaitAfter
    <2> DEFINE end == IF s = "SUCCESS" /\ f THEN "ERROR" ELSE s
    <2>2. CASE Retries(end, b, c) /\ Retry(acts)
      <3>1. s # "CANCELLED" /\ retryNo < policy.retry
        BY <2>2 DEF Retries
      <3> QED BY <1>3, <2>2, <3>1 DEF UpdateMatches
    <2>3. CASE ~Retries(end, b, c) /\ Finish(end) /\ actions' = acts
      <3>1. end \in Completed /\ (end = s \/ (s = "SUCCESS" /\ end = "ERROR" /\ policy.failOn))
        BY <2>1 DEF Completed
      <3>2. (end = "ERROR" /\ ~policy.breakOn /\ ~policy.continueOn)
                => ~(retryNo < policy.retry)
        BY <2>1, <2>3 DEF Retries
      <3> QED BY <1>3, <2>3, <3>1, <3>2 DEF UpdateMatches
    <2> QED BY <2>1, <2>2, <2>3
  <1> QED BY <1>1, <1>2, <1>3

\* What the phases have in common.
LEMMA PhaseFacts ==
    ASSUME PolicyKept, TimeoutApart
    PROVE  /\ policy.timeout => policy.retry = 0 /\ ~policy.waitBefore /\ ~policy.pauseBefore
           /\ policy.retry \in Nat /\ retryNo \in Nat /\ Len(actions) \in Nat
           /\ policy.timeout \in BOOLEAN
           /\ DOMAIN actions = 1..Len(actions) /\ actions \in Seq(Action)
           /\ txs # {} => ~Idle
           /\ Acting \/ ToComplete \/ Ended =>
                 Len(actions) \in DOMAIN actions /\ Len(actions) >= 1 /\ FormerSpent
  <1>1. /\ retryNo \in Nat /\ Len(actions) \in Nat
        /\ DOMAIN actions = 1..Len(actions) /\ actions \in Seq(Action)
    BY LenProperties, PolicyAssumption DEF PolicyKept, PolicyTypeOK
  <1>2. policy.retry \in Nat /\ policy.timeout \in BOOLEAN
    BY PolicyAssumption DEF PolicyKept, PolicyTypeOK, Policy
  <1>3. policy.timeout => policy.retry = 0 /\ ~policy.waitBefore /\ ~policy.pauseBefore
    BY DEF TimeoutApart, PolicyKept
  <1>4. Acting \/ ToComplete => Len(actions) \in 1..Len(actions) /\ Len(actions) >= 1
    <2>1. \A m \in Nat, k \in Nat : m = k + 1 => m \in 1..m /\ m >= 1
      OBVIOUS
    <2>2. Acting \/ ToComplete => Len(actions) = retryNo + 1
      BY DEF Acting, ToComplete
    <2> QED BY <1>1, <2>1, <2>2
  <1>5. Ended => Len(actions) \in 1..Len(actions) /\ Len(actions) >= 1
    BY <1>1, <1>2 DEF Ended
  <1>6. Acting \/ ToComplete \/ Ended => FormerSpent
    BY DEF Acting, ToComplete, Ended
  <1> QED BY <1>1, <1>2, <1>3, <1>4, <1>5, <1>6 DEF Idle

\* The transaction of a result, of a wait-after job or of the timeout ends with
\* Task.complete(): the task goes on to the phase that is next.
LEMMA CompleteKeeps ==
    ASSUME PolicyKept, TimeoutApart, NEW x \in txs, txs' = txs \ {x},
           NEW s \in Completed, NEW acts, Complete(s, x.seen, acts),
           \/ /\ x.op = "result"
              /\ acts = [actions EXCEPT ![Len(actions)] = [state |-> s, accepted |-> TRUE]]
           \/ x.op = "complete" /\ s = x.res /\ acts = actions
           \/ x.op = "timeout" /\ s = "ERROR" /\ acts = actions,
           timedOut' = IF x.op = "timeout" THEN x.seen \notin Completed /\ task = x.seen
                                           ELSE timedOut,
           UNCHANGED <<policy, wf, calls, pauses>>
    PROVE  PolicyKept'
  <1> DEFINE n == Len(actions)
  <1>1. /\ policy.timeout => policy.retry = 0
        /\ policy.retry \in Nat /\ retryNo \in Nat /\ n \in Nat /\ policy.timeout \in BOOLEAN
        /\ DOMAIN actions = 1..n /\ actions \in Seq(Action)
        /\ retryNo <= policy.retry /\ TxsKept /\ TimerKept /\ DispatchKept /\ PolicyTypeOK
        /\ policy \in Policies
    BY PhaseFacts DEF PolicyKept
  <1>2. calls = {} /\ (Acting \/ ToComplete \/ Ended)
    <2>1. ~Idle
      BY PhaseFacts
    <2>2. ~ToContinue
      BY DEF ToContinue
    <2> QED BY <2>1, <2>2 DEF PolicyKept
  <1>3. n \in DOMAIN actions /\ n >= 1 /\ FormerSpent
    BY <1>2, PhaseFacts
  \* What the list of actions becomes before a retry.
  <1>4. /\ acts \in Seq(Action) /\ Len(acts) = n /\ DOMAIN acts = 1..n
        /\ \A i \in 1..(n - 1) : Spent(acts[i])
        /\ x.op = "result" => acts[n] = [state |-> s, accepted |-> TRUE] /\ Last.state = "RUNNING"
        /\ x.op # "result" => acts[n] = Last
    <2>1. CASE x.op = "result"
      BY <1>1, <1>3, <2>1, LastEnds DEF TxsKept
    <2>2. CASE x.op # "result"
      BY <1>1, <1>3, <2>2 DEF FormerSpent, Last
    <2> QED BY <2>1, <2>2
  <1>5. /\ \A y \in txs' : y \in txs /\ y.op # x.op
        /\ \A y, z \in txs' : y.op = z.op => y = z
        /\ \A y \in txs' : y.op \in {"result", "complete"} => y.res \in Completed
        /\ (~policy.timeout /\ ~timer) \/ policy.timeout
        /\ x.op = "timeout" => policy.timeout /\ ~timedOut /\ ~timer
        /\ timedOut \in BOOLEAN /\ timedOut' \in BOOLEAN
    BY <1>1 DEF TxsKept, TimerKept, PolicyTypeOK
  <1>t. ASSUME actions' \in Seq(Action), task' \in TaskState, continues' \in Nat,
               retryNo' \in Nat, retryNo' <= policy.retry, completions' \subseteq Completed,
               timer' \in BOOLEAN, waited' \in BOOLEAN, processed' \in BOOLEAN,
               dispatched' \in Nat
        PROVE  PolicyTypeOK' /\ policy' \in Policies /\ retryNo' <= policy'.retry
    <2>1. policy.retry \in 0..MaxRetry /\ MaxRetry \in Nat
      BY <1>1, PolicyAssumption DEF PolicyTypeOK, Policy
    <2>2. retryNo' \in 0..MaxRetry
      BY <1>t, <2>1
    <2> QED BY <1>1, <1>5, <1>t, <2>2 DEF PolicyTypeOK
  \* What remains of transactions and the timer, when the result is stored or no
  \* result was handled.
  <1>u. ASSUME actions' = acts, timer' = timer,
               \/ completions' = completions
               \/ completions' = {s} /\ \A y \in txs : y.op # "complete"
        PROVE  TxsKept' /\ TimerKept'
    <2>1. ASSUME NEW y \in txs', y.op = "result"
          PROVE  /\ y.action = Len(actions') /\ y.action \in DOMAIN actions'
                 /\ Last'.state = "RUNNING"
      <3>1. y \in txs /\ x.op # "result"
        BY <1>5, <2>1
      <3> QED BY <1>1, <1>4, <1>u, <2>1, <3>1 DEF TxsKept, Last
    <2>2. /\ \A c, d \in completions' : c = d
          /\ completions' # {} => \A y \in txs' : y.op # "complete"
      BY <1>1, <1>5, <1>u DEF TxsKept
    <2>3. TxsKept'
      BY <1>5, <2>1, <2>2 DEF TxsKept
    <2>4. TimerKept'
      BY <1>1, <1>5, <1>u DEF TimerKept
    <2> QED BY <2>3, <2>4
  <1>v. actions' = acts => FormerSpent' /\ Len(actions') = n /\ Last' = acts[n]
    BY <1>4 DEF FormerSpent, Last
  <1>6. CASE /\ x.seen \in Completed \/ task # x.seen
             /\ actions' = acts /\ UNCHANGED <<taskVars, jobVars>>
    <2>0. /\ UNCHANGED <<task, waited, retryNo, processed, dispatched, continues,
                         completions, timer>>
          /\ actions' = acts
      BY <1>6 DEF taskVars, jobVars
    <2>1. /\ PolicyTypeOK' /\ policy' \in Policies /\ retryNo' <= policy'.retry
      BY <1>1, <1>4, <1>t, <2>0 DEF PolicyTypeOK
    <2>2. TxsKept' /\ TimerKept' /\ DispatchKept' /\ calls' = {}
      BY <1>1, <1>2, <1>u, <2>0 DEF DispatchKept
    <2>3. ~timedOut' \/ timedOut' = timedOut
      BY <1>6
    <2>4. timedOut' = timedOut
      BY <1>5, <2>3
    <2>5. ~Acting
      BY <1>6 DEF Acting, Completed
    <2>6. CASE ToComplete
      <3>1. PICK r \in Completed : WaitsFor(r)
        BY <2>6 DEF ToComplete
      <3>2. x.op # "complete"
        BY <1>1, <1>6, <2>6, <3>1 DEF ToComplete, WaitsFor, TxsKept, Completed
      <3>3. Last' = [state |-> r, accepted |-> TRUE] \/ (timedOut' /\ r = "ERROR")
        BY <1>4, <1>v, <2>0, <2>4, <3>1 DEF WaitsFor, Completed
      <3>4. \/ completions' = {r} /\ \A y \in txs' : y.op # "complete"
            \/ completions' = {} /\ \E y \in txs' : /\ y.op = "complete" /\ y.res = r
                                                    /\ y.seen = "DELAYED"
        BY <1>5, <2>0, <3>1, <3>2 DEF WaitsFor
      <3>5. ToComplete'
        BY <1>1, <1>5, <1>v, <2>0, <2>6, <3>3, <3>4 DEF ToComplete, WaitsFor
      <3> QED BY <2>1, <2>2, <3>5 DEF PolicyKept
    <2>7. CASE Ended
      <3>1. EndMatchesPolicies'
        <4>1. x.op = "result" => Last.state = "RUNNING" /\ acts[n].state = s
          BY <1>4
        <4>2. /\ task = "SUCCESS" => acts[n] = [state |-> "SUCCESS", accepted |-> TRUE]
              /\ task = "CANCELLED" => acts[n].state = "CANCELLED"
              /\ (task = "ERROR" /\ ~timedOut /\ ~policy.breakOn /\ ~policy.continueOn) =>
                    n = 1 + policy.retry /\ (acts[n].state = "ERROR" \/ policy.failOn)
          BY <1>4, <2>7, <4>1 DEF Ended, EndMatchesPolicies, Last
        <4>3. \A i \in 1..(n - 1) : ~acts[i].accepted /\ acts[i].state # "CANCELLED"
          BY <1>4 DEF Spent
        <4> QED BY <1>4, <2>0, <2>4, <4>2, <4>3 DEF EndMatchesPolicies
      <3>2. Ended'
        BY <1>5, <1>v, <2>0, <2>7, <3>1 DEF Ended
      <3> QED BY <2>1, <2>2, <3>2 DEF PolicyKept
    <2> QED BY <1>2, <2>5, <2>6, <2>7
  <1>7. CASE /\ x.seen \notin Completed /\ task = x.seen /\ ~waited
             /\ WaitAfter(s) /\ actions' = acts
    <2>0. /\ task' = "DELAYED" /\ waited' = TRUE /\ completions' = completions \cup {s}
          /\ UNCHANGED <<retryNo, processed, dispatched, continues, timer>> /\ actions' = acts
      BY <1>7 DEF WaitAfter
    <2>1. Acting
      BY <1>2, <1>7 DEF ToComplete, Ended
    <2>2. /\ PolicyTypeOK' /\ policy' \in Policies /\ retryNo' <= policy'.retry
      BY <1>1, <1>4, <1>t, <2>0 DEF PolicyTypeOK, TaskState
    <2>3. TxsKept' /\ TimerKept'
      <3>1. completions' = {s} /\ \A y \in txs : y.op # "complete"
        BY <2>0, <2>1 DEF Acting
      <3> QED BY <1>u, <2>0, <3>1
    <2>4. DispatchKept' /\ calls' = {}
      BY <1>1, <1>2, <1>7, <2>0 DEF DispatchKept, Completed
    <2>5. x.op \in {"result", "timeout"} /\ completions' = {s}
      BY <2>0, <2>1 DEF Acting
    <2>6. Last' = [state |-> s, accepted |-> TRUE] \/ (timedOut' /\ s = "ERROR")
      BY <1>4, <1>7, <1>v, <2>0, <2>5
    <2>7. \A y \in txs' : y.op \in {"result", "timeout"} /\ y.seen = "RUNNING"
      BY <1>5, <2>1 DEF Acting
    <2>8. ToComplete'
      BY <1>v, <2>0, <2>1, <2>5, <2>6, <2>7 DEF ToComplete, WaitsFor, Acting
    <2> QED BY <2>2, <2>3, <2>4, <2>8 DEF PolicyKept
  <1>8. CASE /\ x.seen \notin Completed /\ task = x.seen /\ s # "CANCELLED"
             /\ retryNo < policy.retry /\ Retry(acts)
    <2>0. /\ actions' = Invalid(acts) /\ task' = "DELAYED" /\ retryNo' = retryNo + 1
          /\ continues' = continues + 1
          /\ UNCHANGED <<waited, processed, dispatched, completions, timer>>
      BY <1>8 DEF Retry
    <2>1. ~policy.timeout /\ ~timer /\ ~timedOut /\ \A y \in txs : y.op # "timeout"
      BY <1>1, <1>8 DEF TimerKept
    <2>2. Acting \/ ToComplete
      BY <1>2, <1>8 DEF Ended
    <2>3. /\ acts[n] = [state |-> s, accepted |-> TRUE] /\ txs' = {} /\ completions = {}
      <3>1. CASE Acting
        <4>1. \A y \in txs : y.op = "result"
          BY <2>1, <3>1 DEF Acting
        <4> QED BY <1>4, <1>5, <3>1, <4>1 DEF Acting
      <3>2. CASE ToComplete
        <4>1. PICK r \in Completed : WaitsFor(r)
          BY <3>2 DEF ToComplete
        <4>2. Last = [state |-> r, accepted |-> TRUE]
          BY <2>1, <4>1 DEF WaitsFor
        <4>3. \A y \in txs : y.op # "result"
          BY <1>1, <4>2 DEF TxsKept, Completed
        <4>4. \A y \in txs : y.op = "complete"
          <5>1. \A y \in txs : y.op \in {"result", "continue", "complete", "timeout"}
            BY <1>1 DEF PolicyTypeOK, Tx
          <5> QED BY <2>1, <3>2, <4>3, <5>1 DEF ToComplete
        <4>5. completions = {} /\ x.res = r
          BY <1>1, <4>1, <4>4 DEF WaitsFor, TxsKept
        <4>6. x.op = "complete"
          BY <4>4
        <4> QED BY <1>4, <1>5, <4>2, <4>4, <4>5, <4>6
      <3> QED BY <2>2, <3>1, <3>2
    <2>4. /\ actions' \in Seq(Action) /\ Len(actions') = n /\ DOMAIN actions' = 1..n
          /\ \A i \in 1..n : actions'[i].state = acts[i].state /\ ~actions'[i].accepted
      BY <1>4, <2>0, InvalidList
    <2>5. \A i \in 1..n : acts[i].state \notin {"RUNNING", "CANCELLED"}
      <3>1. acts[n].state \notin {"RUNNING", "CANCELLED"}
        BY <1>8, <2>3 DEF Completed
      <3>2. \A i \in 1..n : i = n \/ i \in 1..(n - 1)
        <4>1. \A m \in Nat : \A i \in 1..m : i = m \/ i \in 1..(m - 1)
          OBVIOUS
        <4> QED BY <1>1, <4>1
      <3> QED BY <1>4, <3>1, <3>2 DEF Spent
    <2>6. n = retryNo + 1 /\ continues = 0
      BY <2>2 DEF Acting, ToComplete
    <2>7. ToContinue'
      BY <1>8, <2>0, <2>1, <2>3, <2>4, <2>5, <2>6 DEF ToContinue, Spent
    <2>8. retryNo' \in Nat /\ retryNo' <= policy.retry /\ continues' \in Nat
      BY <1>1, <1>8, <2>0, <2>6
    <2>9. PolicyTypeOK' /\ policy' \in Policies /\ retryNo' <= policy'.retry
      BY <1>1, <1>t, <2>0, <2>4, <2>8 DEF PolicyTypeOK, TaskState
    <2>10. TxsKept' /\ TimerKept' /\ DispatchKept' /\ calls' = {}
      BY <1>1, <1>2, <1>5, <1>8, <2>0, <2>1, <2>3 DEF TxsKept, TimerKept, DispatchKept, Completed
    <2> QED BY <2>7, <2>9, <2>10 DEF PolicyKept
  <1>9. ASSUME x.seen \notin Completed, task = x.seen, actions' = acts,
               NEW to \in Completed, Finish(to),
               to = s \/ (s = "SUCCESS" /\ to = "ERROR" /\ policy.failOn),
               (to = "ERROR" /\ ~policy.breakOn /\ ~policy.continueOn)
                   => ~(retryNo < policy.retry)
        PROVE  PolicyKept'
    <2>0. /\ task' = to /\ retryNo' = (IF to = "CANCELLED" THEN retryNo ELSE 0)
          /\ processed' = (processed \/ wf # "PAUSED")
          /\ dispatched' = (IF wf = "PAUSED" THEN dispatched ELSE dispatched + 1)
          /\ UNCHANGED <<waited, continues, completions, timer>>
      BY <1>9 DEF Finish, jobVars
    <2>1. Acting \/ ToComplete
      BY <1>2, <1>9 DEF Ended
    <2>2. n = retryNo + 1 /\ continues = 0
      BY <2>1 DEF Acting, ToComplete
    <2>3. DispatchKept' /\ calls' = {} /\ dispatched' \in Nat /\ processed' \in BOOLEAN
      <3>1. dispatched = 0 /\ processed = FALSE /\ wf \in {"RUNNING", "PAUSED"}
        BY <1>1, <1>9 DEF DispatchKept, PolicyTypeOK
      <3> QED BY <1>2, <2>0, <3>1 DEF DispatchKept
    <2>4. retryNo' \in Nat /\ retryNo' <= policy.retry
      BY <1>1, <2>0
    <2>5. PolicyTypeOK' /\ policy' \in Policies /\ retryNo' <= policy'.retry
      BY <1>1, <1>4, <1>9, <1>t, <2>0, <2>3, <2>4 DEF PolicyTypeOK, TaskState
    <2>6. TxsKept' /\ TimerKept'
      BY <1>9, <1>u, <2>0
    <2>7. \/ Last' = [state |-> s, accepted |-> TRUE]
          \/ s = "ERROR" /\ timedOut'
      <3>1. CASE x.op = "result"
        BY <1>4, <1>9, <1>v, <3>1
      <3>2. CASE x.op = "timeout"
        BY <1>9, <3>2
      <3>3. CASE x.op = "complete"
        <4>1. ToComplete
          BY <2>1, <3>3 DEF Acting
        <4>2. PICK r \in Completed : WaitsFor(r)
          BY <4>1 DEF ToComplete
        <4>3. x.res = r
          BY <1>1, <3>3, <4>2 DEF WaitsFor, TxsKept
        <4> QED BY <1>4, <1>9, <1>v, <3>3, <4>2, <4>3 DEF WaitsFor
      <3> QED BY <3>1, <3>2, <3>3
    <2>8. EndMatchesPolicies'
      <3>1. Len(actions') = n /\ Last' = actions'[n]
        BY <1>4, <1>9 DEF Last
      <3>2. \A i \in 1..(n - 1) : ~actions'[i].accepted /\ actions'[i].state # "CANCELLED"
        BY <1>4, <1>9 DEF Spent
      <3>3. (to = "ERROR" /\ ~policy.breakOn /\ ~policy.continueOn) => n = 1 + policy.retry
        BY <1>1, <1>9, <2>2
      <3>4. /\ to = "SUCCESS" => Last' = [state |-> "SUCCESS", accepted |-> TRUE]
            /\ to = "CANCELLED" => Last'.state = "CANCELLED"
            /\ to = "ERROR" /\ ~timedOut' => Last'.state = "ERROR" \/ policy.failOn
        BY <1>9, <2>7
      <3> QED BY <2>0, <3>1, <3>2, <3>3, <3>4 DEF EndMatchesPolicies
    <2>9. Ended'
      <3>1. Len(actions') \in 1..(1 + policy.retry)
        BY <1>1, <1>v, <1>9, <2>2
      <3>2. \A y \in txs' : y.op # "continue"
        BY <1>5, <2>1 DEF Acting, ToComplete
      <3> QED BY <1>v, <1>9, <2>0, <2>2, <2>8, <3>1, <3>2 DEF Ended
    <2> QED BY <2>3, <2>5, <2>6, <2>9 DEF PolicyKept
  <1> QED BY <1>6, <1>7, <1>8, <1>9, CompleteCases

\* A transaction that begins loads the state of the task, and no phase ends.
LEMMA BeginKeeps ==
    ASSUME PolicyKept, TimeoutApart,
           Finishes \/ Begin
    PROVE  PolicyKept'
  <1> DEFINE n == Len(actions)
  <1>1. /\ n \in Nat /\ DOMAIN actions = 1..n /\ policy.timeout \in BOOLEAN
        /\ TxsKept /\ TimerKept /\ DispatchKept /\ PolicyTypeOK /\ task \in TaskState
        /\ Acting \/ ToComplete \/ Ended => n \in DOMAIN actions /\ FormerSpent
    BY PhaseFacts DEF PolicyKept, PolicyTypeOK
  <1>2. ASSUME NEW k \in DOMAIN actions, NEW res \in Completed, BeginResult(k, res)
        PROVE  PolicyKept'
    <2> DEFINE y == [op |-> "result", action |-> k, res |-> res, seen |-> task]
    <2>1. /\ txs' = txs \cup {y} /\ actions[k].state = "RUNNING"
          /\ \A x \in txs : x.op = "result" => x.action # k
          /\ UNCHANGED <<policy, wf, task, waited, retryNo, processed, dispatched, actions,
                         calls, continues, completions, timer, timedOut, pauses>>
      BY <1>2 DEF BeginResult, Loads, taskVars, jobVars
    <2>2. ~Idle /\ ~ToContinue
      BY <1>1, <2>1 DEF Idle, ToContinue, Spent
    <2>3. calls = {} /\ (Acting \/ ToComplete \/ Ended)
      BY <2>2 DEF PolicyKept
    <2>4. k = n
      <3>1. \A m \in Nat : \A i \in 1..m : i = m \/ i \in 1..(m - 1)
        OBVIOUS
      <3>2. k = n \/ k \in 1..(n - 1)
        BY <1>1, <3>1
      <3> QED BY <1>1, <2>1, <2>3, <3>2 DEF FormerSpent, Spent
    <2>5. /\ y \in Tx /\ y.op = "result" /\ y.seen = task /\ y.action = n /\ y.res \in Completed
      <3>1. k \in Nat
        BY <1>1
      <3> QED BY <1>1, <2>4, <3>1 DEF Tx
    <2> HIDE DEF y
    <2>6. PolicyTypeOK' /\ DispatchKept' /\ policy' \in Policies /\ retryNo' <= policy'.retry
      BY <1>1, <2>1, <2>5 DEF PolicyKept, PolicyTypeOK, DispatchKept
    <2>7. TxsKept'
      <3>1. \A x \in txs : x.op # "result"
        BY <1>1, <2>1, <2>4 DEF TxsKept
      <3>2. Last.state = "RUNNING" /\ Last' = Last /\ n \in DOMAIN actions
        BY <2>1, <2>4 DEF Last
      <3> QED BY <1>1, <2>1, <2>5, <3>1, <3>2 DEF TxsKept
    <2>8. TimerKept'
      BY <1>1, <2>1, <2>5 DEF TimerKept
    <2>9. Last' = Last /\ (FormerSpent => FormerSpent')
      BY <2>1 DEF Last, FormerSpent
    <2>10. Acting => Acting'
      BY <2>1, <2>5, <2>9 DEF Acting
    <2>11. ToComplete => ToComplete'
      <3> SUFFICES ASSUME ToComplete PROVE ToComplete'
        OBVIOUS
      <3>1. PICK s \in Completed : WaitsFor(s)
        BY DEF ToComplete
      <3>2. WaitsFor(s)'
        BY <2>1, <2>5, <2>9, <3>1 DEF WaitsFor
      <3>3. y.seen = "DELAYED"
        BY <2>5 DEF ToComplete
      <3> QED BY <2>1, <2>5, <2>9, <3>2, <3>3 DEF ToComplete
    <2>12. Ended => Ended'
      BY <2>1, <2>5, <2>9 DEF Ended, EndMatchesPolicies
    <2> QED BY <2>1, <2>3, <2>6, <2>7, <2>8, <2>10, <2>11, <2>12 DEF PolicyKept
  <1>3. ASSUME BeginContinue PROVE PolicyKept'
    <2> DEFINE y == [op |-> "continue", action |-> continues, res |-> "NONE", seen |-> task]
    <2>1. /\ txs' = txs \cup {y} /\ continues > 0 /\ continues' = continues - 1
          /\ UNCHANGED <<policy, wf, task, waited, retryNo, processed, dispatched, actions,
                         calls, completions, timer, timedOut, pauses>>
      BY <1>3 DEF BeginContinue, Loads, taskVars
    <2>2. calls = {} /\ ToContinue
      BY <2>1 DEF PolicyKept, Idle, Acting, ToComplete, Ended
    <2>3. continues = 1 /\ txs = {} /\ task = "DELAYED" /\ ~policy.timeout /\ completions = {}
      BY <2>1, <2>2 DEF ToContinue
    <2>4. y \in Tx /\ y.op = "continue" /\ y.seen = "DELAYED"
      BY <2>3 DEF Tx, TaskState
    <2> HIDE DEF y
    <2>5. txs' = {y} /\ continues' = 0
      BY <2>1, <2>3
    <2>6. PolicyTypeOK' /\ DispatchKept' /\ policy' \in Policies /\ retryNo' <= policy'.retry
      BY <1>1, <2>1, <2>4, <2>5 DEF PolicyKept, PolicyTypeOK, DispatchKept
    <2>7. TxsKept' /\ TimerKept'
      BY <1>1, <2>1, <2>3, <2>4, <2>5 DEF TxsKept, TimerKept
    <2>8. ToContinue'
      BY <2>1, <2>2, <2>4, <2>5 DEF ToContinue
    <2> QED BY <2>1, <2>2, <2>6, <2>7, <2>8 DEF PolicyKept
  <1>4. ASSUME BeginTimeout PROVE PolicyKept'
    <2> DEFINE y == [op |-> "timeout", action |-> 0, res |-> "ERROR", seen |-> task]
    <2>1. /\ txs' = txs \cup {y} /\ timer /\ timer' = FALSE
          /\ UNCHANGED <<policy, wf, task, waited, retryNo, processed, dispatched, actions,
                         calls, continues, completions, timedOut, pauses>>
      BY <1>4 DEF BeginTimeout, Loads, taskVars
    <2>2. policy.timeout /\ ~timedOut /\ \A x \in txs : x.op # "timeout"
      BY <1>1, <2>1 DEF TimerKept
    <2>3. calls = {} /\ (Acting \/ ToComplete \/ Ended)
      BY <2>1, <2>2 DEF PolicyKept, Idle, ToContinue
    <2>4. y \in Tx /\ y.op = "timeout" /\ y.seen = task
      BY <1>1 DEF Tx, Completed
    <2> HIDE DEF y
    <2>5. PolicyTypeOK' /\ DispatchKept' /\ policy' \in Policies /\ retryNo' <= policy'.retry
      BY <1>1, <2>1, <2>4 DEF PolicyKept, PolicyTypeOK, DispatchKept
    <2>6. TxsKept' /\ TimerKept'
      BY <1>1, <2>1, <2>2, <2>4 DEF TxsKept, TimerKept, Last
    <2>7. Last' = Last /\ (FormerSpent => FormerSpent')
      BY <2>1 DEF Last, FormerSpent
    <2>8. Acting => Acting'
      BY <2>1, <2>4, <2>7 DEF Acting
    <2>9. ToComplete => ToComplete'
      <3> SUFFICES ASSUME ToComplete PROVE ToComplete'
        OBVIOUS
      <3>1. PICK s \in Completed : WaitsFor(s)
        BY DEF ToComplete
      <3>2. WaitsFor(s)'
        BY <2>1, <2>4, <2>7, <3>1 DEF WaitsFor
      <3>3. y.seen = "DELAYED"
        BY <2>4 DEF ToComplete
      <3> QED BY <2>1, <2>4, <2>7, <3>2, <3>3 DEF ToComplete
    <2>10. Ended => Ended'
      BY <2>1, <2>4, <2>7 DEF Ended, EndMatchesPolicies
    <2> QED BY <2>1, <2>3, <2>5, <2>6, <2>8, <2>9, <2>10 DEF PolicyKept
  <1>5. ASSUME NEW s \in Completed, BeginComplete(s) PROVE PolicyKept'
    <2> DEFINE y == [op |-> "complete", action |-> 0, res |-> s, seen |-> task]
    <2>1. /\ txs' = txs \cup {y} /\ s \in completions /\ completions' = completions \ {s}
          /\ UNCHANGED <<policy, wf, task, waited, retryNo, processed, dispatched, actions,
                         calls, continues, timer, timedOut, pauses>>
      BY <1>5 DEF BeginComplete, Loads, taskVars
    <2>2. completions = {s} /\ completions' = {} /\ \A x \in txs : x.op # "complete"
      BY <1>1, <2>1 DEF TxsKept
    <2>3. calls = {} /\ (ToComplete \/ Ended)
      BY <2>1 DEF PolicyKept, Idle, ToContinue, Acting
    <2>4. y \in Tx /\ y.op = "complete" /\ y.seen = task /\ y.res = s
      BY <1>1 DEF Tx, Completed
    <2> HIDE DEF y
    <2>5. PolicyTypeOK' /\ DispatchKept' /\ policy' \in Policies /\ retryNo' <= policy'.retry
      BY <1>1, <2>1, <2>2, <2>4 DEF PolicyKept, PolicyTypeOK, DispatchKept
    <2>6. TxsKept' /\ TimerKept'
      BY <1>1, <2>1, <2>2, <2>4 DEF TxsKept, TimerKept, Last
    <2>7. Last' = Last /\ (FormerSpent => FormerSpent')
      BY <2>1 DEF Last, FormerSpent
    <2>8. ToComplete => ToComplete'
      <3> SUFFICES ASSUME ToComplete PROVE ToComplete'
        OBVIOUS
      <3>1. WaitsFor(s)
        BY <2>2 DEF ToComplete, WaitsFor
      <3>2. y.seen = "DELAYED" /\ y \in txs'
        BY <2>1, <2>4 DEF ToComplete
      <3>3. WaitsFor(s)'
        BY <2>1, <2>2, <2>4, <2>7, <3>1, <3>2 DEF WaitsFor
      <3> QED BY <2>1, <2>4, <2>7, <3>2, <3>3 DEF ToComplete
    <2>9. Ended => Ended'
      BY <2>1, <2>4, <2>7 DEF Ended, EndMatchesPolicies
    <2> QED BY <2>1, <2>3, <2>5, <2>6, <2>8, <2>9 DEF PolicyKept
  <1> QED BY <1>2, <1>3, <1>4, <1>5 DEF Finishes, Begin

\* A new action: the first, after a pause, or of the next iteration.
LEMMA StartKeeps ==
    ASSUME PolicyKept, TimeoutApart,
           RunNew \/ RunExisting \/ \E x \in txs : ContinueTask(x)
    PROVE  PolicyKept'
  <1>1. /\ policy \in Policies /\ policy.retry \in Nat /\ actions \in Seq(Action)
        /\ policy.timeout \in BOOLEAN /\ Len(actions) \in Nat
        /\ policy.timeout => ~policy.waitBefore /\ ~policy.pauseBefore
        /\ TxsKept /\ TimerKept /\ DispatchKept /\ PolicyTypeOK /\ retryNo <= policy.retry
    BY PhaseFacts DEF PolicyKept
  <1>2. CASE RunNew
    <2>1. /\ "start" \in calls /\ calls' = calls \ {"start"} /\ task' = StateAfterBefore
          /\ wf' = (IF policy.pauseBefore THEN "PAUSED" ELSE wf)
          /\ continues' = (IF StateAfterBefore = "DELAYED" THEN continues + 1 ELSE continues)
          /\ timer' = policy.timeout
          /\ actions' = (IF StateAfterBefore = "RUNNING" THEN <<NewAction>> ELSE actions)
          /\ UNCHANGED <<policy, waited, retryNo, processed, dispatched, completions,
                         txs, timedOut, pauses>>
      BY <1>2 DEF RunNew
    <2>2. /\ task = "IDLE" /\ actions = <<>> /\ txs = {} /\ continues = 0 /\ completions = {}
          /\ ~timer /\ retryNo = 0 /\ ~timedOut /\ calls = {"start"} /\ wf = "RUNNING"
      <3>1. Idle
        BY <2>1 DEF PolicyKept
      <3> QED BY <2>1, <3>1 DEF Idle
    <2>3. calls' = {} /\ dispatched = 0 /\ ~processed
      BY <1>1, <2>1, <2>2 DEF DispatchKept, Completed
    <2>4. TxsKept' /\ TimerKept'
      BY <2>1, <2>2 DEF TxsKept, TimerKept
    <2>5. CASE policy.pauseBefore
      <3>1. task' = "IDLE" /\ actions' = <<>> /\ continues' = 0 /\ wf' = "PAUSED"
        BY <2>1, <2>2, <2>5 DEF StateAfterBefore
      <3>2. ~policy.timeout
        BY <1>1, <2>5
      <3>3. PolicyTypeOK' /\ DispatchKept'
        BY <1>1, <2>1, <2>2, <2>3, <3>1 DEF PolicyTypeOK, DispatchKept, TaskState, Completed
      <3>4. Idle'
        BY <2>1, <2>2, <2>3, <2>5, <3>1, <3>2 DEF Idle
      <3> QED BY <1>1, <2>1, <2>4, <3>3, <3>4 DEF PolicyKept
    <2>6. CASE ~policy.pauseBefore /\ policy.waitBefore
      <3>1. task' = "DELAYED" /\ actions' = <<>> /\ continues' = 1 /\ wf' = "RUNNING"
        BY <2>1, <2>2, <2>6 DEF StateAfterBefore
      <3>2. ~policy.timeout
        BY <1>1, <2>6
      <3>3. PolicyTypeOK' /\ DispatchKept'
        BY <1>1, <2>1, <2>2, <2>3, <3>1 DEF PolicyTypeOK, DispatchKept, TaskState, Completed
      <3>4. Len(actions') = 0 /\ DOMAIN actions' = {}
        BY <3>1
      <3>5. ToContinue'
        BY <2>1, <2>2, <3>1, <3>2, <3>4 DEF ToContinue
      <3> QED BY <1>1, <2>1, <2>3, <2>4, <3>3, <3>5 DEF PolicyKept
    <2>7. CASE ~policy.pauseBefore /\ ~policy.waitBefore
      <3>1. task' = "RUNNING" /\ actions' = <<NewAction>> /\ continues' = 0 /\ wf' = "RUNNING"
        BY <2>1, <2>2, <2>7 DEF StateAfterBefore
      <3>2. NewAction \in Action /\ Len(<<NewAction>>) = 1 /\ <<NewAction>>[1] = NewAction
        BY DEF NewAction, Action
      <3>3. actions' \in Seq(Action) /\ Len(actions') = 1 /\ Last' = NewAction
        BY <3>1, <3>2 DEF Last
      <3>4. 1..(1 - 1) = {} /\ 0 + 1 = 1
        OBVIOUS
      <3>5. FormerSpent'
        BY <3>3, <3>4 DEF FormerSpent
      <3>6. PolicyTypeOK' /\ DispatchKept'
        BY <1>1, <2>1, <2>2, <2>3, <3>1, <3>3 DEF PolicyTypeOK, DispatchKept, TaskState,
                                                  Completed
      <3>7. Acting'
        BY <2>1, <2>2, <3>1, <3>3, <3>4, <3>5 DEF Acting
      <3> QED BY <1>1, <2>1, <2>3, <2>4, <3>6, <3>7 DEF PolicyKept
    <2> QED BY <2>5, <2>6, <2>7
  <1>3. CASE RunExisting
    <2>1. /\ "restart" \in calls /\ calls' = calls \ {"restart"} /\ task' = "RUNNING"
          /\ processed' = FALSE /\ actions' = Append(Invalid(actions), NewAction)
          /\ UNCHANGED <<policy, wf, waited, retryNo, dispatched, continues, completions, timer,
                         txs, timedOut, pauses>>
      BY <1>3 DEF RunExisting, jobVars
    <2>2. /\ task = "IDLE" /\ actions = <<>> /\ txs = {} /\ continues = 0 /\ completions = {}
          /\ ~timer /\ retryNo = 0 /\ ~timedOut /\ calls = {"restart"}
      <3>1. Idle
        BY <2>1 DEF PolicyKept
      <3> QED BY <2>1, <3>1 DEF Idle
    <2>3. calls' = {} /\ dispatched = 0 /\ ~processed
      BY <1>1, <2>1, <2>2 DEF DispatchKept, Completed
    <2>4. TxsKept' /\ TimerKept'
      BY <2>1, <2>2 DEF TxsKept, TimerKept
    <2>5. /\ Invalid(actions) \in Seq(Action) /\ Len(Invalid(actions)) = 0
          /\ DOMAIN Invalid(actions) = {}
      <3>1. Len(actions) = 0 /\ DOMAIN actions = {}
        BY <2>2
      <3> QED BY <1>1, <3>1, InvalidList
    <2>6. /\ actions' \in Seq(Action) /\ Len(actions') = 0 + 1
          /\ Last' = NewAction /\ FormerSpent'
      BY <2>1, <2>5, NewIsLast
    <2>7. PolicyTypeOK' /\ DispatchKept'
      BY <1>1, <2>1, <2>2, <2>3, <2>6 DEF PolicyTypeOK, DispatchKept, TaskState, Completed
    <2>8. Acting'
      BY <2>1, <2>2, <2>6 DEF Acting
    <2> QED BY <1>1, <2>1, <2>3, <2>4, <2>7, <2>8 DEF PolicyKept
  <1>4. ASSUME NEW x \in txs, ContinueTask(x) PROVE PolicyKept'
    <2> DEFINE as == [i \in DOMAIN actions |->
                        IF actions[i].state \in {"ERROR", "CANCELLED"}
                        THEN [actions[i] EXCEPT !.accepted = FALSE] ELSE actions[i]]
    <2>1. /\ x.op = "continue" /\ txs' = txs \ {x} /\ actions' = Append(as, NewAction)
          /\ task' = (IF task = x.seen THEN "RUNNING" ELSE task)
          /\ UNCHANGED <<policy, wf, waited, retryNo, processed, dispatched, calls,
                         continues, completions, timer, timedOut, pauses>>
      BY <1>4 DEF ContinueTask, UpdateMatches, jobVars
    <2>2. calls = {} /\ ToContinue
      BY <2>1 DEF PolicyKept, Idle, Acting, ToComplete, Ended
    <2>3. /\ txs' = {} /\ task = "DELAYED" /\ task' = "RUNNING" /\ continues = 0
          /\ ~policy.timeout /\ completions = {} /\ Len(actions) = retryNo
          /\ \A i \in DOMAIN actions : Spent(actions[i])
      BY <2>1, <2>2 DEF ToContinue
    <2>4. as \in Seq(Action) /\ Len(as) = retryNo /\ \A i \in DOMAIN as : Spent(as[i])
      <3>1. \A i \in DOMAIN actions : actions[i] \in Action
        BY <1>1, ElementOfSeq, LenProperties
      <3>2. \A a \in Action : /\ [a EXCEPT !.accepted = FALSE] \in Action
                              /\ Spent(a) => Spent([a EXCEPT !.accepted = FALSE])
        BY DEF Action, Spent
      <3>3. as \in [DOMAIN actions -> Action]
        BY <3>1, <3>2
      <3>4. \A i \in DOMAIN actions : Spent(as[i])
        BY <2>3, <3>1, <3>2
      <3> QED BY <1>1, <2>3, <3>3, <3>4, MapIsList
    <2> HIDE DEF as
    <2>5. /\ actions' \in Seq(Action) /\ Len(actions') = retryNo + 1
          /\ Last' = NewAction /\ FormerSpent'
      BY <2>1, <2>4, NewIsLast
    <2>6. PolicyTypeOK' /\ DispatchKept'
      BY <1>1, <2>1, <2>3, <2>5 DEF PolicyTypeOK, DispatchKept, TaskState, Completed
    <2>7. TxsKept' /\ TimerKept'
      BY <1>1, <2>1, <2>3 DEF TxsKept, TimerKept
    <2>8. Acting'
      BY <2>1, <2>3, <2>5 DEF Acting
    <2> QED BY <1>1, <2>1, <2>2, <2>6, <2>7, <2>8 DEF PolicyKept
  <1> QED BY <1>2, <1>3, <1>4

\* The operator pauses and resumes the workflow: the task stays in its phase.
LEMMA OperatorKeeps ==
    ASSUME PolicyKept, Pause \/ Resume
    PROVE  PolicyKept'
  <1>1. /\ TxsKept /\ TimerKept /\ DispatchKept /\ PolicyTypeOK
        /\ policy \in Policies /\ retryNo <= policy.retry
    BY DEF PolicyKept
  <1>2. UNCHANGED <<policy, task, waited, retryNo, actions, continues, completions, timer,
                    txs, timedOut>>
    BY DEF Pause, Resume, taskVars, jobVars
  <1>3. TxsKept' /\ TimerKept' /\ retryNo' <= policy'.retry /\ policy' \in Policies
    BY <1>1, <1>2 DEF TxsKept, TimerKept, Last
  <1>4. /\ ToContinue => ToContinue'
        /\ Acting => Acting'
        /\ ToComplete => ToComplete'
        /\ Ended => Ended'
    <2>1. Last' = Last /\ (FormerSpent => FormerSpent')
      BY <1>2 DEF Last, FormerSpent
    <2>2. ToContinue => ToContinue'
      BY <1>2 DEF ToContinue
    <2>3. Acting => Acting'
      BY <1>2, <2>1 DEF Acting
    <2>4. ToComplete => ToComplete'
      BY <1>2, <2>1 DEF ToComplete, WaitsFor
    <2>5. Ended => Ended'
      BY <1>2, <2>1 DEF Ended, EndMatchesPolicies
    <2> QED BY <2>2, <2>3, <2>4, <2>5
  <1>5. CASE Pause
    <2>1. /\ wf = "RUNNING" /\ task # "IDLE" /\ wf' = "PAUSED" /\ pauses' = pauses + 1
          /\ UNCHANGED <<calls, processed, dispatched>>
      BY <1>5 DEF Pause, taskVars
    <2>2. PolicyTypeOK' /\ DispatchKept'
      BY <1>1, <1>2, <2>1 DEF PolicyTypeOK, DispatchKept
    <2>3. ~Idle
      BY <2>1 DEF Idle
    <2> QED BY <1>3, <1>4, <2>1, <2>2, <2>3 DEF PolicyKept
  <1>6. CASE Resume
    <2>1. /\ wf = "PAUSED" /\ wf' = "RUNNING" /\ pauses' = pauses
          /\ calls' = (IF task = "IDLE" THEN calls \cup {"restart"} ELSE calls)
      BY <1>6 DEF Resume
    <2>2. DispatchKept' /\ dispatched' \in Nat /\ processed' \in BOOLEAN
      <3>1. CASE task \in Completed /\ ~processed
        <4>1. dispatched' = dispatched + 1 /\ processed' = TRUE
          BY <1>1, <1>6, <3>1 DEF Resume, PolicyTypeOK
        <4>2. dispatched = 0
          BY <1>1, <3>1 DEF DispatchKept
        <4>3. dispatched' = 1 /\ task' \in Completed
          BY <1>2, <3>1, <4>1, <4>2
        <4>4. dispatched' \in {0, 1} /\ processed' = (dispatched' = 1)
          BY <4>1, <4>3
        <4>5. dispatched' \in Nat /\ processed' \in BOOLEAN
          BY <4>1, <4>3
        <4>6. DispatchKept'
          BY <4>3, <4>4 DEF DispatchKept
        <4> QED BY <4>5, <4>6
      <3>2. CASE ~(task \in Completed /\ ~processed)
        <4>1. dispatched' = dispatched /\ processed' = processed
          BY <1>1, <1>6, <3>2 DEF Resume, PolicyTypeOK
        <4> QED BY <1>1, <1>2, <3>2, <4>1 DEF DispatchKept, PolicyTypeOK
      <3> QED BY <3>1, <3>2
    <2>3. PolicyTypeOK'
      BY <1>1, <1>2, <2>1, <2>2 DEF PolicyTypeOK
    <2>4. CASE Idle
      <3>1. Idle'
        BY <1>2, <2>1, <2>4 DEF Idle
      <3> QED BY <1>3, <2>2, <2>3, <3>1 DEF PolicyKept
    <2>5. CASE calls = {} /\ (ToContinue \/ Acting \/ ToComplete \/ Ended)
      <3>1. calls' = {}
        BY <2>1, <2>5 DEF ToContinue, Acting, ToComplete, Ended, Completed
      <3> QED BY <1>3, <1>4, <2>2, <2>3, <2>5, <3>1 DEF PolicyKept
    <2> QED BY <2>4, <2>5 DEF PolicyKept
  <1> QED BY <1>5, <1>6

-----------------------------------------------------------------------------
(* The theorems.                                                            *)

\* The invariant holds before the task starts.
LEMMA PolicyStarts ==
    Init => PolicyKept
  <1> SUFFICES ASSUME Init PROVE PolicyKept
    OBVIOUS
  <1>1. policy \in Policy /\ policy.retry \in 0..MaxRetry /\ MaxRetry \in Nat
    BY PolicyAssumption DEF Init, Policy
  <1>2. /\ wf = "RUNNING" /\ task = "IDLE" /\ actions = <<>> /\ calls = {"start"}
        /\ continues = 0 /\ completions = {} /\ timer = FALSE /\ txs = {}
        /\ waited = FALSE /\ retryNo = 0 /\ processed = FALSE /\ dispatched = 0
        /\ timedOut = FALSE /\ pauses = 0 /\ policy \in Policies
    BY DEF Init
  <1>3. <<>> \in Seq(Action)
    BY EmptySeq
  <1>4. retryNo \in 0..MaxRetry /\ retryNo <= policy.retry
    BY <1>1, <1>2
  <1>5. PolicyTypeOK
    BY <1>1, <1>2, <1>3, <1>4 DEF PolicyTypeOK, TaskState
  <1>6. DispatchKept /\ TxsKept /\ TimerKept
    BY <1>2 DEF DispatchKept, TxsKept, TimerKept, Completed
  <1> QED BY <1>2, <1>4, <1>5, <1>6 DEF PolicyKept, Idle

\* The jobs and results of the task keep the invariant.
LEMMA CommitKeeps ==
    ASSUME PolicyKept, TimeoutApart, NEW x \in txs,
           Result(x) \/ CompleteTask(x) \/ FailTaskIfIncomplete(x)
    PROVE  PolicyKept'
  <1>1. TxsKept
    BY DEF PolicyKept
  <1>2. CASE Result(x)
    <2>1. x.op = "result" /\ x.action = Len(actions) /\ x.res \in Completed
      BY <1>1, <1>2 DEF Result, TxsKept
    <2> DEFINE acts == [actions EXCEPT ![Len(actions)] = [state |-> x.res, accepted |-> TRUE]]
    <2>2. Complete(x.res, x.seen, acts) /\ txs' = txs \ {x} /\ timedOut' = timedOut
      BY <1>2, <2>1 DEF Result
    <2>3. UNCHANGED <<policy, wf, calls, pauses>>
      BY <1>2 DEF Result
    <2> QED BY <2>1, <2>2, <2>3, CompleteKeeps
  <1>3. CASE CompleteTask(x)
    <2>1. x.op = "complete" /\ x.res \in Completed
      BY <1>1, <1>3 DEF CompleteTask, TxsKept
    <2>2. Complete(x.res, x.seen, actions) /\ txs' = txs \ {x} /\ timedOut' = timedOut
      BY <1>3 DEF CompleteTask
    <2>3. UNCHANGED <<policy, wf, calls, pauses>>
      BY <1>3 DEF CompleteTask
    <2> QED BY <2>1, <2>2, <2>3, CompleteKeeps
  <1>4. CASE FailTaskIfIncomplete(x)
    <2>1. x.op = "timeout" /\ "ERROR" \in Completed
      BY <1>4 DEF FailTaskIfIncomplete, Completed
    <2>2. /\ Complete("ERROR", x.seen, actions) /\ txs' = txs \ {x}
          /\ timedOut' = (x.seen \notin Completed /\ task = x.seen)
      BY <1>4 DEF FailTaskIfIncomplete, UpdateMatches
    <2>3. UNCHANGED <<policy, wf, calls, pauses>>
      BY <1>4 DEF FailTaskIfIncomplete
    <2> QED BY <2>1, <2>2, <2>3, CompleteKeeps
  <1> QED BY <1>2, <1>3, <1>4

\* Whatever the policies are, as long as a timeout is not combined with retry,
\* wait-before or pause-before, the task is in one of its phases, with the messages,
\* jobs and transactions of that phase.
THEOREM PolicyInvariant ==
    ASSUME TimeoutApart
    PROVE  PolicySpec => []PolicyKept
  <1>1. Init => PolicyKept
    BY PolicyStarts
  <1>2. ASSUME PolicyKept, [Next]_vars PROVE PolicyKept'
    <2>1. CASE RunNew \/ RunExisting
      BY <1>2, <2>1, StartKeeps
    <2>2. CASE Finishes \/ Begin
      BY <1>2, <2>2, BeginKeeps
    <2>3. CASE Commit
      BY <1>2, <2>3, StartKeeps, CommitKeeps DEF Commit
    <2>4. CASE Pause \/ Resume
      BY <1>2, <2>4, OperatorKeeps
    <2>5. CASE UNCHANGED vars
      <3>1. UNCHANGED <<policy, wf, task, waited, retryNo, processed, dispatched, actions,
                        calls, continues, completions, timer, txs, timedOut, pauses>>
        BY <2>5 DEF vars, taskVars, jobVars
      <3>2. /\ PolicyTypeOK' = PolicyTypeOK /\ DispatchKept' = DispatchKept
            /\ TxsKept' = TxsKept /\ TimerKept' = TimerKept /\ Idle' = Idle
            /\ ToContinue' = ToContinue /\ Acting' = Acting
            /\ ToComplete' = ToComplete /\ Ended' = Ended
        BY <3>1 DEF PolicyTypeOK, DispatchKept, TxsKept, TimerKept, Idle, ToContinue, Acting,
                    ToComplete, WaitsFor, Ended, EndMatchesPolicies, FormerSpent, Last
      <3> QED BY <1>2, <3>1, <3>2 DEF PolicyKept
    <2> QED BY <1>2, <2>1, <2>2, <2>3, <2>4, <2>5 DEF Next
  <1> QED BY <1>1, <1>2, PTL DEF PolicySpec

\* A former action is not running, and there are no more than the retries allow.
LEMMA OneAction ==
    ASSUME PolicyKept, TimeoutApart
    PROVE  OneActionAtATime
  <1> DEFINE n == Len(actions)
             running == {i \in DOMAIN actions : actions[i].state = "RUNNING"}
  <1>1. /\ n \in Nat /\ DOMAIN actions = 1..n /\ policy.retry \in Nat /\ retryNo \in Nat
        /\ retryNo <= policy.retry
    BY PhaseFacts DEF PolicyKept
  <1>2. n <= 1 + policy.retry
    <2>1. CASE Idle
      <3>1. n = 0
        BY <2>1 DEF Idle
      <3> QED BY <1>1, <3>1
    <2>2. CASE ToContinue
      <3>1. n = retryNo
        BY <2>2 DEF ToContinue
      <3> QED BY <1>1, <3>1
    <2>3. CASE Acting \/ ToComplete
      <3>1. n = retryNo + 1
        BY <2>3 DEF Acting, ToComplete
      <3> QED BY <1>1, <3>1
    <2>4. CASE Ended
      <3>1. n \in 1..(1 + policy.retry)
        BY <2>4 DEF Ended
      <3> QED BY <1>1, <3>1
    <2> QED BY <2>1, <2>2, <2>3, <2>4 DEF PolicyKept
  <1>3. running \subseteq {n}
    <2>1. CASE Idle
      BY <2>1 DEF Idle
    <2>2. CASE ToContinue
      BY <2>2 DEF ToContinue, Spent
    <2>3. CASE Acting \/ ToComplete \/ Ended
      <3>1. \A i \in 1..n : i = n \/ i \in 1..(n - 1)
        <4>1. \A m \in Nat : \A i \in 1..m : i = m \/ i \in 1..(m - 1)
          OBVIOUS
        <4> QED BY <1>1, <4>1
      <3> QED BY <1>1, <2>3, <3>1 DEF Acting, ToComplete, Ended, FormerSpent, Spent
    <2> QED BY <2>1, <2>2, <2>3 DEF PolicyKept
  <1>4. Cardinality(running) <= 1
    <2>1. IsFiniteSet({n}) /\ Cardinality({n}) = 1
      BY FS_Singleton
    <2>2. Cardinality(running) <= Cardinality({n})
      BY <1>3, <2>1, FS_Subset
    <2> QED BY <2>1, <2>2
  <1> QED BY <1>2, <1>4 DEF OneActionAtATime

\* However retries, delays, pauses, results and the timeout are ordered, a task has one
\* action at a time, no more than its retry count allows, and dispatches the next tasks
\* exactly once.
THEOREM PolicySafety ==
    ASSUME TimeoutApart
    PROVE  PolicySpec => []PolicyInv
  <1>1. ASSUME PolicyKept PROVE PolicyInv
    <2>1. PolicyTypeOK /\ DispatchKept /\ dispatched \in Nat
      BY <1>1 DEF PolicyKept, PolicyTypeOK
    <2>2. DispatchedOnce
      BY <2>1 DEF DispatchKept, DispatchedOnce
    <2> QED BY <1>1, <2>1, <2>2, OneAction DEF PolicyInv
  <1> QED BY <1>1, PolicyInvariant, PTL

\* A task ends in the state its policies give its last action: SUCCESS with a result
\* that counts, alone; ERROR after every retry; CANCELLED at once.
THEOREM EndsAsPoliciesSay ==
    ASSUME TimeoutApart
    PROVE  PolicySpec => []EndMatchesPolicies
  <1>1. ASSUME PolicyKept PROVE EndMatchesPolicies
    <2>1. CASE Ended
      BY <2>1 DEF Ended
    <2>2. CASE Idle
      <3>1. Len(actions) = 0 /\ 1..(0 - 1) = {}
        BY <2>2 DEF Idle
      <3> QED BY <2>2, <3>1 DEF Idle, EndMatchesPolicies
    <2>3. CASE ToContinue
      <3>1. Len(actions) \in Nat /\ DOMAIN actions = 1..Len(actions)
        BY <1>1, PhaseFacts
      <3>2. \A i \in 1..(Len(actions) - 1) : i \in DOMAIN actions
        BY <3>1
      <3> QED BY <2>3, <3>2 DEF ToContinue, Spent, EndMatchesPolicies
    <2>4. CASE Acting \/ ToComplete
      BY <2>4 DEF Acting, ToComplete, FormerSpent, Spent, EndMatchesPolicies
    <2> QED BY <1>1, <2>1, <2>2, <2>3, <2>4 DEF PolicyKept
  <1> QED BY <1>1, PolicyInvariant, PTL
=============================================================================
