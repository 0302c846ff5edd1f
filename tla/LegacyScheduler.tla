---------------------------- MODULE LegacyScheduler ----------------------------
(***************************************************************************)
(* The legacy scheduler: a call is a row of delayed_calls, written in the  *)
(* transaction of the caller.  The loop of every engine selects due rows,  *)
(* marks them as processing, and then prepares, invokes and deletes them   *)
(* as one batch.  Nothing ever takes up a row that is processing: a call   *)
(* is made at most once, and may be lost.                                  *)
(***************************************************************************)
EXTENDS Executions

CONSTANTS Proc,        (* the engine processes, one loop each                *)
          Job,         (* the calls that may be scheduled, each at most once *)
          LegacyBatch  (* [scheduler] batch_size                             *)

ASSUME LegacyAssumption == LegacyBatch \in Nat \ {0}

VARIABLES
    row,         \* Job -> "none", "open", "stored", "dropped", "removed"
    due,         \* SUBSET Job: execution_time has come
    bad,         \* SUBSET Job: calls that cannot be prepared (an import fails)
    processing,  \* SUBSET Job: the column of the rows
    loop,        \* Proc -> the step of _process_delayed_calls()
    taken,       \* Proc -> SUBSET Job: candidates, then captured calls
    todo,        \* Proc -> SUBSET Job: the prepared calls still to be invoked
    called,      \* Job -> Nat: how often the target method was invoked
    lost         \* SUBSET Job: history, captured and given up before the call

legacyVars == <<row, due, bad, processing, loop, taken, todo, called, lost>>

LegacyTypeOK ==
    /\ row \in [Job -> {"none", "open", "stored", "dropped", "removed"}]
    /\ due \subseteq Job /\ bad \subseteq Job /\ processing \subseteq Job
    /\ loop \in [Proc -> {"idle", "selected", "captured", "invoking"}]
    /\ taken \in [Proc -> SUBSET Job] /\ todo \in [Proc -> SUBSET Job]
    /\ \A p \in Proc : todo[p] \subseteq taken[p]
    /\ called \in [Job -> Nat] /\ lost \subseteq processing

LegacyInit ==
    /\ row = [j \in Job |-> "none"] /\ due = {} /\ bad = {}
    /\ processing = {}
    /\ loop = [p \in Proc |-> "idle"]
    /\ taken = [p \in Proc |-> {}] /\ todo = [p \in Proc |-> {}]
    /\ called = [j \in Job |-> 0] /\ lost = {}

loopVars == <<loop, taken, todo>>

-----------------------------------------------------------------------------
(* The caller, and time.                                                    *)

\* _schedule_call(); whether the call can be prepared shows only later.
Schedule(j) ==
    /\ row[j] = "none" /\ Spend("delay")
    /\ row' = [row EXCEPT ![j] = "open"]
    /\ bad' \in {bad, bad \cup {j}}
    /\ UNCHANGED <<due, processing, loopVars, called, lost>>

EndTransaction(j) ==
    /\ row[j] = "open"
    /\ \E result \in {"stored", "dropped"} : row' = [row EXCEPT ![j] = result]
    /\ UNCHANGED <<due, bad, processing, loopVars, called, lost, left>>

BecomeDue(j) ==
    /\ row[j] # "none" /\ j \notin due
    /\ due' = due \cup {j}
    /\ UNCHANGED <<row, bad, processing, loopVars, called, lost, left>>

-----------------------------------------------------------------------------
(* The loop.                                                                *)

\* get_delayed_calls_to_start()
Eligible == {j \in due : row[j] = "stored" /\ j \notin processing}

Select(p) ==
    /\ loop[p] = "idle"
    /\ \E S \in SUBSET Eligible :
         /\ S # {} /\ Cardinality(S) <= LegacyBatch
         /\ Cardinality(S) < LegacyBatch => S = Eligible
         /\ taken' = [taken EXCEPT ![p] = S]
    /\ loop' = [loop EXCEPT ![p] = "selected"]
    /\ UNCHANGED <<row, due, bad, processing, todo, called, lost, left>>

\* UPDATE ... WHERE processing = False, row by row; the rows stay locked until
\* the transaction commits.
Won(p) == {j \in taken[p] : row[j] = "stored" /\ j \notin processing}

Capture(p) ==
    /\ loop[p] = "selected"
    /\ taken' = [taken EXCEPT ![p] = Won(p)]
    /\ processing' = processing \cup Won(p)
    /\ loop' = [loop EXCEPT ![p] = IF Won(p) = {} THEN "idle" ELSE "captured"]
    /\ UNCHANGED <<row, due, bad, todo, called, lost, left>>

\* _prepare_calls(): one call that cannot be prepared raises for the batch.
GivenUp(p) == IF taken[p] \cap bad = {} THEN {} ELSE taken[p]

Prepare(p) ==
    /\ loop[p] = "captured"
    /\ lost' = lost \cup GivenUp(p)
    /\ taken' = [taken EXCEPT ![p] = @ \ GivenUp(p)]
    /\ todo' = [todo EXCEPT ![p] = taken[p] \ GivenUp(p)]
    /\ loop' = [loop EXCEPT ![p] = IF GivenUp(p) = {} THEN "invoking" ELSE "idle"]
    /\ UNCHANGED <<row, due, bad, processing, called, left>>

\* An exception of the target method is logged.
Invoke(p, j) ==
    /\ loop[p] = "invoking" /\ j \in todo[p]
    /\ todo' = [todo EXCEPT ![p] = @ \ {j}]
    /\ called' = [called EXCEPT ![j] = @ + 1]
    /\ UNCHANGED <<row, due, bad, processing, loop, taken, lost, left>>

\* delete_calls(), for the whole batch after the last call.
InvokedSome(p) == TRUE                        \* mutant: deletes before it invokes
Invoked(p) == todo[p] = {}

Leave(p) == /\ loop' = [loop EXCEPT ![p] = "idle"]
            /\ taken' = [taken EXCEPT ![p] = {}]
            /\ todo' = [todo EXCEPT ![p] = {}]

DeleteCalls(p) ==
    /\ loop[p] = "invoking" /\ Invoked(p)
    /\ row' = [j \in Job |-> IF j \in taken[p] THEN "removed" ELSE row[j]]
    /\ Leave(p)
    /\ UNCHANGED <<due, bad, processing, called, lost, left>>

\* The deletion fails for good: the rows stay, processing for ever.
DeletionFails(p) ==
    /\ loop[p] = "invoking" /\ Invoked(p) /\ Spend("fault")
    /\ Leave(p)
    /\ UNCHANGED <<row, due, bad, processing, called, lost>>

\* The process dies and is started again; an open transaction of the capture is
\* rolled back, a committed one is not undone.
Crash(p) ==
    /\ loop[p] # "idle" /\ Spend("fault")
    /\ lost' = lost \cup (IF loop[p] = "captured" THEN taken[p] ELSE todo[p])
    /\ Leave(p)
    /\ UNCHANGED <<row, due, bad, processing, called>>

-----------------------------------------------------------------------------
LegacyLoop(p) ==
    \/ Select(p) \/ Capture(p) \/ Prepare(p) \/ DeleteCalls(p)
    \/ \E j \in Job : Invoke(p, j)

-----------------------------------------------------------------------------
\* Several engines select the same rows and compete for them, and still no call
\* is made twice: at most one of them turns processing from False to True.
CalledAtMostOnce == \A j \in Job : called[j] <= 1

\* What is called was committed, and what is removed was called: the legacy
\* scheduler keeps the promise that the default one keeps.
Promise == INSTANCE DelayedCalls WITH
    Attempt <- Nat \ {0},
    stage   <- row,
    calls   <- [j \in Job |-> 1..called[j]]
KeepsPromise == Promise!Spec

\* A committed call is made, or it was captured by a batch that was given up: by a
\* crash, or because one call of the batch cannot be prepared.
CommittedCallIsMade ==
    \A j \in Job : row[j] = "stored" ~> (called[j] > 0 \/ j \in lost)
=============================================================================
