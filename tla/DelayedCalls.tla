------------------------------ MODULE DelayedCalls ------------------------------
(***************************************************************************)
(* What a scheduler, of either kind, promises to a transaction that        *)
(* schedules a job: the job is called only if the transaction commits, it  *)
(* may be called more than once, each time on an attempt of its own, and   *)
(* it is forgotten only after a call.  Jobs may move together.             *)
(***************************************************************************)
CONSTANTS Job,       (* the jobs                                             *)
          Attempt    (* the attempts to execute a job                        *)

VARIABLES stage,     \* [Job -> Stage]
          calls      \* [Job -> SUBSET Attempt]: the attempts that were made

Stage == {"none", "open", "stored", "dropped", "removed"}

Init == /\ stage = [j \in Job |-> "none"]
        /\ calls = [j \in Job |-> {}]

\* The transaction opens and ends; a job that was called may be removed.
Moves(j) ==
    \/ stage'[j] = stage[j]
    \/ stage[j] = "none" /\ stage'[j] = "open"
    \/ stage[j] = "open" /\ stage'[j] \in {"stored", "dropped"}
    \/ stage[j] = "stored" /\ stage'[j] = "removed" /\ calls[j] # {}

\* A slow attempt may make its call after another one has removed the job.
Calls(j) ==
    \/ calls'[j] = calls[j]
    \/ /\ stage[j] \in {"stored", "removed"}
       /\ \E a \in calls'[j] : calls'[j] = calls[j] \cup {a}

Next == /\ stage' \in [Job -> Stage] /\ calls' \in [Job -> SUBSET Attempt]
        /\ \A j \in Job : Moves(j) /\ Calls(j)

Spec == Init /\ [][Next]_<<stage, calls>>
=============================================================================
