------------------------------- MODULE Lifecycle -------------------------------
(***************************************************************************)
(* What an execution of any kind promises to whoever started it: it begins *)
(* once, ends at most once, and keeps the state it ended in.  Executions   *)
(* may move in the same transaction.  Reruns, which are new attempts on    *)
(* the order of an operator, are not part of the promise.                  *)
(***************************************************************************)
CONSTANTS Execution,   (* the executions                                     *)
          Final        (* the states an execution may end in                 *)

VARIABLE status        \* [Execution -> Status]

Status == {"new", "active"} \cup Final

Init == status = [e \in Execution |-> "new"]

Moves(from, to) ==
    \/ to = from
    \/ from = "new" /\ to = "active"
    \/ from = "active" /\ to \in Final

Next == /\ status' \in [Execution -> Status]
        /\ \A e \in Execution : Moves(status[e], status'[e])

Spec == Init /\ [][Next]_status

\* Every execution that has begun ends.
Ends == \A e \in Execution : status[e] = "active" ~> status[e] \in Final
=============================================================================
