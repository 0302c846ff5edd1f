-------------------------- MODULE MCActionExecution --------------------------
(* Model values for the run of ActionExecution.                             *)
EXTENDS ActionExecution

CONSTANTS a1, a2, a3, e1

MCAction    == {a1, a2, a3}
MCSync      == {a1, a3}
MCOwned     == {a1, a2}

\* The actions of two tasks, or one that is started by hand.
MCTogether  == {{a1, a2}, {a3}}
OneExecutor == {e1}
=============================================================================
