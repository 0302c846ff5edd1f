---------------------------- MODULE MCTaskPolicies ----------------------------
(* The combinations of policies of the runs of TaskPolicies.                *)
EXTENDS TaskPolicies

\* A timeout is combined with wait-after and fail-on only: together with retry,
\* wait-before or pause-before the job of the one policy does not see what the
\* job of the other did.
Separate == {p \in Policy : p.timeout => /\ p.retry = 0 /\ ~p.waitBefore
                                         /\ ~p.pauseBefore}
=============================================================================
