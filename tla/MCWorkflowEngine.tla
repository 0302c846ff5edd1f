-------------------------- MODULE MCWorkflowEngine --------------------------
(* The workflows of the runs of WorkflowEngine.                             *)
EXTENDS WorkflowEngine, TLC

CONSTANTS A, B, C, D, J

Nowhere(S) == [t \in S |-> {}]
Succeeds(S) == [t \in S |-> {"SUCCESS"}]

\* A -> J and B -> C -> J, J is a join of both; B on-error: D.
Tasks == {A, B, C, D, J}
Success == [t \in Tasks |-> CASE t \in {A, C} -> {J} [] t = B -> {C} [] OTHER -> {}]
ErrorOfB == [t \in Tasks |-> IF t = B THEN {D} ELSE {}]
NoClause == Nowhere(Tasks)
Joins == {J}
All == [j \in Joins |-> 2]
Ends == [t \in Tasks |-> CASE t = B -> {"SUCCESS", "ERROR"}
                          [] t = C -> {"SUCCESS", "CANCELLED"}
                          [] OTHER -> {"SUCCESS"}]

\* A -> J, B -> J.
Three == {A, B, J}
ToJoin3 == [t \in Three |-> IF t \in {A, B} THEN {J} ELSE {}]
NoClause3 == Nowhere(Three)
Succeed3 == Succeeds(Three)

NoJoin == {}
NoneNeeded == [j \in {} |-> 0]

\* A -> B on success, A -> C on completion; B may end in any way.
Fork == {A, B, C}
ForkSuccess == [t \in Fork |-> IF t = A THEN {B} ELSE {}]
ForkComplete == [t \in Fork |-> IF t = A THEN {C} ELSE {}]
NoClauseF == Nowhere(Fork)
EndsF == [t \in Fork |-> IF t = B THEN ActionEnd ELSE {"SUCCESS"}]
=============================================================================
