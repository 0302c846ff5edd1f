---------------------------------- MODULE MCApi ----------------------------------
(* The scenarios of the run of Api: what clients do, and what goes wrong.   *)
EXTENDS Api

CONSTANTS p1, p2, c1, c2, x1, a, w, owner, member1, t1, t2, u1, u2, u3

MCProcess   == {p1, p2}
MCClient    == {c1, c2}
MCExecution == {x1}
MCAction    == {a}
MCWorkflow  == {w}
MCProject   == {owner, member1}
MCTrigger   == {t1, t2}
MCRow       == 1..4
MCInbound   == {u1, u2, u3}
MCJoin      == {1, 2}

\* Each task leads to both joins, or to one of them and a task that is none.
MCBranches  == [MCInbound -> {{1, 2}, {1}, {2, Plain}}]

\* Documents with a version of the action and, two of them, of the workflow.
MCDocuments == { [m \in {a, w} |-> IF m = a THEN 1 ELSE 0],
                 [m \in {a, w} |-> IF m = a THEN 1 ELSE 2],
                 [m \in {a, w} |-> 2] }

Only(given) == [x \in What |-> IF x \in DOMAIN given THEN given[x] ELSE 0]

Scenarios ==
    { Only([workbook |-> 3, edit |-> 1, fault |-> 1]),
      Only([code |-> 4, action |-> 1, find |-> 3, fault |-> 1, delete |-> 1]),
      Only([code |-> 3, action |-> 2, find |-> 2, restart |-> 1, delete |-> 1]),
      Only([share |-> 4, trigger |-> 3]),
      Only([write |-> 2, start |-> 3, fault |-> 1, delete |-> 1]),
      Only([write |-> 1, start |-> 2, fault |-> 1, restart |-> 1]),
      Only([write |-> 2, start |-> 3, restart |-> 1]),
      Only([list |-> 1, write |-> 1, delete |-> 2, fault |-> 1]),
      Only([list |-> 1, delete |-> 1, restart |-> 1]),
      Only([dispatch |-> 3, fault |-> 1]),
      Only([dispatch |-> 3, restart |-> 1]) }
=============================================================================
