------------------------------- MODULE MCServices -------------------------------
(* The scenarios of the run of Services: what the outside world may do.     *)
EXTENDS Services

CONSTANTS en1, en2, p1, p2, t1, t2, j1, j2

MCEngine  == {en1, en2}
MCProject == {p1, p2}
MCTrigger == {t1, t2}
MCJob     == {j1, j2}

Only(given) == [w \in What |-> IF w \in DOMAIN given THEN given[w] ELSE 0]

Scenarios ==
    { Only([cron |-> 1, fault |-> 2]),
      Only([cron |-> 1, api |-> 2]),
      Only([cron |-> 1, toggle |-> 1]),
      Only([toggle |-> 3, request |-> 1]),
      Only([toggle |-> 2, request |-> 2]),
      Only([toggle |-> 2, request |-> 1, fault |-> 1, cancel |-> 1]),
      Only([expire |-> 1, request |-> 2, fault |-> 1]),
      Only([expire |-> 1, request |-> 2, cancel |-> 1]),
      Only([trigger |-> 2, event |-> 2, fault |-> 1]),
      Only([trigger |-> 3, event |-> 1, restart |-> 1]),
      Only([trigger |-> 1, event |-> 1, toggle |-> 1]),
      Only([delay |-> 2, fault |-> 1]) }
=============================================================================
