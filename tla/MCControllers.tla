---------------------------- MODULE MCControllers ----------------------------
(* The workflows of the run of Controllers.                                 *)
EXTENDS Controllers

CONSTANTS A, B, C, T

\* Reverse workflows; T is the target.
MCTask == {A, B, C, T}

Only(default, given) == [t \in MCTask |-> IF t \in DOMAIN given THEN given[t] ELSE default]
Succeed == Only({"SUCCESS"}, <<>>)

Doc(tasks, requires, defaults, publish, outcome) ==
    [tasks |-> tasks, requires |-> requires, defaults |-> defaults, target |-> T,
     publish |-> publish, outcome |-> outcome]

\* T requires A and B.
Fork == Only({}, [t \in {T} |-> {A, B}])
\* T requires A and C, C requires B, B requires A: A and C publish.
Chain == [t \in MCTask |-> CASE t = T -> {A, C} [] t = C -> {B} [] t = B -> {A} [] OTHER -> {}]

Silent == Only("absent", <<>>)
Scalars == [t \in MCTask |-> IF t \in {A, C} THEN "scalar" ELSE "absent"]
Dicts   == [t \in MCTask |-> IF t \in {A, C} THEN "dict" ELSE "absent"]

\* A may fail, B may be cancelled.
Failing == [t \in MCTask |-> CASE t = A -> {"SUCCESS", "ERROR"}
                               [] t = B -> {"SUCCESS", "CANCELLED"}
                               [] OTHER -> {"SUCCESS"}]

MCDocuments ==
    { Doc({A, B, T}, Fork, {}, Silent, Failing),
      Doc({A, B, C, T}, Only({}, [t \in {T} |-> {A, B, C}]), {}, Silent, Succeed),
      Doc({A, B, C, T}, Chain, {}, Scalars, Succeed),
      Doc({A, B, C, T}, Chain, {}, Dicts, Succeed),
      Doc({A, T}, Only({}, <<>>), {A}, Silent, Failing),      \* A by default
      Doc({A, B, T}, Only({}, <<>>), {A, B}, Silent, Succeed),\* a cycle by default
      Doc({A, T}, Fork, {}, Silent, Succeed),                 \* B is not defined
      Doc({A, B}, Only({}, <<>>), {}, Silent, Succeed) }      \* the target is not

MCBudgets == {<<1, 0>>, <<0, 2>>}
-----------------------------------------------------------------------------
\* Direct workflows.
Nothing == [SUCCESS |-> <<>>, ERROR |-> <<>>]
OnSuccess(q) == [SUCCESS |-> q, ERROR |-> <<>>]
Clauses(given) == [n \in MCTask |-> IF n \in DOMAIN given THEN given[n] ELSE Nothing]
Results(failing) == [n \in MCTask |-> IF n \in failing THEN Result ELSE {"SUCCESS"}]
Def(start, given, joins, failing) ==
    [start |-> start, clause |-> Clauses(given), joins |-> joins, results |-> Results(failing)]

Pauses == [pause |-> 1, stop |-> 0]
Stops  == [pause |-> 0, stop |-> 1]
After(d, S) == {d} \X S

\* A: pauses and fails between tasks, two of them beside an independent task.  With
\* another pause an IDLE task goes into the backlog and comes back as another
\* execution.
Twice == Def({A}, [n \in {A} |-> OnSuccess(<<"pause", B, "pause", C>>)], {}, {})
Alone == Def({A}, [n \in {A} |-> OnSuccess(<<B, "pause", C>>)], {}, {})
Fails == Def({A, T}, [n \in {A} |-> [SUCCESS |-> <<B, "fail", C>>, ERROR |-> <<"noop">>]], {}, {A})
Later == Def({A, T}, [n \in {A} |-> OnSuccess(<<"pause", B, "succeed", C>>)], {}, {})
\* A -> C and B -> C, a join; A pauses before it, or A may fail.
Paused == Def({A, B}, [n \in {A, B} |-> OnSuccess(IF n = A THEN <<"pause", C>> ELSE <<C>>)], {C}, {})
Joined == Def({A, B}, [n \in {A, B} |-> OnSuccess(<<C>>)], {C}, {A})
\* A pauses when it fails, B ends the workflow.
Ending == Def({A}, [n \in {A, B} |-> IF n = A THEN [SUCCESS |-> <<B>>, ERROR |-> <<"pause", C>>]
                                   ELSE OnSuccess(<<"succeed">>)], {}, {A, B})

MCScenarios ==
    UNION {After(d, {Pauses, Stops}) : d \in {Twice, Alone, Fails, Later, Paused, Joined, Ending}}
=============================================================================
