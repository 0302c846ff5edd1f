-------------------------- MODULE MCRefreshRequests --------------------------
(* Model values and settings for the run of RefreshRequests.                *)
EXTENDS RefreshRequests

CONSTANTS p1, p2, j1, j2, r1, r2

Procs    == {p1, p2}
Jobs     == {j1, j2}
Requests == {r1, r2}

\* Two processes without faults, one process with faults.
MCWorlds == { w \in World :
                \/ w.deployed = Procs /\ ~w.faults
                \/ w.deployed = {p1} /\ w.faults }
=============================================================================
