------------------------- MODULE MCDefaultScheduler -------------------------
(* Model values and symmetry for the runs of DefaultScheduler.              *)
EXTENDS DefaultScheduler, TLC

CONSTANTS p1, p2, j1, j2

Procs == {p1, p2}
Jobs  == {j1, j2}
OneProc == {p1}

\* Processes and jobs are interchangeable in the safety runs.
Symmetry == Permutations(Procs) \cup Permutations(Jobs)
=============================================================================
