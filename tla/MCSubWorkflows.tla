---------------------------- MODULE MCSubWorkflows ----------------------------
(* What the operator and the faults may do in the runs of SubWorkflows.     *)
EXTENDS SubWorkflows

CONSTANTS s1, s2

MCSub == {s1, s2}

\* Two pauses and a stop; a rerun and a stop; a lost result.  Not together: a
\* rerun of one subworkflow resumes the root over the heads of the paused ones,
\* and a lost result is not found again for a PAUSED task.
Separate ==
    {b \in Budget : /\ b.stop <= 1 /\ b.loss <= 1
                    /\ b.rerun > 0 \/ b.loss > 0 => b.pause = 0
                    /\ b.pause > 0 => ~b.viaRpc}
=============================================================================
