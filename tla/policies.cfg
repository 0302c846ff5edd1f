\* All combinations of policies, except those of timeout with retry,
\* wait-before or pause-before; up to two retries, one pause by an operator.
SPECIFICATION PolicyFairSpec
CONSTANTS
    Policies <- Separate
    MaxRetry = 2
    MaxPause = 1
CHECK_DEADLOCK FALSE
INVARIANTS
    PolicyInv
    EndMatchesPolicies
PROPERTIES
    TaskEnds
