\* Two subworkflows; up to two pauses or reruns, one stop, one lost result.
SPECIFICATION SubFairSpec
CONSTANTS
    s1 = s1
    s2 = s2
    Sub <- MCSub
    Budgets <- Separate
CHECK_DEADLOCK FALSE
INVARIANTS
    SubInv
    PausedTogether
    CancelReachesAll
PROPERTIES
    RootEnds
