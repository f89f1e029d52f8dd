SPECIFICATION FairAdmissionSpec
CONSTANTS
    run1 = run1
    run2 = run2
    run3 = run3
    op1 = op1
    stop1 = stop1
    Nobody = Nobody
    Ids = {run1, run3, op1}
    Stoppers = {stop1}
    Control <- MCControl
    Exclusive <- MCExclusive
    Target <- MCTarget
    Mode <- MCForce
    MaxGeneration = 1
    MaxCrashes = 2
CHECK_DEADLOCK FALSE
PROPERTIES
    BuildsMatch
    RemovedRunsAreDown
    WaitersLeave
