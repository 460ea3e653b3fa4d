SPECIFICATION LifecycleSpec
CONSTANTS
    NumTunnels = 2
    Branches <- TwoBranches
    Attempts <- TwoAttempts
    Removals <- OneRemoval
    a1 = a1
    a2 = a2
    r1 = r1
    r2 = r2
    d1 = d1
    d2 = d2
    golden = golden
    foreign = foreign
    Foreign = foreign
    FortiGates <- Sites
    Golden = golden
    ForeignObjects <- NoForeign
    Serial = TRUE
    StaleCandidates = FALSE
    Faults <- None
    MaxFaults = 0
    MaxCrashes = 0
PROPERTIES
    DestroyedMeansGone
CHECK_DEADLOCK FALSE
