SPECIFICATION Spec
CONSTANTS
    NumTunnels = 2
    Branches <- TwoBranches
    Attempts <- TwoAttempts
    a1 = a1
    a2 = a2
    a3 = a3
    d1 = d1
    d2 = d2
    golden = golden
    foreign = foreign
    Foreign = foreign
    FortiGates <- Sites
    Golden = golden
    ForeignObjects <- NoForeign
    Serial = TRUE
    StaleCandidates = FALSE
    Faults <- OneRefusal
    MaxFaults = 1
    MaxCrashes = 0
INVARIANT
    FailureLeavesNothing
CHECK_DEADLOCK FALSE
