SPECIFICATION LifecycleSpec
CONSTANTS
    NumTunnels = 1
    Branches <- TwoBranches
    Attempts <- TwoAttempts
    Removals <- TwoRemovals
    a1 = a1
    a2 = a2
    r1 = r1
    r2 = r2
    d1 = d1
    d2 = d2
    golden = golden
    foreign = foreign
    Foreign = foreign
    FortiGates <- Sites
    Golden = golden
    ForeignObjects <- NoForeign
    Serial = TRUE
    StaleCandidates = FALSE
    Faults <- NoticedFaults
    MaxFaults = 1
    MaxCrashes = 1
SYMMETRY LifecycleSymmetry
INVARIANTS
    LifecycleTypeOK
    ServedMeansReserved
    ConfiguredMeansListed
PROPERTIES
    DestroyedIsFree
CHECK_DEADLOCK FALSE
