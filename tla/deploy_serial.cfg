SPECIFICATION Spec
CONSTANTS
    NumTunnels = 2
    Branches <- TwoBranches
    Attempts <- ThreeAttempts
    a1 = a1
    a2 = a2
    a3 = a3
    d1 = d1
    d2 = d2
    golden = golden
    foreign = foreign
    Foreign = foreign
    FortiGates <- Sites
    Golden = golden
    ForeignObjects <- NoForeign
    Serial = TRUE
    StaleCandidates = FALSE
    Faults <- CleanFaults
    MaxFaults = 1
    MaxCrashes = 1
SYMMETRY SerialSymmetry
INVARIANTS
    TypeOK
    ServedMeansReserved
    OneSitePerBranch
PROPERTIES
    SuccessMeansServed
    ImplementsLease
CHECK_DEADLOCK FALSE
