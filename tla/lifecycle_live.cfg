SPECIFICATION FairLifecycleSpec
CONSTANTS
    NumTunnels = 1
    Branches <- OneBranch
    Attempts <- TwoAttempts
    Removals <- OneRemoval
    a1 = a1
    a2 = a2
    r1 = r1
    r2 = r2
    d1 = d1
    d2 = d2
    golden = golden
    foreign = foreign
    Foreign = foreign
    FortiGates <- SitesAndGolden
    Golden = golden
    ForeignObjects <- NoForeign
    Serial = TRUE
    StaleCandidates = FALSE
    Faults <- LiveFaults
    MaxFaults = 1
    MaxCrashes = 1
PROPERTIES
    EveryDeploymentEnds
    NothingWrongThenDeployed
    EveryDestroyEnds
CHECK_DEADLOCK FALSE
