SPECIFICATION Spec
CONSTANTS
    NumTunnels = 1
    Branches <- TwoBranches
    Attempts <- TwoAttempts
    a1 = a1
    a2 = a2
    a3 = a3
    d1 = d1
    d2 = d2
    golden = golden
    foreign = foreign
    Foreign = foreign
    FortiGates <- Sites
    Golden = golden
    ForeignObjects <- HandEntered
    Serial = FALSE
    StaleCandidates = TRUE
    Faults <- UnsafeFaults
    MaxFaults = 2
    MaxCrashes = 1
SYMMETRY AttemptSymmetry
INVARIANTS
    ConfiguredMeansListed
    NoDanglingReference
    RecordedIsReleased
PROPERTY
    OnlyOwnReleased
CHECK_DEADLOCK FALSE
