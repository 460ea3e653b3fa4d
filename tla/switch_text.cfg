SPECIFICATION Spec
CONSTANTS
    MaxLeft = 4
    MaxRight = 3
    MaxEntries = 3
    MaxAddress = 5
INVARIANTS
    PortsAsClassified
    BlocksInOrder
    DiffLosesNothing
    PingKeepsTargets
    HealthSeesErrors
